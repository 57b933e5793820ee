---------------------------- MODULE VrfDerivation ----------------------------
(***************************************************************************)
(* What the epoch program derives from the first eight bytes of a VRF      *)
(* result: the tax configuration of the epoch (helpers/tax_derivation.rs)  *)
(* and the Carnage decision (helpers/carnage.rs).                          *)
(*                                                                         *)
(* A VRF result is a function from byte positions to byte values.          *)
(***************************************************************************)
EXTENDS IntegerMath

Byte == 0..255
VrfResult == [0..7 -> Byte]

Token == {"CRIME", "FRAUD"}
NoToken == "None"                       \* held_token = 0
CarnageAction == {"None", "Burn", "Sell"}

Opposite(t) == IF t = "CRIME" THEN "FRAUD" ELSE "CRIME"

------------------------------------------------------------------------------
(***************************************************************************)
(* Tax rates, in basis points.                                             *)
(***************************************************************************)
FLIP_THRESHOLD == 192
LOW_RATES  == <<100, 200, 300, 400>>
HIGH_RATES == <<1100, 1200, 1300, 1400>>

LowRates  == {LOW_RATES[i]  : i \in 1..4}
HighRates == {HIGH_RATES[i] : i \in 1..4}
Rate == LowRates \cup HighRates

LowRate(byte)  == LOW_RATES[(byte % 4) + 1]
HighRate(byte) == HIGH_RATES[(byte % 4) + 1]

\* Byte 0 decides whether the cheap side changes.
NewCheapSide(vrf, cheap) ==
  IF vrf[0] < FLIP_THRESHOLD THEN Opposite(cheap) ELSE cheap

\* Bytes 1 and 2 roll CRIME's rates, bytes 3 and 4 FRAUD's.
LowRoll(vrf, t)  == LowRate(IF t = "CRIME" THEN vrf[1] ELSE vrf[3])
HighRoll(vrf, t) == HighRate(IF t = "CRIME" THEN vrf[2] ELSE vrf[4])

\* The cheap token is cheap to buy and dear to sell, the other the reverse.
TokenRates(vrf, t, cheap_side) ==
  IF t = cheap_side
    THEN [buy |-> LowRoll(vrf, t),  sell |-> HighRoll(vrf, t)]
    ELSE [buy |-> HighRoll(vrf, t), sell |-> LowRoll(vrf, t)]

derive_taxes_WithOldSide(vrf, cheap) ==
  [cheap_side |-> NewCheapSide(vrf, cheap),
   tax_bps    |-> [t \in Token |-> TokenRates(vrf, t, cheap)]]

derive_taxes(vrf, cheap) ==
  LET cheap_side == NewCheapSide(vrf, cheap)
  IN [cheap_side |-> cheap_side,
      tax_bps    |-> [t \in Token |-> TokenRates(vrf, t, cheap_side)]]

\* The extremes of the four rates, kept as a legacy summary.
lowest_rate(tax_bps) ==
  Lesser(Lesser(tax_bps["CRIME"].buy, tax_bps["CRIME"].sell),
         Lesser(tax_bps["FRAUD"].buy, tax_bps["FRAUD"].sell))
highest_rate(tax_bps) ==
  Greater(Greater(tax_bps["CRIME"].buy, tax_bps["CRIME"].sell),
          Greater(tax_bps["FRAUD"].buy, tax_bps["FRAUD"].sell))

------------------------------------------------------------------------------
(***************************************************************************)
(* The Carnage decision.                                                   *)
(***************************************************************************)
CARNAGE_TRIGGER_THRESHOLD == 11
CARNAGE_SELL_THRESHOLD == 5

is_carnage_triggered(vrf) == vrf[5] < CARNAGE_TRIGGER_THRESHOLD

get_carnage_action(vrf, has_holdings) ==
  IF ~has_holdings THEN "None"
  ELSE IF vrf[6] < CARNAGE_SELL_THRESHOLD THEN "Sell" ELSE "Burn"

get_carnage_target(vrf) == IF vrf[7] < 128 THEN "CRIME" ELSE "FRAUD"
==============================================================================
