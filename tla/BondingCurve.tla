------------------------------ MODULE BondingCurve ------------------------------
(***************************************************************************)
(* The bonding-curve program (src/programs/bonding_curve): CRIME and FRAUD *)
(* are each sold along a curve.  If both curves fill before their          *)
(* deadlines the admin graduates them and takes the SOL to the pools; if   *)
(* either fails, the holders of both burn their tokens for shares of what  *)
(* was raised.                                                             *)
(*                                                                         *)
(* One action per instruction: its account constraints and require!s are   *)
(* conjuncts, and a failed transaction is no step.  Left out: the counters *)
(* kept for display (participant_count, tokens_returned, start_slot),      *)
(* events, account validation, u64 overflows.  A sale needs no wallet      *)
(* beyond the tokens; SOL in the users' wallets is without limit.          *)
(*                                                                         *)
(* A definition named X_Something, just before X, is X with a mistake the  *)
(* properties are meant to catch; nothing uses it.                         *)
(***************************************************************************)
EXTENDS CurveMath, Functions

CONSTANTS
  User,                      \* buyers
  TARGET_TOKENS,             \* tokens that fill a curve
  MAX_TOKENS_PER_WALLET,     \* cap on a buyer's token account
  MIN_PURCHASE_SOL,          \* least purchase
  SELL_TAX_BPS, SELL_TAX_DENOMINATOR,  \* the tax on a sale: BPS out of BPS_DENOMINATOR
  SOLVENCY_BUFFER_LAMPORTS,  \* what no sale may take from the SOL vault
  RENT,                      \* rent-exempt minimum of an empty account
  DEADLINE_SLOTS,            \* from the start of a curve to its deadline
  FAILURE_GRACE_SLOTS,       \* from the deadline until it can be failed
  Purchases,                 \* amounts of SOL users buy for
  Sales                      \* amounts of tokens users sell

\* Bounds of the model: the last slot and the number of sales.
CONSTANTS MaxSlot, MaxSales

ASSUME BondingCurveAssumption ==
  /\ TARGET_TOKENS \in Nat \ {0}
  /\ TARGET_TOKENS <= TOTAL_FOR_SALE
  /\ MAX_TOKENS_PER_WALLET \in Nat
  /\ MIN_PURCHASE_SOL \in Nat
  /\ SELL_TAX_BPS \in Nat
  /\ SELL_TAX_DENOMINATOR \in Nat \ {0}
  /\ SELL_TAX_BPS <= SELL_TAX_DENOMINATOR
  /\ SOLVENCY_BUFFER_LAMPORTS \in Nat
  /\ RENT \in Nat
  /\ DEADLINE_SLOTS \in Nat
  /\ FAILURE_GRACE_SLOTS \in Nat
  /\ Purchases \subseteq Nat
  /\ Sales \subseteq Nat
  /\ MaxSlot \in Nat
  /\ MaxSales \in Nat

Token == {"CRIME", "FRAUD"}
Partner(c) == IF c = "CRIME" THEN "FRAUD" ELSE "CRIME"

VARIABLES
  slot,           \* the clock
  bc_admin,       \* BcAdminConfig.authority, "none" before initialize_bc_admin
  curve,          \* CurveState of each token
  sol_vault,      \* lamports of the curve's SOL vault
  tax_escrow,     \* lamports of the curve's tax escrow
  token_vault,    \* tokens in the curve's token vault
  vault_closed,   \* curves whose token vault account is closed
  held,           \* tokens in each user's account
  \* auxiliary: lamports each kind of payment has taken out so far, tokens
  \* burned for refunds, tokens the admin funded, sales made
  withdrawn, distributed, refunded, burned, funded, sales

balances == <<sol_vault, tax_escrow>>
payments == <<withdrawn, distributed, refunded>>
tokens   == <<token_vault, vault_closed, burned, funded>>
curveVars == <<slot, bc_admin, curve, balances, payments, tokens, held, sales>>

Status == {"None", "Initialized", "Active", "Filled", "Failed", "Graduated"}
CurveState == [status              : Status,
               tokens_sold         : Nat,
               sol_raised          : Nat,
               sol_returned        : Nat,
               tax_collected       : Nat,
               deadline_slot       : Nat,
               escrow_consolidated : BOOLEAN]

NoCurve == [status |-> "None", tokens_sold |-> 0, sol_raised |-> 0,
            sol_returned |-> 0, tax_collected |-> 0, deadline_slot |-> 0,
            escrow_consolidated |-> FALSE]

InitCurves ==
  /\ slot = 0
  /\ bc_admin = "none"
  /\ curve = [c \in Token |-> NoCurve]
  /\ sol_vault = [c \in Token |-> 0]
  /\ tax_escrow = [c \in Token |-> 0]
  /\ token_vault = [c \in Token |-> 0]
  /\ vault_closed = {}
  /\ held = [c \in Token |-> [u \in User |-> 0]]
  /\ withdrawn = [c \in Token |-> 0]
  /\ distributed = [c \in Token |-> 0]
  /\ refunded = [c \in Token |-> 0]
  /\ burned = [c \in Token |-> 0]
  /\ funded = [c \in Token |-> 0]
  /\ sales = [c \in Token |-> 0]

Plus(f, c, n) == [f EXCEPT ![c] = @ + n]
Minus(f, c, n) == [f EXCEPT ![c] = @ - n]

Tick ==
  /\ slot < MaxSlot
  /\ slot' = slot + 1
  /\ UNCHANGED <<bc_admin, curve, balances, payments, tokens, held, sales>>
--------------------------------------------------------------------------------
(***************************************************************************)
(* The admin sets the curves up.                                           *)
(***************************************************************************)
initialize_bc_admin ==
  /\ bc_admin = "none"
  /\ bc_admin' = "deployer"
  /\ UNCHANGED <<slot, curve, balances, payments, tokens, held, sales>>

transfer_bc_admin(signer, new_authority) ==
  /\ bc_admin = signer
  /\ bc_admin' = new_authority
  /\ UNCHANGED <<slot, curve, balances, payments, tokens, held, sales>>

burn_bc_admin(signer) ==
  /\ bc_admin = signer
  /\ bc_admin' = "burned"
  /\ UNCHANGED <<slot, curve, balances, payments, tokens, held, sales>>

\* The payer's lamports make the two new SOL accounts rent-exempt.
initialize_curve(signer, c) ==
  /\ bc_admin = signer
  /\ curve[c].status = "None"
  /\ curve' = [curve EXCEPT ![c].status = "Initialized"]
  /\ sol_vault' = [sol_vault EXCEPT ![c] = RENT]
  /\ tax_escrow' = [tax_escrow EXCEPT ![c] = RENT]
  /\ UNCHANGED <<slot, bc_admin, payments, tokens, held, sales>>

fund_curve(signer, c) ==
  /\ bc_admin = signer
  /\ curve[c].status = "Initialized"
  /\ token_vault' = Plus(token_vault, c, TARGET_TOKENS)
  /\ funded' = Plus(funded, c, TARGET_TOKENS)
  /\ UNCHANGED <<slot, bc_admin, curve, balances, payments, vault_closed,
                 burned, held, sales>>

start_curve(signer, c) ==
  /\ bc_admin = signer
  /\ curve[c].status = "Initialized"
  /\ token_vault[c] >= TARGET_TOKENS
  /\ curve' = [curve EXCEPT ![c] =
                [@ EXCEPT !.status = "Active",
                          !.deadline_slot = slot + DEADLINE_SLOTS]]
  /\ UNCHANGED <<slot, bc_admin, balances, payments, tokens, held, sales>>
--------------------------------------------------------------------------------
(***************************************************************************)
(* Users buy and sell along an active curve.                               *)
(***************************************************************************)
\* The tokens a purchase delivers and the SOL it takes.  tokens_out is already
\* capped at what remains, so the recalculation for a partial fill is reached
\* only if TARGET_TOKENS is less than TOTAL_FOR_SALE.
Bought(c, sol) ==
  LET sold == curve[c].tokens_sold
      tokens_out == calculate_tokens_out(sol, sold)
      actual_tokens == Lesser(tokens_out, TARGET_TOKENS - sold)
  IN  [tokens |-> actual_tokens,
       sol |-> IF actual_tokens < tokens_out
               THEN calculate_sol_for_tokens(sold, actual_tokens) ELSE sol]

CanPurchase(c, u, sol, minimum_tokens_out) ==
  /\ curve[c].status = "Active"
  /\ slot <= curve[c].deadline_slot
  /\ sol >= MIN_PURCHASE_SOL
  /\ calculate_tokens_out(sol, curve[c].tokens_sold) > 0
  /\ held[c][u] + calculate_tokens_out(sol, curve[c].tokens_sold)
       <= MAX_TOKENS_PER_WALLET
  /\ Bought(c, sol).sol <= sol
  /\ Bought(c, sol).tokens >= minimum_tokens_out

purchase(c, u, sol, minimum_tokens_out) ==
  /\ CanPurchase(c, u, sol, minimum_tokens_out)
  /\ LET actual == Bought(c, sol)
         sold == curve[c].tokens_sold + actual.tokens
     IN  /\ curve' = [curve EXCEPT ![c] =
              [@ EXCEPT
                 !.tokens_sold = sold,
                 !.sol_raised = curve[c].sol_raised + actual.sol,
                 !.status = IF sold >= TARGET_TOKENS THEN "Filled" ELSE "Active"]]
         /\ sol_vault' = Plus(sol_vault, c, actual.sol)
         /\ token_vault' = Minus(token_vault, c, actual.tokens)
         /\ held' = [held EXCEPT ![c][u] = @ + actual.tokens]
  /\ UNCHANGED <<slot, bc_admin, tax_escrow, payments, vault_closed, burned,
                 funded, sales>>

SellTax(gross) == CeilDiv(gross * SELL_TAX_BPS, SELL_TAX_DENOMINATOR)

\* What the curve gives back for n tokens, before the tax.
SaleValue(c, n) == calculate_sol_for_tokens(curve[c].tokens_sold - n, n)

CanSell_AnyAmount(c, u, n, minimum_sol_out) ==
  /\ curve[c].status = "Active"
  /\ 0 < n /\ n <= curve[c].tokens_sold
  /\ slot <= curve[c].deadline_slot
  /\ SaleValue(c, n)
       <= saturating_sub(sol_vault[c], RENT + SOLVENCY_BUFFER_LAMPORTS)
  /\ SaleValue(c, n) - SellTax(SaleValue(c, n)) >= minimum_sol_out

CanSell(c, u, n, minimum_sol_out) ==
  /\ curve[c].status = "Active"
  /\ 0 < n /\ n <= held[c][u]
  /\ slot <= curve[c].deadline_slot
  /\ n <= curve[c].tokens_sold
  /\ SaleValue(c, n)
       <= saturating_sub(sol_vault[c], RENT + SOLVENCY_BUFFER_LAMPORTS)
  /\ SaleValue(c, n) - SellTax(SaleValue(c, n)) >= minimum_sol_out
  /\ sol_vault[c] - SaleValue(c, n)
       >= saturating_sub(
            calculate_sol_for_tokens(0, curve[c].tokens_sold - n), RENT)

sell(c, u, n, minimum_sol_out) ==
  /\ sales["CRIME"] + sales["FRAUD"] < MaxSales
  /\ CanSell(c, u, n, minimum_sol_out)
  /\ LET gross == SaleValue(c, n)
         tax == SellTax(gross)
     IN  /\ curve' = [curve EXCEPT ![c] =
              [@ EXCEPT !.tokens_sold = curve[c].tokens_sold - n,
                        !.sol_returned = curve[c].sol_returned + gross,
                        !.tax_collected = curve[c].tax_collected + tax]]
         /\ sol_vault' = Minus(sol_vault, c, gross)
         /\ tax_escrow' = Plus(tax_escrow, c, tax)
  /\ token_vault' = Plus(token_vault, c, n)
  /\ held' = [held EXCEPT ![c][u] = @ - n]
  /\ sales' = Plus(sales, c, 1)
  /\ UNCHANGED <<slot, bc_admin, payments, vault_closed, burned, funded>>
--------------------------------------------------------------------------------
(***************************************************************************)
(* A curve that did not fill is failed by anyone, and its holders and its  *)
(* partner's are refunded.                                                 *)
(***************************************************************************)
mark_failed(c) ==
  /\ curve[c].status = "Active"
  /\ slot > curve[c].deadline_slot + FAILURE_GRACE_SLOTS
  /\ curve' = [curve EXCEPT ![c].status = "Failed"]
  /\ UNCHANGED <<slot, bc_admin, balances, payments, tokens, held, sales>>

is_refund_eligible_AnyPartner(c) ==
  \/ curve[c].status = "Failed"
  \/ curve[c].status = "Filled" /\ curve[Partner(c)].status # "Filled"

is_refund_eligible_FailedOnly(c) == curve[c].status = "Failed"

is_refund_eligible(c) ==
  \/ curve[c].status = "Failed"
  \/ curve[c].status = "Filled" /\ curve[Partner(c)].status = "Failed"

Spare(balance) == saturating_sub(balance, RENT)

consolidate_for_refund_EveryTime(c) ==
  /\ is_refund_eligible(c)
  /\ ~curve[c].escrow_consolidated
  /\ curve' = [curve EXCEPT ![c].escrow_consolidated = TRUE]
  /\ sol_vault' = Plus(sol_vault, c, Spare(tax_escrow[c]))
  /\ UNCHANGED <<slot, bc_admin, tax_escrow, payments, tokens, held, sales>>

consolidate_for_refund(c) ==
  /\ is_refund_eligible(c)
  /\ ~curve[c].escrow_consolidated
  /\ curve' = [curve EXCEPT ![c].escrow_consolidated = TRUE]
  /\ sol_vault' = Plus(sol_vault, c, Spare(tax_escrow[c]))
  /\ tax_escrow' = Minus(tax_escrow, c, Spare(tax_escrow[c]))
  /\ UNCHANGED <<slot, bc_admin, payments, tokens, held, sales>>

RefundAmount_FromEmptyVault(c, u) ==
  (held[c][u] * sol_vault[c]) \div curve[c].tokens_sold

RefundAmount(c, u) ==
  (held[c][u] * (sol_vault[c] - RENT)) \div curve[c].tokens_sold

CanClaim(c, u) ==
  /\ is_refund_eligible(c)
  /\ curve[c].escrow_consolidated
  /\ held[c][u] > 0
  /\ curve[c].tokens_sold >= held[c][u]
  /\ sol_vault[c] >= RENT

claim_refund(c, u) ==
  /\ CanClaim(c, u)
  /\ curve' = [curve EXCEPT ![c].tokens_sold = @ - held[c][u]]
  /\ sol_vault' = Minus(sol_vault, c, RefundAmount(c, u))
  /\ held' = [held EXCEPT ![c][u] = 0]
  /\ burned' = Plus(burned, c, held[c][u])
  /\ refunded' = Plus(refunded, c, RefundAmount(c, u))
  /\ UNCHANGED <<slot, bc_admin, tax_escrow, withdrawn, distributed,
                 token_vault, vault_closed, funded, sales>>
--------------------------------------------------------------------------------
(***************************************************************************)
(* Two filled curves graduate together.                                    *)
(***************************************************************************)
prepare_transition(signer) ==
  /\ bc_admin = signer
  /\ \A c \in Token : curve[c].status = "Filled"
  /\ curve' = [c \in Token |-> [curve[c] EXCEPT !.status = "Graduated"]]
  /\ UNCHANGED <<slot, bc_admin, balances, payments, tokens, held, sales>>

\* Succeeds without effect if only the rent is left.
withdraw_graduated_sol(signer, c) ==
  /\ bc_admin = signer
  /\ curve[c].status = "Graduated"
  /\ sol_vault' = Minus(sol_vault, c, Spare(sol_vault[c]))
  /\ withdrawn' = Plus(withdrawn, c, Spare(sol_vault[c]))
  /\ UNCHANGED <<slot, bc_admin, curve, tax_escrow, distributed, refunded,
                 tokens, held, sales>>

distribute_tax_escrow(c) ==
  /\ curve[c].status = "Graduated"
  /\ Spare(tax_escrow[c]) > 0
  /\ tax_escrow' = Minus(tax_escrow, c, Spare(tax_escrow[c]))
  /\ distributed' = Plus(distributed, c, Spare(tax_escrow[c]))
  /\ UNCHANGED <<slot, bc_admin, curve, sol_vault, withdrawn, refunded,
                 tokens, held, sales>>

close_token_vault(signer, c) ==
  /\ bc_admin = signer
  /\ curve[c].status = "Graduated"
  /\ c \notin vault_closed
  /\ token_vault[c] = 0
  /\ vault_closed' = vault_closed \union {c}
  /\ UNCHANGED <<slot, bc_admin, curve, balances, payments, token_vault,
                 burned, funded, held, sales>>
--------------------------------------------------------------------------------
\* What anyone may do, whoever the admin is.
Permissionless ==
  \/ Tick
  \/ \E c \in Token, u \in User, sol \in Purchases : purchase(c, u, sol, 0)
  \/ \E c \in Token, u \in User, n \in Sales : sell(c, u, n, 0)
  \/ \E c \in Token :
       \/ mark_failed(c)
       \/ consolidate_for_refund(c)
       \/ \E u \in User : claim_refund(c, u)
       \/ distribute_tax_escrow(c)

\* What the admin may do, one account after another.
AdminStep(signer) ==
  \/ prepare_transition(signer)
  \/ \E c \in Token :
       \/ initialize_curve(signer, c)
       \/ fund_curve(signer, c)
       \/ start_curve(signer, c)
       \/ withdraw_graduated_sol(signer, c)
       \/ close_token_vault(signer, c)
  \/ transfer_bc_admin(signer, "multisig")
  \/ burn_bc_admin(signer)

\* The program reads its users' token accounts, but is not alone in moving what is
\* in them: the conversion vault pays CRIME and FRAUD for PROFIT.
HoldingsChange ==
  /\ \E c \in Token, u \in User, n \in Nat : held' = [held EXCEPT ![c][u] = n]
  /\ UNCHANGED <<slot, bc_admin, curve, balances, payments, tokens, sales>>

CurveNext ==
  \/ Permissionless
  \/ HoldingsChange
  \/ initialize_bc_admin
  \/ \E signer \in {"deployer", "multisig"} : AdminStep(signer)

CurveSpec == InitCurves /\ [][CurveNext]_curveVars
--------------------------------------------------------------------------------
CurveTypeOK ==
  /\ slot \in Nat
  /\ bc_admin \in {"none", "deployer", "multisig", "burned"}
  /\ curve \in [Token -> CurveState]
  /\ sol_vault \in [Token -> Nat]
  /\ tax_escrow \in [Token -> Nat]
  /\ token_vault \in [Token -> Nat]
  /\ vault_closed \subseteq Token
  /\ held \in [Token -> [User -> Nat]]
  /\ withdrawn \in [Token -> Nat]
  /\ distributed \in [Token -> Nat]
  /\ refunded \in [Token -> Nat]
  /\ burned \in [Token -> Nat]
  /\ funded \in [Token -> Nat]
  /\ sales \in [Token -> Nat]

\* What a launch raises is either handed back or handed on, never both: once a
\* curve has graduated, neither curve has been failed, consolidated for refunds
\* or refunded, whatever the order in which the two filled, passed their
\* deadlines and were marked (mark_failed, prepare_transition,
\* is_refund_eligible).
GraduationExcludesRefund ==
  \A c \in Token :
    curve[c].status = "Graduated" =>
      \A d \in Token : /\ curve[d].status = "Graduated"
                       /\ ~curve[d].escrow_consolidated
                       /\ refunded[d] = 0

\* Each lamport of a curve is accounted for: the SOL vault holds what purchases
\* brought less what sales, refunds and the withdrawal took, the escrow the tax,
\* until consolidation moves it into the vault (purchase, sell,
\* consolidate_for_refund, claim_refund, withdraw_graduated_sol,
\* distribute_tax_escrow).
VaultMatchesTrades ==
  \A c \in Token :
    LET s == curve[c]
        moved == IF s.escrow_consolidated THEN s.tax_collected ELSE 0
    IN  s.status # "None" =>
          /\ sol_vault[c] + withdrawn[c] + refunded[c]
               = RENT + s.sol_raised - s.sol_returned + moved
          /\ tax_escrow[c] + distributed[c] + moved = RENT + s.tax_collected

\* Rounding does not eat the vault: while a curve can be traded, the vault above
\* its rent covers the curve's integral up to one lamport for each sale made
\* (purchase rounds down the tokens, sell rounds up the SOL).
RoundingIsBounded ==
  \A c \in Token :
    curve[c].status \in {"Active", "Filled"} /\ ~curve[c].escrow_consolidated =>
      sol_vault[c] - RENT + sales[c]
        >= calculate_sol_for_tokens(0, curve[c].tokens_sold)

\* No holder's refund depends on when the others claim: the SOL per token left
\* in the pool does not fall when somebody claims (claim_refund).
RefundsShareAlike ==
  [][\A c \in Token, u \in User :
       held'[c][u] = 0 /\ held[c][u] > 0 /\ burned'[c] > burned[c] =>
         (sol_vault'[c] - RENT) * curve[c].tokens_sold
           >= (sol_vault[c] - RENT) * curve'[c].tokens_sold]_curveVars

\* What was paid for the tokens a step sold on a curve is at most their price and
\* that of one more.
PaysForTokens(c) ==
  LET got == curve'[c].tokens_sold - curve[c].tokens_sold
  IN  curve'[c].sol_raised > curve[c].sol_raised =>
        curve'[c].sol_raised - curve[c].sol_raised
          <= calculate_sol_for_tokens(curve[c].tokens_sold, got + 1)

\* No purchase that leaves a curve open overpays.  The one that fills it does: see
\* PurchasesPayForTokens (purchase, calculate_tokens_out).
PurchasesArePriced ==
  [][\A c \in Token : curve'[c].status = "Active" => PaysForTokens(c)]_curveVars

\* Trades follow the curve in both directions: no alternation of purchases and
\* sales takes SOL out of the vault by rounding, and no purchase overpays that
\* leaves the curve open.
TradesFollowCurve == []RoundingIsBounded /\ PurchasesArePriced
--------------------------------------------------------------------------------
(***************************************************************************)
(* What comments and docs say, and the code does not do.                   *)
(***************************************************************************)
\* "If the user wanted more tokens than remaining, they only pay for the actual
\* tokens they receive (proportional SOL)": no purchase overpays, the one that
\* fills a curve included (purchase, step 7).
PurchasesPayForTokens == [][\A c \in Token : PaysForTokens(c)]_curveVars

\* "All token holders in BOTH curves can claim burn-and-claim refunds": as long as
\* a curve refunds, nobody holds more than claim_refund can take off what it has
\* outstanding.
RefundsReachAll ==
  \A c \in Token :
    is_refund_eligible(c) => \A u \in User : held[c][u] <= curve[c].tokens_sold
================================================================================
