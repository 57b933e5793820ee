-------------------------- MODULE BondingCurve_proofs --------------------------
(***************************************************************************)
(* Theorems about the bonding-curve program, for every curve, set of users *)
(* and value of the constants.  The invariant speaks of one curve at a     *)
(* time (Books, Stage) but for two facts that tie the curves together:     *)
(* they graduate together, and refunds need a failed curve, which stays    *)
(* failed.                                                                 *)
(***************************************************************************)
EXTENDS BondingCurve, Arithmetic_proofs

------------------------------------------------------------------------------
(* The price curve: the integer square root exists, a purchase never goes     *)
(* over what remains, and what the operators return is a natural number.      *)

\* A quotient rounded up is a natural number.
LEMMA CeilDivNat ==
  ASSUME NEW n \in Nat, NEW d \in Nat \ {0}
  PROVE  CeilDiv(n, d) \in Nat
<1>1. n + d - 1 \in Nat
  OBVIOUS
<1> QED BY <1>1, DivNat DEF CeilDiv

\* The root of a natural number exists: the least r whose successor's square is
\* greater than n.
LEMMA IsqrtProperty ==
  ASSUME NEW n \in Nat
  PROVE  /\ isqrt(n) \in Nat
         /\ isqrt(n) * isqrt(n) <= n
         /\ n < (isqrt(n) + 1) * (isqrt(n) + 1)
<1> DEFINE Above == {r \in Nat : n < (r + 1) * (r + 1)}
<1>1. n \in Above
  <2>1. n * n \in Nat
    BY ProductNat
  <2>2. (n + 1) * (n + 1) = n * n + 2 * n + 1
    OBVIOUS
  <2> QED BY <2>1, <2>2
<1>2. PICK r \in Above : \A y \in Above : ~ (<<y, r>> \in OpToRel(<, Nat))
  <2>1. Above \subseteq Nat /\ Above # {}
    BY <1>1
  <2> HIDE DEF Above
  <2> QED BY <2>1, NatLessThanWellFounded, WFMin, Zenon
<1>3. \A y \in Above : ~ (y < r)
  BY <1>2 DEF OpToRel
<1>4. r * r <= n
  <2>1. CASE r = 0
    BY <2>1
  <2>2. CASE r # 0
    <3>1. r - 1 \in Nat /\ r - 1 < r
      BY <2>2
    <3>2. r - 1 \notin Above
      BY <1>3, <3>1
    <3>3. ~ (n < (r - 1 + 1) * (r - 1 + 1))
      BY <3>1, <3>2
    <3>4. r - 1 + 1 = r
      OBVIOUS
    <3>5. r * r \in Nat
      BY ProductNat
    <3> QED BY <3>3, <3>4, <3>5
  <2> QED BY <2>1, <2>2
<1>5. r \in 0..n
  <2>1. SUFFICES ASSUME r > n PROVE FALSE
    OBVIOUS
  <2>2. n \in Above /\ n < r
    BY <1>1, <2>1
  <2> QED BY <1>3, <2>2
<1>6. \E s \in 0..n : s * s <= n /\ n < (s + 1) * (s + 1)
  BY <1>2, <1>4, <1>5
<1>7. /\ isqrt(n) \in 0..n
      /\ isqrt(n) * isqrt(n) <= n
      /\ n < (isqrt(n) + 1) * (isqrt(n) + 1)
  BY <1>6, Zenon DEF isqrt
<1> QED BY <1>7

\* At a position on the curve, a purchase delivers no more than remains, and an
\* integer amount; the handler refuses one that is not positive.
LEMMA TokensOutBounded ==
  ASSUME NEW s \in Nat, NEW sold \in Nat
  PROVE  /\ calculate_tokens_out(s, sold) \in Int
         /\ calculate_tokens_out(s, sold) <= TOTAL_FOR_SALE - sold
<1> DEFINE b_num == P_END - P_START
           coef == P_START * TOTAL_FOR_SALE + b_num * sold
           discriminant ==
             coef * coef + 2 * b_num * s * TOKEN_DECIMAL_FACTOR * TOTAL_FOR_SALE
<1>1. b_num \in Nat \ {0}
  BY CurveAssumption
<1>2. coef \in Nat
  <2> HIDE DEF b_num
  <2>1. P_START * TOTAL_FOR_SALE \in Nat /\ b_num * sold \in Nat
    BY <1>1, ProductNat, CurveAssumption
  <2> QED BY <2>1
<1>3. discriminant \in Nat
  <2> HIDE DEF b_num, coef
  <2>1. coef * coef \in Nat /\ 2 * b_num \in Nat
    BY <1>1, <1>2, ProductNat
  <2>2. 2 * b_num * s \in Nat
    BY <2>1, ProductNat
  <2>3. 2 * b_num * s * TOKEN_DECIMAL_FACTOR \in Nat
    BY <2>2, ProductNat, CurveAssumption
  <2>4. 2 * b_num * s * TOKEN_DECIMAL_FACTOR * TOTAL_FOR_SALE \in Nat
    BY <2>3, ProductNat, CurveAssumption
  <2> QED BY <2>1, <2>4
<1>4. isqrt(discriminant) \in Nat
  <2> HIDE DEF discriminant
  <2> QED BY <1>3, IsqrtProperty
<1>5. calculate_tokens_out(s, sold)
        = Lesser((isqrt(discriminant) - coef) \div b_num, TOTAL_FOR_SALE - sold)
  BY DEF calculate_tokens_out
<1> HIDE DEF b_num, coef, discriminant
<1>6. (isqrt(discriminant) - coef) \div b_num \in Int
  BY <1>1, <1>2, <1>4, DivInt
<1> QED BY <1>5, <1>6, CurveAssumption DEF Lesser

\* What tokens cost is a natural number.
LEMMA SolForTokensNat ==
  ASSUME NEW sold \in Nat, NEW n \in Nat
  PROVE  calculate_sol_for_tokens(sold, n) \in Nat
<1> DEFINE b_num == P_END - P_START
           two_total == 2 * TOTAL_FOR_SALE
           product == n * (2 * sold + n)
           term1 == P_START * PRECISION * n
           whole == b_num * (product \div two_total) * PRECISION
           rest == b_num * (product % two_total) * PRECISION
<1>1. b_num \in Nat /\ two_total \in Nat \ {0} /\ PRECISION \in Nat \ {0}
  BY CurveAssumption
<1>2. product \in Nat
  BY ProductNat
<1>3. term1 \in Nat
  <2>1. P_START * PRECISION \in Nat
    BY <1>1, ProductNat, CurveAssumption
  <2> QED BY <2>1, ProductNat
<1> HIDE DEF product, two_total, b_num
<1>4. product \div two_total \in Nat /\ product % two_total \in Nat
  BY <1>1, <1>2, DivNat
<1>5. whole \in Nat /\ rest \in Nat
  <2>1. b_num * (product \div two_total) \in Nat
    BY <1>1, <1>4, ProductNat
  <2>2. b_num * (product % two_total) \in Nat
    BY <1>1, <1>4, ProductNat
  <2> QED BY <2>1, <2>2, <1>1, ProductNat
<1> HIDE DEF term1, whole, rest
<1>6. term1 + (whole + rest \div two_total) \in Nat
  BY <1>1, <1>3, <1>5, DivNat
<1>7. PRECISION * TOKEN_DECIMAL_FACTOR \in Nat \ {0}
  <2>1. PRECISION * TOKEN_DECIMAL_FACTOR # 0
    BY CurveAssumption
  <2> QED BY <2>1, ProductNat, CurveAssumption
<1>8. calculate_sol_for_tokens(sold, n)
        = CeilDiv(term1 + (whole + rest \div two_total), PRECISION * TOKEN_DECIMAL_FACTOR)
  BY DEF calculate_sol_for_tokens, term1, whole, rest, product, two_total, b_num
<1> QED BY <1>6, <1>7, <1>8, CeilDivNat

------------------------------------------------------------------------------
(* The invariant. *)

\* The accounts of a curve agree with what was traded.
Books(c) ==
  LET s == curve[c]
      moved == IF s.escrow_consolidated THEN s.tax_collected ELSE 0
  IN  s.status # "None" =>
        /\ sol_vault[c] + withdrawn[c] + refunded[c]
             = RENT + s.sol_raised - s.sol_returned + moved
        /\ tax_escrow[c] + distributed[c] + moved = RENT + s.tax_collected

\* What each status says of the tokens and of the payments.
Stage(c) ==
  /\ curve[c].status = "None" =>
       /\ curve[c] = NoCurve
       /\ withdrawn[c] = 0 /\ distributed[c] = 0 /\ refunded[c] = 0
  /\ curve[c].status \in {"None", "Initialized"} => curve[c].tokens_sold = 0
  /\ curve[c].status = "Active" =>
       /\ curve[c].tokens_sold <= TARGET_TOKENS
       /\ token_vault[c] + curve[c].tokens_sold >= TARGET_TOKENS
  /\ curve[c].status # "Graduated" => withdrawn[c] = 0 /\ distributed[c] = 0
  /\ curve[c].escrow_consolidated => curve[c].status \in {"Filled", "Failed"}

GraduateTogether ==
  \A c, d \in Token :
    curve[c].status = "Graduated" => curve[d].status = "Graduated"

RefundsNeedFailure ==
  \A c \in Token :
    curve[c].escrow_consolidated \/ refunded[c] > 0 =>
      \E d \in Token : curve[d].status = "Failed"

CurveInv ==
  /\ CurveTypeOK
  /\ \A c \in Token : Books(c) /\ Stage(c)
  /\ GraduateTogether
  /\ RefundsNeedFailure

--------------------------------------------------------------------------------
(***************************************************************************)
(* Balances and records.                                                   *)
(***************************************************************************)
Typed(c) ==
  /\ curve[c] \in CurveState
  /\ sol_vault[c] \in Nat /\ tax_escrow[c] \in Nat /\ token_vault[c] \in Nat
  /\ withdrawn[c] \in Nat /\ distributed[c] \in Nat /\ refunded[c] \in Nat
  /\ burned[c] \in Nat /\ funded[c] \in Nat /\ sales[c] \in Nat

LEMMA CurveTyped ==
  ASSUME CurveInv, NEW c \in Token
  PROVE  Typed(c) /\ CurveTypeOK
  BY DEF CurveInv, CurveTypeOK, Typed

\* A CurveState, field by field, and the updates of it.
Fields(s, status, sold, raised, returned, tax, deadline, consolidated) ==
  /\ s \in CurveState
  /\ s.status = status
  /\ s.tokens_sold = sold
  /\ s.sol_raised = raised
  /\ s.sol_returned = returned
  /\ s.tax_collected = tax
  /\ s.deadline_slot = deadline
  /\ s.escrow_consolidated = consolidated

LEMMA BoughtFields ==
  ASSUME NEW s \in CurveState, NEW sold \in Nat, NEW raised \in Nat,
         NEW status \in Status
  PROVE  Fields([s EXCEPT !.tokens_sold = sold, !.sol_raised = raised,
                          !.status = status],
                status, sold, raised, s.sol_returned, s.tax_collected,
                s.deadline_slot, s.escrow_consolidated)
  BY DEF CurveState, Fields

LEMMA SoldFields ==
  ASSUME NEW s \in CurveState, NEW sold \in Nat, NEW returned \in Nat,
         NEW tax \in Nat
  PROVE  Fields([s EXCEPT !.tokens_sold = sold, !.sol_returned = returned,
                          !.tax_collected = tax],
                s.status, sold, s.sol_raised, returned, tax,
                s.deadline_slot, s.escrow_consolidated)
  BY DEF CurveState, Fields

LEMMA StartedFields ==
  ASSUME NEW s \in CurveState, NEW status \in Status, NEW deadline \in Nat
  PROVE  Fields([s EXCEPT !.status = status, !.deadline_slot = deadline],
                status, s.tokens_sold, s.sol_raised, s.sol_returned,
                s.tax_collected, deadline, s.escrow_consolidated)
  BY DEF CurveState, Fields

LEMMA StatusFields ==
  ASSUME NEW s \in CurveState, NEW status \in Status
  PROVE  Fields([s EXCEPT !.status = status],
                status, s.tokens_sold, s.sol_raised, s.sol_returned,
                s.tax_collected, s.deadline_slot, s.escrow_consolidated)
  BY DEF CurveState, Fields

LEMMA ClaimedFields ==
  ASSUME NEW s \in CurveState, NEW sold \in Nat
  PROVE  Fields([s EXCEPT !.tokens_sold = sold],
                s.status, sold, s.sol_raised, s.sol_returned,
                s.tax_collected, s.deadline_slot, s.escrow_consolidated)
  BY DEF CurveState, Fields

LEMMA ConsolidatedFields ==
  ASSUME NEW s \in CurveState
  PROVE  Fields([s EXCEPT !.escrow_consolidated = TRUE],
                s.status, s.tokens_sold, s.sol_raised, s.sol_returned,
                s.tax_collected, s.deadline_slot, TRUE)
  BY DEF CurveState, Fields

LEMMA SetCurve ==
  ASSUME CurveTypeOK, NEW c \in Token, NEW s \in CurveState,
         curve' = [curve EXCEPT ![c] = s]
  PROVE  /\ curve' \in [Token -> CurveState]
         /\ curve'[c] = s
         /\ \A d \in Token \ {c} : curve'[d] = curve[d]
  BY DEF CurveTypeOK

LEMMA MinusNat ==
  ASSUME NEW f \in [Token -> Nat], NEW c \in Token, NEW n \in Nat, n <= f[c]
  PROVE  /\ Minus(f, c, n) \in [Token -> Nat]
         /\ Minus(f, c, n)[c] = f[c] - n
         /\ \A d \in Token \ {c} : Minus(f, c, n)[d] = f[d]
  BY DEF Minus

\* What is spare above the rent can be taken.
LEMMA SpareNat ==
  ASSUME NEW balance \in Nat
  PROVE  Spare(balance) \in Nat /\ Spare(balance) <= balance
  BY BondingCurveAssumption DEF Spare, saturating_sub

--------------------------------------------------------------------------------
(***************************************************************************)
(* What a step leaves alone.                                               *)
(***************************************************************************)
SameCurve(c) ==
  /\ curve'[c] = curve[c]
  /\ sol_vault'[c] = sol_vault[c]
  /\ tax_escrow'[c] = tax_escrow[c]
  /\ token_vault'[c] = token_vault[c]
  /\ withdrawn'[c] = withdrawn[c]
  /\ distributed'[c] = distributed[c]
  /\ refunded'[c] = refunded[c]

OnlyCurve(c) == \A d \in Token \ {c} : SameCurve(d)

\* A failed curve stays failed, and no other status becomes Graduated here.
StatusKept(c) ==
  /\ curve[c].status = "Failed" => curve'[c].status = "Failed"
  /\ curve'[c].status = "Graduated" <=> curve[c].status = "Graduated"

\* A step on one curve that keeps the books of that curve keeps the invariant.
LEMMA OneCurve ==
  ASSUME CurveInv, CurveTypeOK', NEW c \in Token,
         OnlyCurve(c), StatusKept(c), Books(c)', Stage(c)',
         curve'[c].escrow_consolidated \/ refunded'[c] > 0 =>
           \/ curve[c].escrow_consolidated \/ refunded[c] > 0
           \/ is_refund_eligible(c)
  PROVE  CurveInv'
<1>1. \A d \in Token : Books(d)' /\ Stage(d)'
  BY DEF OnlyCurve, SameCurve, Books, Stage, CurveInv
<1>2. \A d \in Token : curve'[d].status = "Graduated" <=> curve[d].status = "Graduated"
  BY DEF OnlyCurve, SameCurve, StatusKept
<1>3. \A d \in Token : curve[d].status = "Failed" => curve'[d].status = "Failed"
  BY DEF OnlyCurve, SameCurve, StatusKept
<1>4. GraduateTogether'
  BY <1>2 DEF GraduateTogether, CurveInv
<1>5. RefundsNeedFailure'
  <2> SUFFICES ASSUME NEW d \in Token,
                      curve'[d].escrow_consolidated \/ refunded'[d] > 0
               PROVE  \E e \in Token : curve'[e].status = "Failed"
    BY DEF RefundsNeedFailure
  <2>1. CASE curve[d].escrow_consolidated \/ refunded[d] > 0
    BY <2>1, <1>3 DEF CurveInv, RefundsNeedFailure
  <2>2. CASE d = c /\ is_refund_eligible(c)
    <3>1. \E e \in Token : curve[e].status = "Failed"
      BY <2>2 DEF is_refund_eligible, Partner, Token
    <3> QED BY <3>1, <1>3
  <2> QED BY <2>1, <2>2 DEF OnlyCurve, SameCurve
<1> QED BY <1>1, <1>4, <1>5 DEF CurveInv

--------------------------------------------------------------------------------
(***************************************************************************)
(* Each instruction keeps the invariant.                                   *)
(***************************************************************************)
\* A purchase moves a natural number of tokens, at most what is left to sell.
LEMMA BoughtBounded ==
  ASSUME CurveInv, NEW c \in Token, NEW u \in User, NEW sol \in Purchases,
         CanPurchase(c, u, sol, 0)
  PROVE  /\ Bought(c, sol).tokens \in Nat /\ Bought(c, sol).sol \in Nat
         /\ curve[c].tokens_sold + Bought(c, sol).tokens <= TARGET_TOKENS
         /\ Bought(c, sol).tokens <= token_vault[c]
<1> DEFINE sold == curve[c].tokens_sold
           out == calculate_tokens_out(sol, sold)
           actual == Lesser(out, TARGET_TOKENS - sold)
<1>1. sold \in Nat /\ sol \in Nat /\ token_vault[c] \in Nat /\ TARGET_TOKENS \in Nat
  BY BondingCurveAssumption DEF CurveInv, CurveTypeOK, CurveState
<1>2. sold <= TARGET_TOKENS /\ token_vault[c] + sold >= TARGET_TOKENS
  BY DEF CanPurchase, CurveInv, Stage
<1>3. out \in Int /\ out > 0
  <2>1. out > 0
    BY DEF CanPurchase
  <2> HIDE DEF sold
  <2> QED BY <1>1, <2>1, TokensOutBounded
<1>4. /\ Bought(c, sol).tokens = actual
      /\ Bought(c, sol).sol = IF actual < out
                              THEN calculate_sol_for_tokens(sold, actual) ELSE sol
  BY DEF Bought
<1> HIDE DEF sold, out
<1>5. actual \in Nat /\ actual <= TARGET_TOKENS - sold
  BY <1>1, <1>2, <1>3 DEF Lesser
<1> HIDE DEF actual
<1>6. calculate_sol_for_tokens(sold, actual) \in Nat
  BY <1>1, <1>5, SolForTokensNat
<1>7. Bought(c, sol).tokens \in Nat /\ Bought(c, sol).sol \in Nat
  BY <1>1, <1>4, <1>5, <1>6
<1>8. /\ sold + Bought(c, sol).tokens <= TARGET_TOKENS
      /\ Bought(c, sol).tokens <= token_vault[c]
  BY <1>1, <1>2, <1>4, <1>5, <1>7
<1> QED BY <1>7, <1>8 DEF sold

LEMMA PurchaseKeepsInv ==
  ASSUME CurveInv, NEW c \in Token, NEW u \in User, NEW sol \in Purchases,
         purchase(c, u, sol, 0)
  PROVE  CurveInv'
<1> DEFINE t == Bought(c, sol).tokens
           paid == Bought(c, sol).sol
           sold == curve[c].tokens_sold + t
           raised == curve[c].sol_raised + paid
           status == IF sold >= TARGET_TOKENS THEN "Filled" ELSE "Active"
           next == [curve[c] EXCEPT !.tokens_sold = sold, !.sol_raised = raised,
                                    !.status = status]
<1>1. t \in Nat /\ paid \in Nat /\ sold <= TARGET_TOKENS /\ t <= token_vault[c]
  BY BoughtBounded DEF purchase
<1>2. /\ curve' = [curve EXCEPT ![c] = next]
      /\ sol_vault' = Plus(sol_vault, c, paid)
      /\ token_vault' = Minus(token_vault, c, t)
      /\ held' = [held EXCEPT ![c][u] = @ + t]
  BY Zenon DEF purchase
<1>3. /\ UNCHANGED <<slot, bc_admin, tax_escrow, vault_closed, burned, funded, sales>>
      /\ UNCHANGED <<withdrawn, distributed, refunded>>
      /\ curve[c].status = "Active"
  BY DEF purchase, CanPurchase, payments
<1>4. Typed(c) /\ CurveTypeOK
  BY CurveTyped
<1> HIDE DEF t, paid
<1>5. sold \in Nat /\ raised \in Nat /\ status \in {"Active", "Filled"}
  BY <1>1, <1>3, <1>4 DEF Typed, CurveState
<1> HIDE DEF sold, raised, status
<1>6. Fields(next, status, sold, raised, curve[c].sol_returned,
             curve[c].tax_collected, curve[c].deadline_slot,
             curve[c].escrow_consolidated)
  BY <1>4, <1>5, BoughtFields DEF Typed, Status
<1> HIDE DEF next
<1>7. /\ curve' \in [Token -> CurveState] /\ curve'[c] = next
      /\ \A d \in Token \ {c} : curve'[d] = curve[d]
  BY <1>2, <1>4, <1>6, SetCurve DEF Fields
<1>8. /\ sol_vault' \in [Token -> Nat] /\ sol_vault'[c] = sol_vault[c] + paid
      /\ \A d \in Token \ {c} : sol_vault'[d] = sol_vault[d]
  BY <1>1, <1>2, <1>4 DEF CurveTypeOK, Plus
<1>9. /\ token_vault' \in [Token -> Nat] /\ token_vault'[c] = token_vault[c] - t
      /\ \A d \in Token \ {c} : token_vault'[d] = token_vault[d]
  BY <1>1, <1>2, <1>4 DEF CurveTypeOK, Minus
<1>10. held' \in [Token -> [User -> Nat]]
  BY <1>1, <1>2, <1>4 DEF CurveTypeOK
<1>11. CurveTypeOK'
  BY <1>3, <1>4, <1>7, <1>8, <1>9, <1>10 DEF CurveTypeOK
<1>12. Books(c)'
  <2>1. Books(c) /\ RENT \in Nat
    BY BondingCurveAssumption DEF CurveInv
  <2> QED BY <1>1, <1>3, <1>4, <1>6, <1>7, <1>8, <2>1
             DEF Books, Fields, Typed, CurveState, raised
<1>13. Stage(c)'
  BY <1>1, <1>3, <1>4, <1>5, <1>6, <1>7, <1>9, BondingCurveAssumption
     DEF CurveInv, Stage, Fields, Typed, CurveState, sold
<1>14. OnlyCurve(c)
  BY <1>3, <1>7, <1>8, <1>9 DEF OnlyCurve, SameCurve
<1>15. /\ StatusKept(c)
       /\ curve'[c].escrow_consolidated = curve[c].escrow_consolidated
       /\ refunded'[c] = refunded[c]
  BY <1>3, <1>5, <1>6, <1>7 DEF StatusKept, Fields
<1> QED BY <1>11, <1>12, <1>13, <1>14, <1>15, OneCurve

\* What a sale is worth and taxed is a natural number, and in the vault.
LEMMA SaleBounded ==
  ASSUME CurveInv, NEW c \in Token, NEW u \in User, NEW n \in Sales,
         CanSell(c, u, n, 0)
  PROVE  /\ SaleValue(c, n) \in Nat /\ SellTax(SaleValue(c, n)) \in Nat
         /\ SaleValue(c, n) <= sol_vault[c]
<1>1. n \in Nat /\ curve[c].tokens_sold - n \in Nat /\ sol_vault[c] \in Nat
  BY BondingCurveAssumption DEF CurveInv, CurveTypeOK, CurveState, CanSell
<1>2. SaleValue(c, n) \in Nat
  BY <1>1, SolForTokensNat DEF SaleValue
<1>3. SaleValue(c, n) <= sol_vault[c]
  <2>1. SaleValue(c, n)
          <= saturating_sub(sol_vault[c], RENT + SOLVENCY_BUFFER_LAMPORTS)
    BY DEF CanSell
  <2>2. RENT \in Nat /\ SOLVENCY_BUFFER_LAMPORTS \in Nat
    BY BondingCurveAssumption
  <2> QED BY <1>1, <1>2, <2>1, <2>2 DEF saturating_sub
<1>4. SellTax(SaleValue(c, n)) \in Nat
  <2>1. SaleValue(c, n) * SELL_TAX_BPS \in Nat
    BY <1>2, ProductNat, BondingCurveAssumption
  <2> QED BY <2>1, CeilDivNat, BondingCurveAssumption DEF SellTax
<1> QED BY <1>2, <1>3, <1>4

LEMMA SellKeepsInv ==
  ASSUME CurveInv, NEW c \in Token, NEW u \in User, NEW n \in Sales,
         sell(c, u, n, 0)
  PROVE  CurveInv'
<1> DEFINE gross == SaleValue(c, n)
           tax == SellTax(gross)
           sold == curve[c].tokens_sold - n
           returned == curve[c].sol_returned + gross
           taxed == curve[c].tax_collected + tax
           next == [curve[c] EXCEPT !.tokens_sold = sold, !.sol_returned = returned,
                                    !.tax_collected = taxed]
<1>1. gross \in Nat /\ tax \in Nat /\ gross <= sol_vault[c]
  BY SaleBounded DEF sell
<1>2. /\ curve' = [curve EXCEPT ![c] = next]
      /\ sol_vault' = Minus(sol_vault, c, gross)
      /\ tax_escrow' = Plus(tax_escrow, c, tax)
      /\ token_vault' = Plus(token_vault, c, n)
      /\ held' = [held EXCEPT ![c][u] = @ - n]
      /\ sales' = Plus(sales, c, 1)
  BY Zenon DEF sell
<1>3. /\ UNCHANGED <<slot, bc_admin, vault_closed, burned, funded>>
      /\ UNCHANGED <<withdrawn, distributed, refunded>>
      /\ curve[c].status = "Active"
      /\ n <= held[c][u] /\ n <= curve[c].tokens_sold
  BY DEF sell, CanSell, payments
<1>4. Typed(c) /\ CurveTypeOK /\ n \in Nat
  BY CurveTyped, BondingCurveAssumption
<1> HIDE DEF gross, tax
<1>5. sold \in Nat /\ returned \in Nat /\ taxed \in Nat
  BY <1>1, <1>3, <1>4 DEF Typed, CurveState
<1> HIDE DEF sold, returned, taxed
<1>6. Fields(next, "Active", sold, curve[c].sol_raised, returned, taxed,
             curve[c].deadline_slot, curve[c].escrow_consolidated)
  BY <1>3, <1>4, <1>5, SoldFields DEF Typed
<1> HIDE DEF next
<1>7. /\ curve' \in [Token -> CurveState] /\ curve'[c] = next
      /\ \A d \in Token \ {c} : curve'[d] = curve[d]
  BY <1>2, <1>4, <1>6, SetCurve DEF Fields
<1>8. /\ sol_vault' \in [Token -> Nat] /\ sol_vault'[c] = sol_vault[c] - gross
      /\ \A d \in Token \ {c} : sol_vault'[d] = sol_vault[d]
  BY <1>1, <1>2, <1>4 DEF CurveTypeOK, Minus
<1>9. /\ tax_escrow' \in [Token -> Nat] /\ tax_escrow'[c] = tax_escrow[c] + tax
      /\ \A d \in Token \ {c} : tax_escrow'[d] = tax_escrow[d]
  BY <1>1, <1>2, <1>4 DEF CurveTypeOK, Plus
<1>10. /\ token_vault' \in [Token -> Nat] /\ token_vault'[c] = token_vault[c] + n
       /\ \A d \in Token \ {c} : token_vault'[d] = token_vault[d]
  BY <1>2, <1>4 DEF CurveTypeOK, Plus
<1>11. held' \in [Token -> [User -> Nat]] /\ sales' \in [Token -> Nat]
  <2>1. held[c][u] - n \in Nat
    BY <1>3, <1>4 DEF CurveTypeOK
  <2> QED BY <1>2, <1>4, <2>1 DEF CurveTypeOK, Plus
<1>12. CurveTypeOK'
  BY <1>3, <1>4, <1>7, <1>8, <1>9, <1>10, <1>11 DEF CurveTypeOK
<1>13. Books(c)'
  <2>1. Books(c) /\ RENT \in Nat
    BY BondingCurveAssumption DEF CurveInv
  <2>2. ~curve[c].escrow_consolidated
    BY <1>3 DEF CurveInv, Stage
  <2>3. /\ sol_vault[c] + withdrawn[c] + refunded[c]
             = RENT + curve[c].sol_raised - curve[c].sol_returned
        /\ tax_escrow[c] + distributed[c] = RENT + curve[c].tax_collected
    BY <1>3, <1>4, <2>1, <2>2 DEF Books, Typed, CurveState
  <2>4. /\ sol_vault'[c] + withdrawn'[c] + refunded'[c]
             = RENT + curve[c].sol_raised - returned
        /\ tax_escrow'[c] + distributed'[c] = RENT + taxed
    BY <1>1, <1>3, <1>4, <1>8, <1>9, <2>1, <2>3
       DEF Typed, CurveState, returned, taxed
  <2> QED BY <1>1, <1>3, <1>4, <1>5, <1>6, <1>7, <1>8, <1>9, <2>1, <2>2, <2>4
             DEF Books, Fields, Typed
<1>14. Stage(c)'
  BY <1>3, <1>4, <1>5, <1>6, <1>7, <1>10, BondingCurveAssumption
     DEF CurveInv, Stage, Fields, Typed, CurveState, sold
<1>15. OnlyCurve(c)
  BY <1>3, <1>7, <1>8, <1>9, <1>10 DEF OnlyCurve, SameCurve
<1>16. /\ StatusKept(c)
       /\ curve'[c].escrow_consolidated = curve[c].escrow_consolidated
       /\ refunded'[c] = refunded[c]
  BY <1>3, <1>6, <1>7 DEF StatusKept, Fields
<1> QED BY <1>12, <1>13, <1>14, <1>15, <1>16, OneCurve

\* An instruction that only sets the status of a curve.
LEMMA SetStatus ==
  ASSUME CurveTypeOK, NEW c \in Token, NEW status \in Status,
         curve' = [curve EXCEPT ![c].status = status]
  PROVE  /\ curve' \in [Token -> CurveState]
         /\ Fields(curve'[c], status, curve[c].tokens_sold, curve[c].sol_raised,
                   curve[c].sol_returned, curve[c].tax_collected,
                   curve[c].deadline_slot, curve[c].escrow_consolidated)
         /\ \A d \in Token \ {c} : curve'[d] = curve[d]
<1>1. curve[c] \in CurveState
  BY DEF CurveTypeOK
<1>2. curve' = [curve EXCEPT ![c] = [curve[c] EXCEPT !.status = status]]
  BY DEF CurveTypeOK
<1> DEFINE next == [curve[c] EXCEPT !.status = status]
<1>3. Fields(next, status, curve[c].tokens_sold, curve[c].sol_raised,
             curve[c].sol_returned, curve[c].tax_collected,
             curve[c].deadline_slot, curve[c].escrow_consolidated)
  BY <1>1, StatusFields
<1> HIDE DEF next
<1> QED BY <1>2, <1>3, SetCurve DEF Fields, next

LEMMA InitializeKeepsInv ==
  ASSUME CurveInv, NEW c \in Token, NEW signer, initialize_curve(signer, c)
  PROVE  CurveInv'
<1>1. /\ curve' = [curve EXCEPT ![c].status = "Initialized"]
      /\ sol_vault' = [sol_vault EXCEPT ![c] = RENT]
      /\ tax_escrow' = [tax_escrow EXCEPT ![c] = RENT]
      /\ UNCHANGED <<slot, bc_admin, tokens, held, sales>>
      /\ UNCHANGED <<withdrawn, distributed, refunded>>
      /\ curve[c].status = "None"
  BY DEF initialize_curve, payments
<1>2. CurveTypeOK /\ RENT \in Nat /\ curve[c] = NoCurve
  BY <1>1, BondingCurveAssumption DEF CurveInv, Stage
<1>3. /\ curve' \in [Token -> CurveState]
      /\ Fields(curve'[c], "Initialized", 0, 0, 0, 0, 0, FALSE)
      /\ \A d \in Token \ {c} : curve'[d] = curve[d]
  <2>1. /\ curve[c].tokens_sold = 0 /\ curve[c].sol_raised = 0
        /\ curve[c].sol_returned = 0 /\ curve[c].tax_collected = 0
        /\ curve[c].deadline_slot = 0 /\ curve[c].escrow_consolidated = FALSE
    BY <1>2 DEF NoCurve
  <2>2. "Initialized" \in Status
    BY DEF Status
  <2> QED BY <1>1, <1>2, <2>1, <2>2, SetStatus
<1>4. /\ sol_vault' \in [Token -> Nat] /\ tax_escrow' \in [Token -> Nat]
      /\ sol_vault'[c] = RENT /\ tax_escrow'[c] = RENT
      /\ \A d \in Token \ {c} : /\ sol_vault'[d] = sol_vault[d]
                                /\ tax_escrow'[d] = tax_escrow[d]
  BY <1>1, <1>2 DEF CurveTypeOK
<1>5. CurveTypeOK'
  BY <1>1, <1>2, <1>3, <1>4 DEF CurveTypeOK, tokens
<1>6. withdrawn[c] = 0 /\ distributed[c] = 0 /\ refunded[c] = 0
  BY <1>1 DEF CurveInv, Stage
<1>7. Books(c)' /\ Stage(c)'
  BY <1>1, <1>2, <1>3, <1>4, <1>6 DEF Books, Stage, Fields
<1>8. OnlyCurve(c)
  BY <1>1, <1>3, <1>4 DEF OnlyCurve, SameCurve, tokens
<1>9. StatusKept(c) /\ ~curve'[c].escrow_consolidated /\ ~(refunded'[c] > 0)
  BY <1>1, <1>3, <1>6 DEF StatusKept, Fields
<1> QED BY <1>5, <1>7, <1>8, <1>9, OneCurve

LEMMA FundKeepsInv ==
  ASSUME CurveInv, NEW c \in Token, NEW signer, fund_curve(signer, c)
  PROVE  CurveInv'
<1>1. /\ token_vault' = Plus(token_vault, c, TARGET_TOKENS)
      /\ funded' = Plus(funded, c, TARGET_TOKENS)
      /\ UNCHANGED <<slot, bc_admin, curve, sol_vault, tax_escrow, vault_closed,
                     burned, held, sales>>
      /\ UNCHANGED <<withdrawn, distributed, refunded>>
      /\ curve[c].status = "Initialized"
  BY DEF fund_curve, payments, balances
<1>2. CurveTypeOK /\ TARGET_TOKENS \in Nat
  BY BondingCurveAssumption DEF CurveInv
<1>3. /\ token_vault' \in [Token -> Nat] /\ funded' \in [Token -> Nat]
      /\ \A d \in Token \ {c} : token_vault'[d] = token_vault[d]
  BY <1>1, <1>2 DEF CurveTypeOK, Plus
<1>4. CurveTypeOK'
  BY <1>1, <1>2, <1>3 DEF CurveTypeOK
<1>5. Books(c)' /\ Stage(c)'
  BY <1>1 DEF CurveInv, Books, Stage
<1>6. OnlyCurve(c) /\ StatusKept(c)
  BY <1>1, <1>3 DEF OnlyCurve, SameCurve, StatusKept
<1> QED BY <1>1, <1>4, <1>5, <1>6, OneCurve

LEMMA StartKeepsInv ==
  ASSUME CurveInv, NEW c \in Token, NEW signer, start_curve(signer, c)
  PROVE  CurveInv'
<1> DEFINE deadline == slot + DEADLINE_SLOTS
           next == [curve[c] EXCEPT !.status = "Active", !.deadline_slot = deadline]
<1>1. /\ curve' = [curve EXCEPT ![c] = next]
      /\ UNCHANGED <<slot, bc_admin, balances, payments, tokens, held, sales>>
      /\ curve[c].status = "Initialized"
      /\ token_vault[c] >= TARGET_TOKENS
  BY DEF start_curve
<1>2. Typed(c) /\ CurveTypeOK /\ deadline \in Nat
  BY CurveTyped, BondingCurveAssumption DEF CurveTypeOK
<1> HIDE DEF deadline
<1>3. Fields(next, "Active", curve[c].tokens_sold, curve[c].sol_raised,
             curve[c].sol_returned, curve[c].tax_collected, deadline,
             curve[c].escrow_consolidated)
  BY <1>2, StartedFields DEF Typed, Status
<1> HIDE DEF next
<1>4. /\ curve' \in [Token -> CurveState] /\ curve'[c] = next
      /\ \A d \in Token \ {c} : curve'[d] = curve[d]
  BY <1>1, <1>2, <1>3, SetCurve DEF Fields
<1>5. CurveTypeOK'
  BY <1>1, <1>2, <1>4 DEF CurveTypeOK, balances, payments, tokens
<1>6. Books(c)' /\ Stage(c)'
  BY <1>1, <1>2, <1>3, <1>4, BondingCurveAssumption
     DEF CurveInv, Books, Stage, Fields, balances, payments, tokens, Typed
<1>7. OnlyCurve(c)
  BY <1>1, <1>4 DEF OnlyCurve, SameCurve, balances, payments, tokens
<1>8. /\ StatusKept(c)
      /\ curve'[c].escrow_consolidated = curve[c].escrow_consolidated
      /\ refunded'[c] = refunded[c]
  BY <1>1, <1>3, <1>4 DEF StatusKept, Fields, payments
<1> QED BY <1>5, <1>6, <1>7, <1>8, OneCurve

LEMMA MarkFailedKeepsInv ==
  ASSUME CurveInv, NEW c \in Token, mark_failed(c)
  PROVE  CurveInv'
<1>1. /\ curve' = [curve EXCEPT ![c].status = "Failed"]
      /\ UNCHANGED <<slot, bc_admin, balances, payments, tokens, held, sales>>
      /\ curve[c].status = "Active"
  BY DEF mark_failed
<1>2. CurveTypeOK
  BY DEF CurveInv
<1>3. /\ curve' \in [Token -> CurveState]
      /\ Fields(curve'[c], "Failed", curve[c].tokens_sold, curve[c].sol_raised,
                curve[c].sol_returned, curve[c].tax_collected,
                curve[c].deadline_slot, curve[c].escrow_consolidated)
      /\ \A d \in Token \ {c} : curve'[d] = curve[d]
  BY <1>1, <1>2, SetStatus DEF Status
<1>4. CurveTypeOK'
  BY <1>1, <1>2, <1>3 DEF CurveTypeOK, balances, payments, tokens
<1>5. Books(c)' /\ Stage(c)'
  BY <1>1, <1>3 DEF CurveInv, Books, Stage, Fields, balances, payments, tokens
<1>6. OnlyCurve(c)
  BY <1>1, <1>3 DEF OnlyCurve, SameCurve, balances, payments, tokens
<1>7. /\ StatusKept(c)
      /\ curve'[c].escrow_consolidated = curve[c].escrow_consolidated
      /\ refunded'[c] = refunded[c]
  BY <1>1, <1>3 DEF StatusKept, Fields, payments
<1> QED BY <1>4, <1>5, <1>6, <1>7, OneCurve

LEMMA ConsolidateKeepsInv ==
  ASSUME CurveInv, NEW c \in Token, consolidate_for_refund(c)
  PROVE  CurveInv'
<1> DEFINE spare == Spare(tax_escrow[c])
           next == [curve[c] EXCEPT !.escrow_consolidated = TRUE]
<1>1. /\ sol_vault' = Plus(sol_vault, c, spare)
      /\ tax_escrow' = Minus(tax_escrow, c, spare)
      /\ UNCHANGED <<slot, bc_admin, tokens, held, sales>>
      /\ UNCHANGED <<withdrawn, distributed, refunded>>
      /\ is_refund_eligible(c) /\ ~curve[c].escrow_consolidated
  BY DEF consolidate_for_refund, payments
<1>2. Typed(c) /\ CurveTypeOK /\ RENT \in Nat
  BY CurveTyped, BondingCurveAssumption
<1>3. curve' = [curve EXCEPT ![c] = next]
  BY <1>2 DEF consolidate_for_refund, CurveTypeOK
<1>4. spare \in Nat /\ spare <= tax_escrow[c]
  BY <1>2, SpareNat DEF Typed
<1>5. curve[c].status \in {"Filled", "Failed"}
  BY <1>1 DEF is_refund_eligible
\* All that the escrow holds above its rent is the tax.
<1>6. spare = curve[c].tax_collected
  <2>1. tax_escrow[c] = RENT + curve[c].tax_collected
    BY <1>1, <1>2, <1>5 DEF CurveInv, Books, Stage, Typed, CurveState
  <2> QED BY <1>2, <2>1 DEF Spare, saturating_sub, Typed, CurveState
<1> HIDE DEF spare
<1>7. Fields(next, curve[c].status, curve[c].tokens_sold, curve[c].sol_raised,
             curve[c].sol_returned, curve[c].tax_collected,
             curve[c].deadline_slot, TRUE)
  BY <1>2, ConsolidatedFields DEF Typed
<1> HIDE DEF next
<1>8. /\ curve' \in [Token -> CurveState] /\ curve'[c] = next
      /\ \A d \in Token \ {c} : curve'[d] = curve[d]
  BY <1>2, <1>3, <1>7, SetCurve DEF Fields
<1>9. /\ sol_vault' \in [Token -> Nat] /\ sol_vault'[c] = sol_vault[c] + spare
      /\ \A d \in Token \ {c} : sol_vault'[d] = sol_vault[d]
  BY <1>1, <1>2, <1>4 DEF CurveTypeOK, Plus
<1>10. /\ tax_escrow' \in [Token -> Nat] /\ tax_escrow'[c] = tax_escrow[c] - spare
       /\ \A d \in Token \ {c} : tax_escrow'[d] = tax_escrow[d]
  BY <1>1, <1>2, <1>4 DEF CurveTypeOK, Minus
<1>11. CurveTypeOK'
  BY <1>1, <1>2, <1>8, <1>9, <1>10 DEF CurveTypeOK, tokens
<1>12. Books(c)'
  BY <1>1, <1>2, <1>4, <1>5, <1>6, <1>7, <1>8, <1>9, <1>10
     DEF CurveInv, Books, Fields, Typed, CurveState
<1>13. Stage(c)'
  BY <1>1, <1>5, <1>7, <1>8 DEF CurveInv, Stage, Fields
<1>14. OnlyCurve(c)
  BY <1>1, <1>8, <1>9, <1>10 DEF OnlyCurve, SameCurve, tokens
<1>15. StatusKept(c)
  BY <1>7, <1>8 DEF StatusKept, Fields
<1> QED BY <1>1, <1>11, <1>12, <1>13, <1>14, <1>15, OneCurve

\* A share of the vault is a natural number, at most the vault above its rent.
LEMMA ShareBounded ==
  ASSUME NEW mine \in Nat, NEW all \in Nat, NEW funds \in Nat,
         0 < mine, mine <= all
  PROVE  /\ (mine * funds) \div all \in Nat
         /\ (mine * funds) \div all <= funds
         /\ ((mine * funds) \div all) * all <= mine * funds
<1> DEFINE q == (mine * funds) \div all
<1>1. mine * funds \in Nat /\ all \in Nat \ {0}
  BY ProductNat
<1>2. q \in Nat /\ all * q <= mine * funds
  BY <1>1, DivNat, DivBounds
<1> HIDE DEF q
<1>3. q <= funds
  <2>1. SUFFICES ASSUME q >= funds + 1 PROVE FALSE
    BY <1>2
  <2>2. PICK r \in Nat : q = funds + 1 + r
    <3>1. q - funds - 1 \in Nat /\ q = funds + 1 + (q - funds - 1)
      BY <1>2, <2>1
    <3> QED BY <3>1
  <2>3. all * q = all * funds + all + all * r
    BY <2>2
  <2>4. PICK m \in Nat : all = mine + m
    <3>1. all - mine \in Nat /\ all = mine + (all - mine)
      OBVIOUS
    <3> QED BY <3>1
  <2>5. all * funds = mine * funds + m * funds
    BY <2>4
  <2>6. all * r \in Nat /\ m * funds \in Nat /\ mine * funds \in Nat
    BY ProductNat
  <2>7. all * q >= mine * funds + all
    BY <2>3, <2>5, <2>6
  <2> QED BY <1>1, <1>2, <2>6, <2>7
<1>4. q * all = all * q
  BY <1>2
<1> QED BY <1>2, <1>3, <1>4 DEF q

LEMMA RefundBounded ==
  ASSUME CurveInv, NEW c \in Token, NEW u \in User, CanClaim(c, u)
  PROVE  /\ RefundAmount(c, u) \in Nat
         /\ RefundAmount(c, u) <= sol_vault[c] - RENT
         /\ RefundAmount(c, u) * curve[c].tokens_sold
              <= held[c][u] * (sol_vault[c] - RENT)
<1>1. /\ held[c][u] \in Nat /\ curve[c].tokens_sold \in Nat
      /\ sol_vault[c] \in Nat /\ RENT \in Nat
  BY BondingCurveAssumption DEF CurveInv, CurveTypeOK, CurveState
<1>2. /\ 0 < held[c][u] /\ held[c][u] <= curve[c].tokens_sold
      /\ sol_vault[c] - RENT \in Nat
  BY <1>1 DEF CanClaim
<1> QED BY <1>1, <1>2, ShareBounded DEF RefundAmount

LEMMA ClaimKeepsInv ==
  ASSUME CurveInv, NEW c \in Token, NEW u \in User, claim_refund(c, u)
  PROVE  CurveInv'
<1> DEFINE refund == RefundAmount(c, u)
           sold == curve[c].tokens_sold - held[c][u]
           next == [curve[c] EXCEPT !.tokens_sold = sold]
<1>1. /\ sol_vault' = Minus(sol_vault, c, refund)
      /\ held' = [held EXCEPT ![c][u] = 0]
      /\ burned' = Plus(burned, c, held[c][u])
      /\ refunded' = Plus(refunded, c, refund)
      /\ UNCHANGED <<slot, bc_admin, tax_escrow, withdrawn, distributed,
                     token_vault, vault_closed, funded, sales>>
      /\ CanClaim(c, u)
  BY DEF claim_refund
<1>2. /\ Typed(c) /\ CurveTypeOK /\ RENT \in Nat
      /\ held[c][u] \in Nat
  BY CurveTyped, BondingCurveAssumption DEF CurveTypeOK
<1>3. curve' = [curve EXCEPT ![c] = next]
  BY <1>2 DEF claim_refund, CurveTypeOK
<1>4. /\ is_refund_eligible(c) /\ curve[c].escrow_consolidated
      /\ held[c][u] <= curve[c].tokens_sold
      /\ curve[c].status \in {"Filled", "Failed"}
  BY <1>1 DEF CanClaim, is_refund_eligible
<1>5. refund \in Nat /\ refund <= sol_vault[c]
  BY <1>1, <1>2, RefundBounded DEF Typed
<1>6. sold \in Nat
  BY <1>2, <1>4 DEF Typed, CurveState
<1> HIDE DEF refund, sold
<1>7. Fields(next, curve[c].status, sold, curve[c].sol_raised,
             curve[c].sol_returned, curve[c].tax_collected,
             curve[c].deadline_slot, curve[c].escrow_consolidated)
  BY <1>2, <1>6, ClaimedFields DEF Typed
<1> HIDE DEF next
<1>8. /\ curve' \in [Token -> CurveState] /\ curve'[c] = next
      /\ \A d \in Token \ {c} : curve'[d] = curve[d]
  BY <1>2, <1>3, <1>7, SetCurve DEF Fields
<1>9. /\ sol_vault' \in [Token -> Nat] /\ sol_vault'[c] = sol_vault[c] - refund
      /\ \A d \in Token \ {c} : sol_vault'[d] = sol_vault[d]
  BY <1>1, <1>2, <1>5 DEF CurveTypeOK, Minus
<1>10. /\ refunded' \in [Token -> Nat] /\ refunded'[c] = refunded[c] + refund
       /\ \A d \in Token \ {c} : refunded'[d] = refunded[d]
  BY <1>1, <1>2, <1>5 DEF CurveTypeOK, Plus
<1>11. held' \in [Token -> [User -> Nat]] /\ burned' \in [Token -> Nat]
  BY <1>1, <1>2 DEF CurveTypeOK, Plus
<1>12. CurveTypeOK'
  BY <1>1, <1>2, <1>8, <1>9, <1>10, <1>11 DEF CurveTypeOK
<1>13. Books(c)'
  <2>1. /\ sol_vault[c] + withdrawn[c] + refunded[c]
             = RENT + curve[c].sol_raised - curve[c].sol_returned
                 + curve[c].tax_collected
        /\ tax_escrow[c] + distributed[c] + curve[c].tax_collected
             = RENT + curve[c].tax_collected
    BY <1>4 DEF CurveInv, Books
  <2>2. sol_vault'[c] + withdrawn'[c] + refunded'[c]
          = sol_vault[c] + withdrawn[c] + refunded[c]
    BY <1>1, <1>2, <1>5, <1>9, <1>10 DEF Typed
  <2> QED BY <1>1, <1>4, <1>7, <1>8, <2>1, <2>2 DEF Books, Fields
<1>14. Stage(c)'
  BY <1>1, <1>4, <1>7, <1>8 DEF CurveInv, Stage, Fields
<1>15. OnlyCurve(c)
  BY <1>1, <1>8, <1>9, <1>10 DEF OnlyCurve, SameCurve
<1>16. StatusKept(c)
  BY <1>7, <1>8 DEF StatusKept, Fields
<1> QED BY <1>4, <1>12, <1>13, <1>14, <1>15, <1>16, OneCurve

LEMMA WithdrawKeepsInv ==
  ASSUME CurveInv, NEW c \in Token, NEW signer, withdraw_graduated_sol(signer, c)
  PROVE  CurveInv'
<1> DEFINE spare == Spare(sol_vault[c])
<1>1. /\ sol_vault' = Minus(sol_vault, c, spare)
      /\ withdrawn' = Plus(withdrawn, c, spare)
      /\ UNCHANGED <<slot, bc_admin, curve, tax_escrow, distributed, refunded,
                     tokens, held, sales>>
      /\ curve[c].status = "Graduated"
  BY DEF withdraw_graduated_sol
<1>2. Typed(c) /\ CurveTypeOK /\ spare \in Nat /\ spare <= sol_vault[c]
  BY CurveTyped, SpareNat DEF Typed
<1> HIDE DEF spare
<1>3. /\ sol_vault' \in [Token -> Nat] /\ sol_vault'[c] = sol_vault[c] - spare
      /\ \A d \in Token \ {c} : sol_vault'[d] = sol_vault[d]
  BY <1>1, <1>2 DEF CurveTypeOK, Minus
<1>4. /\ withdrawn' \in [Token -> Nat] /\ withdrawn'[c] = withdrawn[c] + spare
      /\ \A d \in Token \ {c} : withdrawn'[d] = withdrawn[d]
  BY <1>1, <1>2 DEF CurveTypeOK, Plus
<1>5. CurveTypeOK'
  BY <1>1, <1>2, <1>3, <1>4 DEF CurveTypeOK, tokens
<1>6. Books(c)' /\ Stage(c)'
  BY <1>1, <1>2, <1>3, <1>4 DEF CurveInv, Books, Stage, Typed, tokens
<1>7. OnlyCurve(c) /\ StatusKept(c)
  BY <1>1, <1>3, <1>4 DEF OnlyCurve, SameCurve, StatusKept, tokens
<1> QED BY <1>1, <1>5, <1>6, <1>7, OneCurve

LEMMA DistributeKeepsInv ==
  ASSUME CurveInv, NEW c \in Token, distribute_tax_escrow(c)
  PROVE  CurveInv'
<1> DEFINE spare == Spare(tax_escrow[c])
<1>1. /\ tax_escrow' = Minus(tax_escrow, c, spare)
      /\ distributed' = Plus(distributed, c, spare)
      /\ UNCHANGED <<slot, bc_admin, curve, sol_vault, withdrawn, refunded,
                     tokens, held, sales>>
      /\ curve[c].status = "Graduated"
  BY DEF distribute_tax_escrow
<1>2. Typed(c) /\ CurveTypeOK /\ spare \in Nat /\ spare <= tax_escrow[c]
  BY CurveTyped, SpareNat DEF Typed
<1> HIDE DEF spare
<1>3. /\ tax_escrow' \in [Token -> Nat] /\ tax_escrow'[c] = tax_escrow[c] - spare
      /\ \A d \in Token \ {c} : tax_escrow'[d] = tax_escrow[d]
  BY <1>1, <1>2 DEF CurveTypeOK, Minus
<1>4. /\ distributed' \in [Token -> Nat] /\ distributed'[c] = distributed[c] + spare
      /\ \A d \in Token \ {c} : distributed'[d] = distributed[d]
  BY <1>1, <1>2 DEF CurveTypeOK, Plus
<1>5. CurveTypeOK'
  BY <1>1, <1>2, <1>3, <1>4 DEF CurveTypeOK, tokens
<1>6. Books(c)' /\ Stage(c)'
  BY <1>1, <1>2, <1>3, <1>4 DEF CurveInv, Books, Stage, Typed, tokens, CurveState
<1>7. OnlyCurve(c) /\ StatusKept(c)
  BY <1>1, <1>3, <1>4 DEF OnlyCurve, SameCurve, StatusKept, tokens
<1> QED BY <1>1, <1>5, <1>6, <1>7, OneCurve

\* The one step that moves two curves: none of them has failed, so none has been
\* consolidated or refunded.
LEMMA PrepareKeepsInv ==
  ASSUME CurveInv, NEW signer, prepare_transition(signer)
  PROVE  CurveInv'
<1>1. /\ curve' = [c \in Token |-> [curve[c] EXCEPT !.status = "Graduated"]]
      /\ UNCHANGED <<slot, bc_admin, balances, payments, tokens, held, sales>>
      /\ \A c \in Token : curve[c].status = "Filled"
  BY DEF prepare_transition
<1>2. CurveTypeOK
  BY DEF CurveInv
<1>3. ASSUME NEW c \in Token
      PROVE  Fields(curve'[c], "Graduated", curve[c].tokens_sold,
                    curve[c].sol_raised, curve[c].sol_returned,
                    curve[c].tax_collected, curve[c].deadline_slot,
                    curve[c].escrow_consolidated)
  <2>1. curve[c] \in CurveState /\ "Graduated" \in Status
    BY <1>2 DEF CurveTypeOK, Status
  <2>2. curve'[c] = [curve[c] EXCEPT !.status = "Graduated"]
    BY <1>1
  <2> QED BY <2>1, <2>2, StatusFields
<1>4. \A c \in Token : ~curve[c].escrow_consolidated /\ ~(refunded[c] > 0)
  BY <1>1 DEF CurveInv, RefundsNeedFailure
<1>5. curve' \in [Token -> CurveState]
  BY <1>1, <1>3 DEF Fields
<1>6. CurveTypeOK'
  BY <1>1, <1>2, <1>5 DEF CurveTypeOK, balances, payments, tokens
<1>7. ASSUME NEW c \in Token PROVE Books(c)' /\ Stage(c)'
  BY <1>1, <1>3, <1>4 DEF CurveInv, Books, Stage, Fields, balances, payments, tokens
<1>8. GraduateTogether' /\ RefundsNeedFailure'
  BY <1>1, <1>3, <1>4 DEF GraduateTogether, RefundsNeedFailure, Fields, payments
<1> QED BY <1>6, <1>7, <1>8 DEF CurveInv

\* The clock, the admin, the closing of an empty token vault.
LEMMA OtherStepsKeepInv ==
  ASSUME CurveInv, CurveTypeOK',
         UNCHANGED <<curve, sol_vault, tax_escrow, token_vault,
                     withdrawn, distributed, refunded>>
  PROVE  CurveInv'
  BY DEF CurveInv, Books, Stage, GraduateTogether, RefundsNeedFailure

--------------------------------------------------------------------------------
LEMMA CurveInvInit == InitCurves => CurveInv
<1> SUFFICES ASSUME InitCurves PROVE CurveInv
  OBVIOUS
<1>1. NoCurve \in CurveState
  BY DEF NoCurve, CurveState, Status
<1>2. CurveTypeOK
  BY <1>1 DEF InitCurves, CurveTypeOK
<1>3. \A c \in Token : Books(c) /\ Stage(c)
  BY BondingCurveAssumption DEF InitCurves, Books, Stage, NoCurve
<1>4. GraduateTogether /\ RefundsNeedFailure
  BY DEF InitCurves, GraduateTogether, RefundsNeedFailure, NoCurve
<1> QED BY <1>2, <1>3, <1>4 DEF CurveInv

\* Every instruction keeps the invariant, one step per instruction.
LEMMA CurveInvStep == CurveInv /\ [CurveNext]_curveVars => CurveInv'
<1> SUFFICES ASSUME CurveInv, [CurveNext]_curveVars PROVE CurveInv'
  OBVIOUS
<1>0. CurveTypeOK
  BY DEF CurveInv
<1>1. CASE UNCHANGED curveVars
  <2>1. CurveTypeOK'
    BY <1>0, <1>1 DEF CurveTypeOK, curveVars, balances, payments, tokens
  <2> QED BY <1>1, <2>1, OtherStepsKeepInv
          DEF curveVars, balances, payments, tokens
<1>2. CASE Tick
  <2>1. CurveTypeOK'
    BY <1>0, <1>2 DEF Tick, CurveTypeOK, balances, payments, tokens
  <2> QED BY <1>2, <2>1, OtherStepsKeepInv
          DEF Tick, balances, payments, tokens
<1>3. CASE \/ initialize_bc_admin
           \/ \E signer \in {"deployer", "multisig"} :
                \/ transfer_bc_admin(signer, "multisig")
                \/ burn_bc_admin(signer)
  <2>1. CurveTypeOK'
    BY <1>0, <1>3 DEF initialize_bc_admin, transfer_bc_admin, burn_bc_admin,
                      CurveTypeOK, balances, payments, tokens
  <2> QED BY <1>3, <2>1, OtherStepsKeepInv
          DEF initialize_bc_admin, transfer_bc_admin, burn_bc_admin,
              balances, payments, tokens
<1>4. ASSUME NEW c \in Token, NEW signer, close_token_vault(signer, c)
      PROVE  CurveInv'
  <2>1. CurveTypeOK'
    BY <1>0, <1>4 DEF close_token_vault, CurveTypeOK, balances, payments
  <2> QED BY <1>4, <2>1, OtherStepsKeepInv
          DEF close_token_vault, balances, payments
<1>5. CASE \E signer \in {"deployer", "multisig"} : AdminStep(signer)
  BY <1>3, <1>4, <1>5, InitializeKeepsInv, FundKeepsInv, StartKeepsInv,
     WithdrawKeepsInv, PrepareKeepsInv DEF AdminStep
<1>6. CASE Permissionless
  BY <1>2, <1>6, PurchaseKeepsInv, SellKeepsInv, MarkFailedKeepsInv,
     ConsolidateKeepsInv, ClaimKeepsInv, DistributeKeepsInv DEF Permissionless
<1>7. CASE HoldingsChange
  <2>1. CurveTypeOK'
    BY <1>0, <1>7 DEF HoldingsChange, CurveTypeOK, balances, payments, tokens
  <2> QED BY <1>7, <2>1, OtherStepsKeepInv
          DEF HoldingsChange, balances, payments, tokens
<1> QED BY <1>1, <1>3, <1>5, <1>6, <1>7 DEF CurveNext

LEMMA CurveInvariant == CurveSpec => []CurveInv
  BY CurveInvInit, CurveInvStep, PTL DEF CurveSpec

\* Every account of a launch is a natural number, through any trades, refunds
\* and withdrawals: no balance and no total of the programs ever underflows.
THEOREM CurveTypeCorrect == CurveSpec => []CurveTypeOK
<1>1. CurveInv => CurveTypeOK
  BY DEF CurveInv
<1> QED BY <1>1, CurveInvariant, PTL

\* A launch that has graduated has refunded nobody, and one that refunds never
\* graduates, in whatever order the curves fill, fail and are marked.
THEOREM GraduationNeverRefunds == CurveSpec => []GraduationExcludesRefund
<1>1. CurveInv => GraduationExcludesRefund
  <2> SUFFICES ASSUME CurveInv, NEW c \in Token, NEW d \in Token,
                      curve[c].status = "Graduated"
               PROVE  /\ curve[d].status = "Graduated"
                      /\ ~curve[d].escrow_consolidated
                      /\ refunded[d] = 0
    BY DEF GraduationExcludesRefund
  <2>1. \A e \in Token : curve[e].status = "Graduated"
    BY DEF CurveInv, GraduateTogether
  <2>2. ~curve[d].escrow_consolidated /\ ~(refunded[d] > 0)
    BY <2>1 DEF CurveInv, RefundsNeedFailure
  <2>3. refunded[d] \in Nat
    BY CurveTyped DEF Typed
  <2> QED BY <2>1, <2>2, <2>3
<1> QED BY <1>1, CurveInvariant, PTL

\* Both accounts of a curve hold what its trades, refunds and withdrawals leave
\* there, to the lamport.
THEOREM VaultAlwaysMatchesTrades == CurveSpec => []VaultMatchesTrades
<1>1. CurveInv => VaultMatchesTrades
  BY DEF CurveInv, Books, VaultMatchesTrades
<1> QED BY <1>1, CurveInvariant, PTL

\* Only claims burn.
LEMMA BurnedByClaim ==
  ASSUME CurveInv, CurveNext, NEW c \in Token, burned'[c] > burned[c]
  PROVE  \E u \in User : claim_refund(c, u)
<1>0. burned[c] \in Nat /\ burned \in [Token -> Nat]
  BY DEF CurveInv, CurveTypeOK
<1>1. burned' # burned
  BY <1>0
<1>2. PICK d \in Token, u \in User : claim_refund(d, u)
  <2>1. CASE \E signer \in {"deployer", "multisig"} : AdminStep(signer)
    BY <1>1, <2>1 DEF AdminStep, prepare_transition, initialize_curve, fund_curve,
       start_curve, withdraw_graduated_sol, close_token_vault, transfer_bc_admin,
       burn_bc_admin, tokens
  <2>2. CASE initialize_bc_admin \/ HoldingsChange
    BY <1>1, <2>2 DEF initialize_bc_admin, HoldingsChange, tokens
  <2>3. CASE Permissionless
    BY <1>1, <2>3 DEF Permissionless, Tick, purchase, sell, mark_failed,
       consolidate_for_refund, distribute_tax_escrow, tokens
  <2> QED BY <2>1, <2>2, <2>3 DEF CurveNext
<1>3. held[d][u] \in Nat
  BY DEF CurveInv, CurveTypeOK
<1>4. d = c
  <2>1. burned' = Plus(burned, d, held[d][u])
    BY <1>2 DEF claim_refund
  <2> QED BY <1>0, <2>1 DEF Plus
<1> QED BY <1>2, <1>4

\* A claim takes no more than its share: what is left in the pool for a token
\* does not fall.
LEMMA ClaimKeepsShares ==
  ASSUME CurveInv, NEW c \in Token, NEW u \in User, claim_refund(c, u)
  PROVE  (sol_vault'[c] - RENT) * curve[c].tokens_sold
           >= (sol_vault[c] - RENT) * curve'[c].tokens_sold
<1> DEFINE funds == sol_vault[c] - RENT
           all == curve[c].tokens_sold
           mine == held[c][u]
           q == RefundAmount(c, u)
<1>1. /\ CurveTypeOK /\ Typed(c) /\ RENT \in Nat
      /\ all \in Nat /\ mine \in Nat /\ funds \in Int
  BY CurveTyped, BondingCurveAssumption DEF CurveTypeOK, Typed, CurveState
<1>2. q \in Nat /\ q * all <= mine * funds
  BY RefundBounded DEF claim_refund
<1>3. sol_vault'[c] = sol_vault[c] - q
  <2>1. sol_vault' = Minus(sol_vault, c, q)
    BY DEF claim_refund
  <2> QED BY <1>1, <2>1 DEF Minus, CurveTypeOK
<1>4. curve'[c].tokens_sold = all - mine
  BY <1>1 DEF claim_refund, CurveTypeOK, CurveState
<1>5. sol_vault'[c] - RENT = funds - q
  BY <1>1, <1>2, <1>3 DEF Typed
<1> HIDE DEF funds, all, mine, q
<1>6. (funds - q) * all = funds * all - q * all
  BY <1>1, <1>2
<1>7. funds * (all - mine) = funds * all - funds * mine
  BY <1>1
<1>8. mine * funds = funds * mine
  BY <1>1
<1>9. funds * all \in Int /\ funds * mine \in Int /\ q * all \in Int
  BY <1>1, <1>2
<1>10. (funds - q) * all >= funds * (all - mine)
  BY <1>2, <1>6, <1>7, <1>8, <1>9
<1> QED BY <1>4, <1>5, <1>10 DEF funds, all

\* Whoever claims first, the SOL for each token outstanding does not fall.
THEOREM RefundsAlwaysShareAlike == CurveSpec => RefundsShareAlike
<1> DEFINE Fair ==
      \A c \in Token, u \in User :
        held'[c][u] = 0 /\ held[c][u] > 0 /\ burned'[c] > burned[c] =>
          (sol_vault'[c] - RENT) * curve[c].tokens_sold
            >= (sol_vault[c] - RENT) * curve'[c].tokens_sold
<1>1. ASSUME CurveInv, CurveNext PROVE Fair
  BY <1>1, BurnedByClaim, ClaimKeepsShares
<1>2. CurveInv /\ [CurveNext]_curveVars => [Fair]_curveVars
  BY <1>1
<1>3. RefundsShareAlike <=> [][Fair]_curveVars
  BY DEF RefundsShareAlike
<1> HIDE DEF Fair
<1>4. CurveSpec => [][Fair]_curveVars
  BY <1>2, CurveInvariant, PTL DEF CurveSpec
<1> QED BY <1>3, <1>4
--------------------------------------------------------------------------------
(***************************************************************************)
(* What the scripts rely on: until a curve starts its vault holds what the *)
(* admin put there, what it raised is withdrawn once, and a curve stays.   *)
(***************************************************************************)
VaultUntouched(c) ==
  curve[c].status \in {"None", "Initialized"} => token_vault[c] = funded[c]
WithdrawnOnce(c) == withdrawn[c] > 0 => sol_vault[c] <= RENT
CurveExtra == \A c \in Token : VaultUntouched(c) /\ WithdrawnOnce(c)

\* No curve is forgotten.
CurvesStay == \A c \in Token : curve[c].status # "None" => curve'[c].status # "None"

LEMMA CurveExtraInit == InitCurves => CurveExtra
  BY DEF InitCurves, CurveExtra, VaultUntouched, WithdrawnOnce

\* A step that changes only statuses, and none of them back to the start.
LEMMA StatusKeepsExtra ==
  ASSUME CurveInv, CurveExtra, NEW c \in Token,
         token_vault'[c] = token_vault[c], funded'[c] = funded[c],
         withdrawn'[c] = withdrawn[c], sol_vault'[c] = sol_vault[c],
         curve'[c].status \in {"None", "Initialized"} =>
           curve[c].status \in {"None", "Initialized"}
  PROVE  VaultUntouched(c)' /\ WithdrawnOnce(c)'
  BY DEF CurveExtra, VaultUntouched, WithdrawnOnce

\* A step on a curve that has started and not graduated.
LEMMA OpenKeepsExtra ==
  ASSUME CurveInv, NEW c \in Token, withdrawn'[c] = withdrawn[c],
         curve[c].status # "Graduated",
         curve'[c].status \notin {"None", "Initialized"}
  PROVE  VaultUntouched(c)' /\ WithdrawnOnce(c)'
  BY DEF CurveInv, Stage, VaultUntouched, WithdrawnOnce

\* A trade, a consolidation or a claim on a curve.
OpenStep(d) ==
  /\ curve[d].status \in {"Active", "Filled", "Failed"}
  /\ curve'[d].status \in {"Active", "Filled", "Failed"}
  /\ \A e \in Token \ {d} : /\ curve'[e] = curve[e]
                            /\ sol_vault'[e] = sol_vault[e]
                            /\ token_vault'[e] = token_vault[e]
  /\ UNCHANGED <<withdrawn, funded>>

\* Each instruction, seen from one curve.
LEMMA CurveExtraStep ==
  ASSUME CurveInv, CurveExtra, [CurveNext]_curveVars
  PROVE  CurveExtra' /\ CurvesStay
<1>0. CurveTypeOK
  BY DEF CurveInv
<1> SUFFICES ASSUME NEW c \in Token
             PROVE  /\ VaultUntouched(c)' /\ WithdrawnOnce(c)'
                    /\ curve[c].status # "None" => curve'[c].status # "None"
  BY DEF CurveExtra, CurvesStay
<1>1. CASE \/ UNCHANGED curveVars
           \/ Tick
           \/ HoldingsChange
           \/ initialize_bc_admin
           \/ \E signer \in {"deployer", "multisig"} :
                \/ transfer_bc_admin(signer, "multisig")
                \/ burn_bc_admin(signer)
                \/ \E d \in Token : close_token_vault(signer, d)
           \/ \E d \in Token : distribute_tax_escrow(d)
  <2>1. UNCHANGED <<curve, token_vault, funded, withdrawn, sol_vault>>
    BY <1>1 DEF Tick, HoldingsChange, initialize_bc_admin, transfer_bc_admin,
       burn_bc_admin, close_token_vault, distribute_tax_escrow, curveVars,
       balances, payments, tokens
  <2> QED BY <2>1, StatusKeepsExtra
<1>2. CASE \E d \in Token, signer \in {"deployer", "multisig"} :
             initialize_curve(signer, d)
  <2>1. PICK d \in Token :
          /\ curve[d].status = "None"
          /\ curve' = [curve EXCEPT ![d].status = "Initialized"]
          /\ sol_vault' = [sol_vault EXCEPT ![d] = RENT]
          /\ UNCHANGED <<token_vault, funded, withdrawn>>
    BY <1>2 DEF initialize_curve, payments, tokens
  <2>2. CASE d = c
    <3>1. curve[c] \in CurveState /\ withdrawn[c] = 0 /\ RENT \in Nat
      BY <1>0, <2>1, <2>2, BondingCurveAssumption DEF CurveInv, Stage, CurveTypeOK
    <3>2. curve'[c].status = "Initialized"
      BY <1>0, <2>1, <2>2, <3>1 DEF CurveTypeOK, CurveState
    <3> QED BY <2>1, <2>2, <3>1, <3>2 DEF CurveExtra, VaultUntouched, WithdrawnOnce
  <2>3. CASE d # c
    <3>1. curve'[c] = curve[c] /\ sol_vault'[c] = sol_vault[c]
      BY <1>0, <2>1, <2>3 DEF CurveTypeOK
    <3> QED BY <2>1, <3>1, StatusKeepsExtra
  <2> QED BY <2>2, <2>3
<1>3. CASE \E d \in Token, signer \in {"deployer", "multisig"} :
             fund_curve(signer, d)
  <2>1. PICK d \in Token :
          /\ token_vault' = Plus(token_vault, d, TARGET_TOKENS)
          /\ funded' = Plus(funded, d, TARGET_TOKENS)
          /\ UNCHANGED <<curve, withdrawn, sol_vault>>
    BY <1>3 DEF fund_curve, balances, payments
  <2>2. token_vault[c] = funded[c] => token_vault'[c] = funded'[c]
    BY <1>0, <2>1 DEF CurveTypeOK, Plus
  <2> QED BY <2>1, <2>2 DEF CurveExtra, VaultUntouched, WithdrawnOnce
<1>4. CASE \E d \in Token, signer \in {"deployer", "multisig"} :
             start_curve(signer, d)
  <2>1. PICK d \in Token :
          /\ curve[d].status = "Initialized"
          /\ curve' = [curve EXCEPT ![d] =
                [@ EXCEPT !.status = "Active",
                          !.deadline_slot = slot + DEADLINE_SLOTS]]
          /\ UNCHANGED <<token_vault, funded, withdrawn, sol_vault>>
    BY <1>4 DEF start_curve, balances, payments, tokens
  <2>2. \/ curve'[c] = curve[c]
        \/ d = c /\ curve'[c].status = "Active"
    BY <1>0, <2>1 DEF CurveTypeOK, CurveState
  <2> QED BY <2>1, <2>2, StatusKeepsExtra
<1>5. CASE \E d \in Token : mark_failed(d)
  <2>1. PICK d \in Token :
          /\ curve' = [curve EXCEPT ![d].status = "Failed"]
          /\ UNCHANGED <<token_vault, funded, withdrawn, sol_vault>>
    BY <1>5 DEF mark_failed, balances, payments, tokens
  <2>2. curve'[c] = curve[c] \/ curve'[c].status = "Failed"
    BY <1>0, <2>1 DEF CurveTypeOK, CurveState
  <2> QED BY <2>1, <2>2, StatusKeepsExtra
<1>6. CASE \E signer \in {"deployer", "multisig"} : prepare_transition(signer)
  <2>1. /\ curve'[c].status = "Graduated"
        /\ UNCHANGED <<token_vault, funded, withdrawn, sol_vault>>
    BY <1>0, <1>6 DEF prepare_transition, balances, payments, tokens, CurveTypeOK,
       CurveState
  <2> QED BY <2>1, StatusKeepsExtra
<1>7. CASE \E d \in Token, signer \in {"deployer", "multisig"} :
             withdraw_graduated_sol(signer, d)
  <2>1. PICK d \in Token :
          /\ sol_vault' = Minus(sol_vault, d, Spare(sol_vault[d]))
          /\ withdrawn' = Plus(withdrawn, d, Spare(sol_vault[d]))
          /\ UNCHANGED <<curve, token_vault, funded>>
    BY <1>7 DEF withdraw_graduated_sol, tokens
  <2>2. CASE d = c
    <3>1. sol_vault[c] \in Nat /\ RENT \in Nat
      BY <1>0, BondingCurveAssumption DEF CurveTypeOK
    <3>2. sol_vault'[c] = sol_vault[c] - Spare(sol_vault[c])
      BY <1>0, <2>1, <2>2 DEF CurveTypeOK, Minus
    <3>3. sol_vault[c] - Spare(sol_vault[c]) <= RENT
      BY <3>1 DEF Spare, saturating_sub
    <3> QED BY <2>1, <3>2, <3>3 DEF CurveExtra, VaultUntouched, WithdrawnOnce
  <2>3. CASE d # c
    <3>1. withdrawn'[c] = withdrawn[c] /\ sol_vault'[c] = sol_vault[c]
      BY <1>0, <2>1, <2>3 DEF CurveTypeOK, Plus, Minus
    <3> QED BY <2>1, <3>1, StatusKeepsExtra
  <2> QED BY <2>2, <2>3
<1>8. CASE \/ \E d \in Token, u \in User, sol \in Purchases : purchase(d, u, sol, 0)
           \/ \E d \in Token, u \in User, n \in Sales : sell(d, u, n, 0)
           \/ \E d \in Token : consolidate_for_refund(d)
           \/ \E d \in Token, u \in User : claim_refund(d, u)
  <2>1. PICK d \in Token : OpenStep(d)
    <3>1. ASSUME NEW d \in Token, NEW u \in User, NEW sol \in Purchases,
                 purchase(d, u, sol, 0)
          PROVE  OpenStep(d)
      BY <1>0, <3>1 DEF OpenStep, purchase, CanPurchase, CurveTypeOK, CurveState, Plus, Minus,
         payments, tokens
    <3>2. ASSUME NEW d \in Token, NEW u \in User, NEW n \in Sales, sell(d, u, n, 0)
          PROVE  OpenStep(d)
      BY <1>0, <3>2 DEF OpenStep, sell, CanSell, CurveTypeOK, CurveState, Plus, Minus,
         payments, tokens
    <3>3. ASSUME NEW d \in Token, consolidate_for_refund(d)
          PROVE  OpenStep(d)
      BY <1>0, <3>3 DEF OpenStep, consolidate_for_refund, is_refund_eligible, CurveTypeOK,
         CurveState, Plus, Minus, payments, tokens
    <3>4. ASSUME NEW d \in Token, NEW u \in User, claim_refund(d, u)
          PROVE  OpenStep(d)
      BY <1>0, <3>4 DEF OpenStep, claim_refund, CanClaim, is_refund_eligible,
         CurveTypeOK, CurveState, Plus, Minus, payments, tokens
    <3> QED BY <1>8, <3>1, <3>2, <3>3, <3>4
  <2>2. CASE d = c
    BY <2>1, <2>2, OpenKeepsExtra DEF OpenStep
  <2>3. CASE d # c
    BY <2>1, <2>3, StatusKeepsExtra DEF OpenStep
  <2> QED BY <2>2, <2>3
<1>9. CASE \E signer \in {"deployer", "multisig"} : AdminStep(signer)
  BY <1>1, <1>2, <1>3, <1>4, <1>6, <1>7, <1>9 DEF AdminStep
<1>10. CASE Permissionless
  BY <1>1, <1>5, <1>8, <1>10 DEF Permissionless
<1> QED BY <1>1, <1>9, <1>10 DEF CurveNext

LEMMA CurveExtraInvariant == CurveSpec => [](CurveInv /\ CurveExtra)
<1>1. CurveExtra /\ CurveInv /\ [CurveNext]_curveVars => CurveExtra'
  BY CurveExtraStep
<1> QED BY <1>1, CurveExtraInit, CurveInvariant, PTL DEF CurveSpec

\* Only the admin brings a curve about.
LEMMA PermissionlessKeepsNone ==
  ASSUME CurveInv, Permissionless, NEW c \in Token, curve[c].status = "None"
  PROVE  curve'[c].status = "None"
<1>0. CurveTypeOK
  BY DEF CurveInv
<1>1. CASE Tick \/ \E d \in Token : distribute_tax_escrow(d)
  BY <1>1 DEF Tick, distribute_tax_escrow
<1>2. ASSUME NEW d \in Token, curve[d].status # "None",
             \A e \in Token \ {d} : curve'[e] = curve[e]
      PROVE  curve'[c].status = "None"
  BY <1>2
<1>3. ASSUME NEW d \in Token, mark_failed(d) PROVE curve'[c].status = "None"
  BY <1>0, <1>2, <1>3 DEF mark_failed, CurveTypeOK
<1>4. ASSUME NEW d \in Token, NEW u \in User, NEW sol \in Purchases,
             purchase(d, u, sol, 0)
      PROVE  curve'[c].status = "None"
  BY <1>0, <1>2, <1>4 DEF purchase, CanPurchase, CurveTypeOK
<1>5. ASSUME NEW d \in Token, NEW u \in User, NEW n \in Sales, sell(d, u, n, 0)
      PROVE  curve'[c].status = "None"
  BY <1>0, <1>2, <1>5 DEF sell, CanSell, CurveTypeOK
<1>6. ASSUME NEW d \in Token, consolidate_for_refund(d)
      PROVE  curve'[c].status = "None"
  BY <1>0, <1>2, <1>6 DEF consolidate_for_refund, is_refund_eligible, CurveTypeOK
<1>7. ASSUME NEW d \in Token, NEW u \in User, claim_refund(d, u)
      PROVE  curve'[c].status = "None"
  BY <1>0, <1>2, <1>7 DEF claim_refund, CanClaim, is_refund_eligible, CurveTypeOK
<1> QED BY <1>1, <1>3, <1>4, <1>5, <1>6, <1>7 DEF Permissionless
================================================================================
