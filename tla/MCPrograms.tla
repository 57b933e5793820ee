------------------------------ MODULE MCPrograms ------------------------------
(***************************************************************************)
(* Constants for model-checking the safety of the epoch program and of the *)
(* staking program, in one run of three parts that share nothing: the part *)
(* is chosen at the start and stays.                                       *)
(*   time     the clock, VRF requests with two randomness accounts, missed *)
(*            boundaries and the Carnage window; no SOL beyond the rent    *)
(*   carnage  the Carnage fund: burns, sales and purchases against two     *)
(*            pool states, with enough SOL to buy; epochs are triggered at *)
(*            their boundary and answered at once                          *)
(*   staking  two stakers, the dead stake and the cooldown, with a         *)
(*            PRECISION that does not divide the rewards evenly, and       *)
(*            stakes on both sides of MINIMUM_STAKE                        *)
(* The slot constants keep the order of the deployed ones (lock 50 <       *)
(* deadline 300 = timeout 300 < epoch 4500 slots).                         *)
(***************************************************************************)
EXTENDS EpochProgram, Staking, TLC

CONSTANTS r1, r2, Part

VARIABLE part

VrfBytes(b0, b1, b2, b3, b4, b5, b6, b7) ==
  [i \in 0..7 |-> <<b0, b1, b2, b3, b4, b5, b6, b7>>[i + 1]]

\* Bytes 0, 5, 6 and 7 on both sides of their thresholds.
Quiet     == VrfBytes(191, 0, 1, 2, 3, 11, 0, 0)
BurnFlip  == VrfBytes(0, 3, 2, 1, 0, 0, 5, 128)
SellCrime == VrfBytes(192, 0, 0, 0, 0, 10, 4, 127)
SellFraud == VrfBytes(255, 0, 0, 0, 0, 10, 4, 128)
BurnCrime == VrfBytes(255, 0, 0, 0, 0, 10, 5, 127)

TimeVrf    == {Quiet, BurnFlip}
CarnageVrf == {SellCrime, SellFraud, BurnCrime}
AllVrf     == TimeVrf \cup CarnageVrf

TwoAccounts  == {r1, r2}
TwoPools     == {[sol |-> 1000, token |-> 5000], [sol |-> 3000, token |-> 70]}
LargeDeposit == {201}

Users == Permutations(User)

InitParts == part \in Part /\ Init /\ InitStaking

\* A step that answers a request draws one of the results in sample.
Drawn(sample) ==
  vrf_pending /\ ~vrf_pending' =>
    \E vrf \in sample : derive_taxes(vrf, cheap_side).tax_bps = tax_bps'

NextTime ==
  /\ Next
  /\ Drawn(TimeVrf)
  /\ sol_vault' <= sol_vault

\* The part needs neither the clock's nor the oracle's delays: a request is bound
\* to r1 at a boundary and answered in its slot.
NextCarnage ==
  /\ Next
  /\ Drawn(CarnageVrf)
  /\ vrf_pending => slot' = slot
  /\ current_epoch' # current_epoch => slot = epoch_start_slot'
  /\ pending_randomness_account' # r2
  /\ slot' = slot => randomness'[r2] = randomness[r2]

NextParts ==
  /\ UNCHANGED part
  /\ \/ part = "time" /\ NextTime /\ UNCHANGED stakingVars
     \/ part = "carnage" /\ NextCarnage /\ UNCHANGED stakingVars
     \/ part = "staking" /\ StakingNext /\ UNCHANGED vars

SpecParts == InitParts /\ [][NextParts]_<<part, vars, stakingVars>>
==============================================================================
