---------------------------- MODULE MCEpochProgram ----------------------------
(***************************************************************************)
(* Constants for model-checking EpochProgram.  The slot constants keep the *)
(* order of the deployed ones (lock 50 < deadline 300 = timeout 300 <      *)
(* epoch 4500 slots).                                                      *)
(***************************************************************************)
EXTENDS EpochProgram

VrfBytes(b0, b1, b2, b3, b4, b5, b6, b7) ==
  [i \in 0..7 |-> <<b0, b1, b2, b3, b4, b5, b6, b7>>[i + 1]]

\* Bytes 0, 5, 6 and 7 on both sides of their thresholds.
Quiet     == VrfBytes(191, 0, 1, 2, 3, 11, 0, 0)
BurnFlip  == VrfBytes(0, 3, 2, 1, 0, 0, 5, 128)
SellCrime == VrfBytes(192, 0, 0, 0, 0, 10, 4, 127)
SellFraud == VrfBytes(255, 0, 0, 0, 0, 10, 4, 128)
BurnCrime == VrfBytes(255, 0, 0, 0, 0, 10, 5, 127)

Calm      == VrfBytes(192, 0, 0, 0, 0, 11, 4, 127)

LiveVrf    == {Calm, SellCrime}
TimeVrf    == {Quiet, BurnFlip}
CarnageVrf == {SellCrime, SellFraud, BurnCrime}

OnePool  == {[sol |-> 1000, token |-> 5000]}
TwoPools == {[sol |-> 1000, token |-> 5000], [sol |-> 3000, token |-> 70]}

LargeDeposit == {201}
Dust == {1}
==============================================================================
