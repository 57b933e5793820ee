---------------------------- MODULE EpochLifecycle ----------------------------
(***************************************************************************)
(* What the epoch program promises to the rest of the protocol, without    *)
(* clocks, accounts or money: epochs are requested and finalised strictly  *)
(* in turn, the tax rates change when an epoch is finalised and at no      *)
(* other time, and each finalised epoch arms at most one Carnage, which is *)
(* executed at most once.                                                  *)
(***************************************************************************)
EXTENDS Integers

VARIABLES
  epoch,          \* the latest epoch requested
  finalized,      \* the latest epoch finalised
  rates,          \* the tax rates in force
  carnage,        \* whether a Carnage is waiting for its execution
  executions      \* how many were executed

lifecycle == <<epoch, finalized, rates, carnage, executions>>

Init ==
  /\ epoch = 0
  /\ finalized = 0
  /\ carnage = FALSE
  /\ executions = 0

Request ==
  /\ finalized = epoch
  /\ epoch' > epoch
  /\ UNCHANGED <<finalized, rates, carnage, executions>>

Finalize ==
  /\ finalized < epoch
  /\ finalized' = epoch
  /\ carnage' \in BOOLEAN
  /\ UNCHANGED <<epoch, executions>>

Execute ==
  /\ carnage
  /\ carnage' = FALSE
  /\ executions' = executions + 1
  /\ UNCHANGED <<epoch, finalized, rates>>

\* Both in one transaction: the Carnage executed is the one that was waiting or
\* one the finalised epoch has armed.
FinalizeAndExecute ==
  /\ finalized < epoch
  /\ finalized' = epoch
  /\ carnage' = FALSE
  /\ executions' = executions + 1
  /\ UNCHANGED epoch

Drop ==
  /\ carnage
  /\ carnage' = FALSE
  /\ UNCHANGED <<epoch, finalized, rates, executions>>

Next == Request \/ Finalize \/ Execute \/ FinalizeAndExecute \/ Drop

Spec == Init /\ [][Next]_lifecycle
==============================================================================
