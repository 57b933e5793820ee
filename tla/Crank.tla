--------------------------------- MODULE Crank ---------------------------------
(***************************************************************************)
(* The epoch crank: scripts/crank/crank-runner.ts, and the epoch           *)
(* transition it runs in every cycle, scripts/vrf/lib/vrf-flow.ts.         *)
(* Instances share a wallet and the stored randomness key; a rival is      *)
(* anybody else who cranks, which the program lets everyone do.            *)
(*                                                                         *)
(* Of the program (module EpochProgram) the cranks see the VRF request:    *)
(* whether one is pending, to which randomness account it is bound,        *)
(* whether it has timed out, and whether an epoch boundary has passed.     *)
(* Each step of a crank is one transaction or one look at the chain, so    *)
(* the others run in between.  Left out: amounts of SOL (a halt at the     *)
(* hourly cap is a choice), delays, logs, alerts.                          *)
(*                                                                         *)
(* A definition named X_Something, just before X, is X with a mistake the  *)
(* properties are meant to catch; nothing uses it.                         *)
(***************************************************************************)
EXTENDS Integers, FiniteSets

CONSTANTS
  Instance,                   \* crank processes
  Account,                    \* randomness accounts, named by their keys
  RivalAccount,               \* the account a rival commits to
  NoKey,                      \* no account
  CIRCUIT_BREAKER_THRESHOLD,  \* consecutive errors that halt a crank
  PERIODIC_SWEEP_INTERVAL     \* cycles from one sweep to the next

\* Bounds of the model: failed calls and dead oracles; processes stopped;
\* transactions of a rival.
CONSTANTS MaxFaults, MaxStops, MaxRaces

ASSUME CrankAssumption ==
  /\ NoKey \notin Account \union {RivalAccount}
  /\ RivalAccount \notin Account
  /\ CIRCUIT_BREAKER_THRESHOLD \in Nat \ {0}
  /\ PERIODIC_SWEEP_INTERVAL \in Nat \ {0, 1}
  /\ MaxFaults \in Nat
  /\ MaxStops \in Nat
  /\ MaxRaces \in Nat

VARIABLES
  request,  \* EpochState, as the cranks see it
  oracle,   \* of an account: closed, no commitment yet, or what the oracle of its
            \* last commitment does
  stored,   \* the persistent key in the environment or the file
  crank,    \* the processes
  faults,   \* failed calls and dead oracles so far
  stops,    \* processes stopped so far
  races     \* transactions of a rival so far

chainVars == <<request, oracle>>
crankVars == <<chainVars, stored, crank, faults, stops, races>>

Down == [pc       |-> "down",
         errors   |-> 0,      \* consecutiveErrors
         cycle    |-> 0,      \* cycleCount
         rng      |-> NoKey,  \* persistentRngKp
         stale    |-> NoKey,  \* a request found pending at the start
         retry    |-> NoKey,  \* the account made to replace a request
         used     |-> NoKey,  \* result.randomnessPubkey
         moved    |-> FALSE,  \* the request read is no longer the one on chain
         shutdown |-> FALSE]  \* shutdownRequested

InitCrank ==
  /\ request = [pending |-> FALSE, bound |-> NoKey, due |-> FALSE, late |-> FALSE]
  /\ oracle = [a \in Account \union {RivalAccount} |-> "closed"]
  /\ stored = NoKey
  /\ crank = [p \in Instance |-> Down]
  /\ faults = 0
  /\ stops = 0
  /\ races = 0
--------------------------------------------------------------------------------
(***************************************************************************)
(* The chain: time, and what the program's instructions do to a request.   *)
(***************************************************************************)
BoundaryPasses ==
  /\ ~request.due
  /\ request' = [request EXCEPT !.due = TRUE]
  /\ UNCHANGED <<oracle, stored, crank, faults, stops, races>>

TimeoutPasses ==
  /\ request.pending /\ ~request.late
  /\ request' = [request EXCEPT !.late = TRUE]
  /\ UNCHANGED <<oracle, stored, crank, faults, stops, races>>

\* A commitment draws an oracle; one that never answers is a fault.
CommitTo(a) ==
  \/ oracle' = [oracle EXCEPT ![a] = "answers"] /\ UNCHANGED faults
  \/ /\ faults < MaxFaults
     /\ oracle' = [oracle EXCEPT ![a] = "dead"]
     /\ faults' = faults + 1

open == {a \in Account : oracle[a] # "closed"}

CanTrigger(a) == ~request.pending /\ request.due /\ a \in open
CanRetry(a) == request.pending /\ request.late /\ a \in open
CanReveal(a) == oracle[a] = "answers"
CanConsume(a) == request.pending /\ request.bound = a /\ CanReveal(a)

Bound(a) == [pending |-> TRUE, bound |-> a, due |-> FALSE, late |-> FALSE]
Rebound(a) == [request EXCEPT !.bound = a, !.late = FALSE]
Consumed == [request EXCEPT !.pending = FALSE, !.bound = NoKey, !.late = FALSE]

\* closeRandomnessAccount never throws; a call that fails leaves its account open.
Close(accounts) ==
  \E left \in SUBSET (accounts \intersect open) :
    /\ oracle' = [a \in DOMAIN oracle |->
                   IF a \in (accounts \intersect open) \ left THEN "closed"
                   ELSE oracle[a]]
    /\ faults' = faults + (IF left = {} THEN 0 ELSE 1)
    /\ faults' <= MaxFaults

Unused == {a \in Account \ (open \union {stored, request.bound}) :
             \A p \in Instance : a \notin {crank[p].rng, crank[p].retry}}
--------------------------------------------------------------------------------
\* The request is no longer the one that a crank is about to act on.
Reading == {"wait", "reveal_stale", "consume_stale", "timeout"}
Moved(k) == [k EXCEPT !.moved = @ \/ k.pc \in Reading]

(***************************************************************************)
(* A rival's account is its own to close; its oracle answers the cranks or *)
(* does not.                                                               *)
(***************************************************************************)
RivalBinds(to) ==
  /\ races < MaxRaces
  /\ races' = races + 1
  /\ request' = to
  /\ crank' = [q \in Instance |-> Moved(crank[q])]
  /\ UNCHANGED <<stored, faults, stops>>

RivalCommits ==
  /\ \/ ~request.pending /\ request.due /\ RivalBinds(Bound(RivalAccount))
     \/ request.pending /\ request.late /\ RivalBinds(Rebound(RivalAccount))
  /\ \E o \in {"answers", "dead"} : oracle' = [oracle EXCEPT ![RivalAccount] = o]

RivalConsumes ==
  /\ CanConsume(request.bound)
  /\ RivalBinds(Consumed)
  /\ UNCHANGED oracle
--------------------------------------------------------------------------------
At(p, pc) == crank[p].pc = pc
Goto(p, pc) == crank' = [crank EXCEPT ![p].pc = pc]

\* p goes on after a transaction that changed the request.
Changed(p, next) ==
  crank' = [q \in Instance |-> IF q = p THEN next ELSE Moved(crank[q])]

\* The catch of the main loop.
Failed(p) ==
  LET errors == crank[p].errors + 1
  IN  [crank[p] EXCEPT !.errors = errors,
                       !.stale = NoKey, !.retry = NoKey, !.moved = FALSE,
                       !.pc = IF errors >= CIRCUIT_BREAKER_THRESHOLD
                              THEN "halted" ELSE "loop"]

Throw(p) == crank' = [crank EXCEPT ![p] = Failed(p)]
--------------------------------------------------------------------------------
(***************************************************************************)
(* The process: start, sweeps, the main loop.                              *)
(***************************************************************************)
\* The stored key is used if there is one; otherwise a new key is stored, if the
\* file can be written.  A new key is one of the model's accounts that nobody
\* uses; that there is one is a bound.
Start(p) ==
  /\ At(p, "down")
  /\ stored = NoKey => Unused # {}
  /\ LET key == IF stored = NoKey THEN CHOOSE a \in Unused : TRUE ELSE stored
     IN  /\ crank' = [crank EXCEPT ![p] = [Down EXCEPT !.pc = "startup",
                                                       !.rng = key]]
         /\ stored' \in {stored, key}
  /\ UNCHANGED <<chainVars, faults, stops, races>>

\* Closes the wallet's accounts but the persistent one: when the process starts,
\* and every so many cycles.
sweepStaleRandomnessAccounts(p) ==
  /\ At(p, "startup") \/ At(p, "sweep")
  /\ Close(open \ {crank[p].rng})
  /\ Goto(p, IF At(p, "startup") THEN "loop" ELSE "read")
  /\ UNCHANGED <<request, stored, stops, races>>

NextCycle_NeverSweeps(p) ==
  /\ At(p, "loop")
  /\ crank' = [crank EXCEPT ![p] = IF @.shutdown THEN Down ELSE [@ EXCEPT !.pc = "read"]]
  /\ UNCHANGED <<chainVars, stored, faults, stops, races>>

NextCycle(p) ==
  LET cycle == (crank[p].cycle + 1) % PERIODIC_SWEEP_INTERVAL
  IN  /\ At(p, "loop")
      /\ IF crank[p].shutdown THEN crank' = [crank EXCEPT ![p] = Down]
         ELSE crank' = [crank EXCEPT ![p].cycle = cycle,
                                     ![p].pc = IF cycle = 0 THEN "sweep"
                                               ELSE "read"]
      /\ UNCHANGED <<chainVars, stored, faults, stops, races>>

\* Then the vault is topped up, unless the hourly cap forbids it.
readEpochState(p) ==
  /\ At(p, "read")
  /\ \/ Goto(p, IF request.pending THEN "begin" ELSE "wait")
     \/ Goto(p, "capped")
  /\ UNCHANGED <<chainVars, stored, faults, stops, races>>

\* Until the boundary that follows the epoch read.
waitForBoundary(p) ==
  /\ At(p, "wait")
  /\ request.due \/ crank[p].moved
  /\ crank' = [crank EXCEPT ![p].pc = "begin", ![p].moved = FALSE]
  /\ UNCHANGED <<chainVars, stored, faults, stops, races>>

\* The spending is recorded, an account made to recover becomes the persistent
\* one, an account that is not the persistent one is closed.
Done(p) ==
  LET k == crank[p]
      recovered == k.retry # NoKey /\ k.used = k.retry
      rng == IF recovered THEN k.retry ELSE k.rng
  IN  /\ At(p, "done")
      /\ \/ Goto(p, "capped") /\ UNCHANGED <<oracle, stored, faults>>
         \/ /\ Close(IF recovered THEN {k.rng} ELSE {k.used} \ {k.rng})
            /\ stored' \in IF recovered THEN {stored, rng} ELSE {stored}
            /\ crank' = [crank EXCEPT
                 ![p] = [k EXCEPT !.errors = 0, !.rng = rng, !.stale = NoKey,
                                  !.retry = NoKey, !.used = NoKey,
                                  !.pc = "loop"]]
      /\ UNCHANGED <<request, stops, races>>
--------------------------------------------------------------------------------
(***************************************************************************)
(* advanceEpochWithVRF: a pending request is recovered; otherwise the      *)
(* epoch is triggered.                                                     *)
(***************************************************************************)
Begin(p) ==
  /\ At(p, "begin")
  /\ IF request.pending
     THEN crank' = [crank EXCEPT ![p].pc = "reveal_stale",
                                 ![p].stale = request.bound]
     ELSE Goto(p, "create")
  /\ UNCHANGED <<chainVars, stored, faults, stops, races>>

createAccount(p) ==
  /\ At(p, "create")
  /\ oracle' = [oracle EXCEPT ![crank[p].rng] = IF @ = "closed" THEN "none" ELSE @]
  /\ Goto(p, "commit")
  /\ UNCHANGED <<request, stored, faults, stops, races>>

commitAndTrigger(p) ==
  /\ At(p, "commit")
  /\ IF CanTrigger(crank[p].rng)
     THEN /\ CommitTo(crank[p].rng)
          /\ request' = Bound(crank[p].rng)
          /\ Changed(p, [crank[p] EXCEPT !.pc = "reveal"])
     ELSE Throw(p) /\ UNCHANGED <<request, oracle, faults>>
  /\ UNCHANGED <<stored, stops, races>>

\* Without an answer the request's slot is read again.
tryReveal_NeverGivesUp(p) ==
  /\ At(p, "reveal")
  /\ CanReveal(crank[p].rng)
  /\ Goto(p, "consume")
  /\ UNCHANGED <<chainVars, stored, faults, stops, races>>

tryReveal(p) ==
  /\ At(p, "reveal")
  /\ Goto(p, IF CanReveal(crank[p].rng) THEN "consume" ELSE "timeout")
  /\ UNCHANGED <<chainVars, stored, faults, stops, races>>

revealAndConsume(p) ==
  /\ At(p, "consume")
  /\ IF CanConsume(crank[p].rng)
     THEN /\ request' = Consumed
          /\ Changed(p, [crank[p] EXCEPT !.pc = "done", !.used = crank[p].rng])
     ELSE Throw(p) /\ UNCHANGED request
  /\ UNCHANGED <<oracle, stored, faults, stops, races>>

tryRevealStale(p) ==
  /\ At(p, "reveal_stale")
  /\ Goto(p, IF CanReveal(crank[p].stale) THEN "consume_stale" ELSE "timeout")
  /\ UNCHANGED <<chainVars, stored, faults, stops, races>>

\* A failure is recognised as somebody else's success, or not.
consumeStale(p) ==
  /\ At(p, "consume_stale")
  /\ IF CanConsume(crank[p].stale)
     THEN /\ request' = Consumed
          /\ Changed(p, [crank[p] EXCEPT !.pc = "done", !.used = crank[p].stale,
                                         !.moved = FALSE])
     ELSE /\ \/ Goto(p, "timeout")
             \/ /\ ~request.pending
                /\ crank' = [crank EXCEPT ![p].pc = "done", ![p].moved = FALSE]
          /\ UNCHANGED request
  /\ UNCHANGED <<oracle, stored, faults, stops, races>>

\* Until the request read has timed out.
waitForTimeout_Blindly(p) ==
  /\ At(p, "timeout")
  /\ crank' = [crank EXCEPT ![p].pc = "recreate", ![p].moved = FALSE]
  /\ UNCHANGED <<chainVars, stored, faults, stops, races>>

waitForTimeout(p) ==
  /\ At(p, "timeout")
  /\ request.late \/ crank[p].moved \/ ~request.pending
  /\ crank' = [crank EXCEPT ![p].pc = "recreate", ![p].moved = FALSE]
  /\ UNCHANGED <<chainVars, stored, faults, stops, races>>

createFreshAccount(p) ==
  LET a == CHOOSE a \in Unused : TRUE
  IN  /\ At(p, "recreate")
      /\ Unused # {}
      /\ oracle' = [oracle EXCEPT ![a] = "none"]
      /\ crank' = [crank EXCEPT ![p].pc = "recommit", ![p].retry = a]
      /\ UNCHANGED <<request, stored, faults, stops, races>>

commitAndRetry(p) ==
  /\ At(p, "recommit")
  /\ IF CanRetry(crank[p].retry)
     THEN /\ CommitTo(crank[p].retry)
          /\ request' = Rebound(crank[p].retry)
          /\ Changed(p, [crank[p] EXCEPT !.pc = "reveal_retry"])
     ELSE Throw(p) /\ UNCHANGED <<request, oracle, faults>>
  /\ UNCHANGED <<stored, stops, races>>

\* Found no request to recover at first: the crank made the one that timed out,
\* and closes its account before the retry's value is consumed.
OwnRequest(p) == crank[p].stale = NoKey

tryRevealRetry(p) ==
  /\ At(p, "reveal_retry")
  /\ IF CanReveal(crank[p].retry)
     THEN /\ Goto(p, "consume_retry")
          /\ IF OwnRequest(p) THEN Close({crank[p].rng})
             ELSE UNCHANGED <<oracle, faults>>
     ELSE Throw(p) /\ UNCHANGED <<oracle, faults>>
  /\ UNCHANGED <<request, stored, stops, races>>

consumeRetry(p) ==
  LET k == crank[p]
  IN  /\ At(p, "consume_retry")
      /\ IF CanConsume(k.retry)
         THEN /\ request' = Consumed
              /\ Changed(p, [k EXCEPT !.pc = "done", !.used = k.retry])
              /\ IF OwnRequest(p) THEN UNCHANGED <<oracle, faults>>
                 ELSE Close({k.stale})
         ELSE /\ \/ Throw(p) /\ UNCHANGED <<oracle, faults>>
                 \/ /\ ~OwnRequest(p) /\ ~request.pending
                    /\ Goto(p, "done")
                    /\ Close({k.stale, k.retry})
              /\ UNCHANGED request
      /\ UNCHANGED <<stored, stops, races>>
--------------------------------------------------------------------------------
(***************************************************************************)
(* Faults.                                                                 *)
(***************************************************************************)
\* A call throws: an RPC error, a refused transaction, a wait that takes too
\* long.  A failed consumption of a stale request is caught.
CallFails(p) ==
  /\ crank[p].pc \notin {"down", "startup", "loop", "sweep", "done", "reveal_stale",
                         "halted", "capped"}
  /\ faults < MaxFaults
  /\ faults' = faults + 1
  /\ IF At(p, "consume_stale") THEN Goto(p, "timeout") ELSE Throw(p)
  /\ UNCHANGED <<chainVars, stored, stops, races>>

\* A transaction lands, and the call that sent it or waits for it throws all the
\* same.  An account is created, and nobody knows.
CreationThrows(p) ==
  /\ \/ At(p, "create") /\ oracle' = [oracle EXCEPT ![crank[p].rng] =
                                        IF @ = "closed" THEN "none" ELSE @]
     \/ /\ At(p, "recreate")
        /\ Unused # {}
        /\ oracle' = [oracle EXCEPT ![CHOOSE a \in Unused : TRUE] = "none"]
  /\ faults' = faults + 1
  /\ Throw(p)
  /\ UNCHANGED request

\* A request is made, and its crank does not wait for the oracle.
CommitThrows(p) ==
  \E a \in open, o \in {"answers", "dead"} :
    /\ \/ /\ At(p, "commit") /\ a = crank[p].rng
          /\ CanTrigger(a) /\ request' = Bound(a)
       \/ /\ At(p, "recommit") /\ a = crank[p].retry
          /\ CanRetry(a) /\ request' = Rebound(a)
    /\ oracle' = [oracle EXCEPT ![a] = o]
    /\ faults' = faults + (IF o = "dead" THEN 2 ELSE 1)
    /\ Changed(p, Failed(p))

\* A request is consumed, and its crank goes on as after a refused consumption.
ConsumptionThrows(p) ==
  /\ \/ At(p, "consume") /\ CanConsume(crank[p].rng)
     \/ At(p, "consume_stale") /\ CanConsume(crank[p].stale)
     \/ At(p, "consume_retry") /\ CanConsume(crank[p].retry)
  /\ request' = Consumed
  /\ faults' = faults + 1
  /\ Changed(p, crank[p])
  /\ UNCHANGED oracle

LandsThenThrows(p) ==
  /\ CreationThrows(p) \/ CommitThrows(p) \/ ConsumptionThrows(p)
  /\ faults' <= MaxFaults
  /\ UNCHANGED <<stored, stops, races>>

Crash(p) ==
  /\ ~At(p, "down")
  /\ stops < MaxStops
  /\ stops' = stops + 1
  /\ crank' = [crank EXCEPT ![p] = Down]
  /\ UNCHANGED <<chainVars, stored, faults, races>>

\* The signal closes the health server, which keeps a process alive whose loop
\* has ended.
Shutdown(p) ==
  /\ ~At(p, "down") /\ ~crank[p].shutdown
  /\ stops < MaxStops
  /\ stops' = stops + 1
  /\ crank' = IF crank[p].pc \in {"halted", "capped"}
              THEN [crank EXCEPT ![p] = Down]
              ELSE [crank EXCEPT ![p].shutdown = TRUE]
  /\ UNCHANGED <<chainVars, stored, faults, races>>
--------------------------------------------------------------------------------
Step(p) ==
  \/ sweepStaleRandomnessAccounts(p) \/ NextCycle(p) \/ readEpochState(p)
  \/ waitForBoundary(p) \/ Begin(p) \/ Done(p)
  \/ createAccount(p) \/ commitAndTrigger(p) \/ tryReveal(p) \/ revealAndConsume(p)
  \/ tryRevealStale(p) \/ consumeStale(p)
  \/ waitForTimeout(p) \/ createFreshAccount(p) \/ commitAndRetry(p)
  \/ tryRevealRetry(p) \/ consumeRetry(p)

CrankNext ==
  \/ BoundaryPasses \/ TimeoutPasses
  \/ RivalCommits \/ RivalConsumes
  \/ \E p \in Instance :
       \/ Start(p)
       \/ Step(p)
       \/ CallFails(p)
       \/ LandsThenThrows(p)
       \/ Crash(p)
       \/ Shutdown(p)

CrankSpec == InitCrank /\ [][CrankNext]_crankVars

\* Time passes, processes are started again and take their steps, and a sweep
\* closes everything every now and then.
FairCrankSpec ==
  /\ CrankSpec
  /\ WF_crankVars(BoundaryPasses)
  /\ WF_crankVars(TimeoutPasses)
  /\ \A p \in Instance :
       /\ WF_crankVars(Start(p))
       /\ WF_crankVars(Step(p))
--------------------------------------------------------------------------------
Stopped(p) == crank[p].pc \in {"halted", "capped"}
AllStopped == \A p \in Instance : Stopped(p)

\* The circuit breaker of a crank trips only if there were as many faults and
\* transactions of others as it tolerates: adopting a stale request, sweeping,
\* waiting and restarting add none of their own (the catch of the main loop).
\* It does not hold of two instances with different keys: their sweeps close each
\* other's accounts.
BreakersNeedFaults ==
  (\A p \in Instance : crank[p].pc = "halted") =>
    faults + races >= CIRCUIT_BREAKER_THRESHOLD

\* A boundary that has passed is followed by an epoch, and a request by its
\* consumption, whatever crashes, races and lost accounts there are, unless all
\* instances have stopped (advanceEpochWithVRF).
EpochsKeepAdvancing ==
  /\ request.due ~> ~request.due \/ AllStopped
  /\ request.pending ~> ~request.pending \/ AllStopped

\* An account that no process would use again is closed or adopted (CRANK-01, the
\* sweeps).
RandomnessIsReclaimed ==
  \A a \in Account :
    a \in open /\ (\A p \in Instance : crank[p].rng # a)
      ~> a \notin open \/ AllStopped \/ \E p \in Instance : crank[p].rng = a

================================================================================
