---------------------------- MODULE Crank_proofs ----------------------------
(***************************************************************************)
(* A theorem about the epoch crank, for any accounts, thresholds and       *)
(* numbers of faults, races and restarts: a crank that runs alone is       *)
(* halted by faults and the transactions of others only.                   *)
(***************************************************************************)
EXTENDS Crank, TLAPS

\* A fault, or a transaction of another, that no consecutive error of a process k
\* stands for yet.
Slack(k) == k.errors + 1 <= faults + races

Place ==
  {"down", "startup", "loop", "sweep", "read", "wait", "begin", "done", "create",
   "commit", "reveal", "consume", "reveal_stale", "consume_stale", "timeout",
   "recreate", "recommit", "reveal_retry", "consume_retry", "halted", "capped"}

Process ==
  [pc : Place,
   errors : Nat, cycle : Int,
   rng : Account \union {NoKey},
   stale : Account \union {NoKey, RivalAccount},
   retry : Account \union {NoKey},
   used : Account \union {NoKey, RivalAccount},
   moved : BOOLEAN, shutdown : BOOLEAN]

Request ==
  [pending : BOOLEAN, bound : Account \union {NoKey, RivalAccount},
   due : BOOLEAN, late : BOOLEAN]

Oracles ==
  [Account \union {RivalAccount} -> {"closed", "none", "answers", "dead"}]

ChainTyped ==
  /\ request \in Request
  /\ oracle \in Oracles
  /\ stored \in Account \union {NoKey}
  /\ faults \in Nat
  /\ races \in Nat

\* What a process may rely on where it stands, unless there is slack.
Relies(k) ==
  /\ k.moved => Slack(k)
  /\ k.pc = "begin" => (request.pending \/ request.due \/ Slack(k))
  /\ k.pc \in {"create", "commit"} =>
       ((~request.pending /\ request.due) \/ Slack(k))
  /\ k.pc \in {"reveal", "consume"} =>
       ((request.pending /\ request.bound = k.rng) \/ Slack(k))
  /\ k.pc \in {"reveal_stale", "consume_stale", "timeout"} =>
       (request.pending \/ Slack(k))
  /\ k.pc \in {"recreate", "recommit"} =>
       ((request.pending /\ request.late) \/ Slack(k))
  /\ k.pc \in {"reveal_retry", "consume_retry"} =>
       ((request.pending /\ request.bound = k.retry) \/ Slack(k))
  /\ k.pc = "reveal_retry" => (CanReveal(k.retry) \/ Slack(k))

\* The accounts it works with.
Accounts(k) ==
  /\ k.pc # "down" => k.rng \in Account
  /\ k.pc = "commit" => k.rng \in open
  /\ k.pc = "consume" => CanReveal(k.rng)
  /\ k.pc = "recommit" => k.retry \in open
  /\ k.pc \in {"recommit", "reveal_retry", "consume_retry"} =>
       (k.retry \in Account /\ k.retry # k.rng)
  /\ k.pc = "consume_retry" => CanReveal(k.retry)

\* There was a fault or a transaction of another for every consecutive error.
Counted(k) ==
  /\ k.errors <= faults + races
  /\ k.pc = "halted" => k.errors >= CIRCUIT_BREAKER_THRESHOLD

CrankInv ==
  /\ ChainTyped
  /\ crank \in [Instance -> Process]
  /\ \A p \in Instance :
       Relies(crank[p]) /\ Accounts(crank[p]) /\ Counted(crank[p])

--------------------------------------------------------------------------------
LEMMA Initially ==
  ASSUME CrankAssumption, InitCrank
  PROVE  CrankInv
<1>1. ChainTyped /\ crank \in [Instance -> Process]
  BY DEF CrankAssumption, InitCrank, ChainTyped, Request, Oracles, Process, Place, Down
<1>2. ASSUME NEW p \in Instance
      PROVE  Relies(crank[p]) /\ Accounts(crank[p]) /\ Counted(crank[p])
  BY <1>2 DEF InitCrank, Relies, Accounts, Counted, Down
<1> QED BY <1>1, <1>2 DEF CrankInv

\* What is known of a crank that runs alone, before a step.
LEMMA Standing ==
  ASSUME NEW p, Instance = {p}, CrankInv
  PROVE  /\ p \in Instance
         /\ ChainTyped
         /\ crank[p] \in Process
         /\ Relies(crank[p]) /\ Accounts(crank[p]) /\ Counted(crank[p])
BY DEF CrankInv

\* A step of it leaves the invariant, if the process it goes on as agrees with it.
LEMMA GoesOn ==
  ASSUME NEW p, Instance = {p}, CrankInv, NEW next \in Process,
         crank' = [crank EXCEPT ![p] = next],
         ChainTyped', Relies(next)', Accounts(next)', Counted(next)'
  PROVE  CrankInv'
<1>1. crank' \in [Instance -> Process] /\ crank'[p] = next
  BY DEF CrankInv
<1> QED BY <1>1 DEF CrankInv

LEMMA TimePasses ==
  ASSUME NEW p, Instance = {p}, CrankInv, BoundaryPasses \/ TimeoutPasses
  PROVE  CrankInv'
<1>1. /\ \/ request' = [request EXCEPT !.due = TRUE]
         \/ request.pending /\ request' = [request EXCEPT !.late = TRUE]
      /\ UNCHANGED <<oracle, stored, crank, faults, races>>
  BY DEF BoundaryPasses, TimeoutPasses
<1>2. ChainTyped'
  BY <1>1, Standing DEF ChainTyped, Request
<1>3. Relies(crank[p])'
  BY <1>1, Standing DEF ChainTyped, Request, Relies, Slack, CanReveal
<1>4. Accounts(crank[p])' /\ Counted(crank[p])'
  BY <1>1, Standing DEF Accounts, Counted, open, CanReveal
<1> QED BY <1>1, <1>2, <1>3, <1>4 DEF CrankInv

\* A transaction of another is one that the crank may blame its next error on.
LEMMA RivalKeeps ==
  ASSUME NEW p, Instance = {p}, CrankInv, CrankAssumption, RivalCommits \/ RivalConsumes
  PROVE  CrankInv'
<1>1. /\ races' = races + 1
      /\ crank' = [crank EXCEPT ![p] = Moved(crank[p])]
      /\ UNCHANGED <<stored, faults>>
  BY DEF RivalCommits, RivalConsumes, RivalBinds, CrankInv
<1>2. /\ oracle' \in Oracles
      /\ \A a \in Account : oracle'[a] = oracle[a]
  <2>1. CASE RivalCommits
    <3>1. PICK o \in {"answers", "dead"} : oracle' = [oracle EXCEPT ![RivalAccount] = o]
      BY <2>1 DEF RivalCommits
    <3> QED BY <3>1 DEF CrankInv, ChainTyped, Oracles, CrankAssumption
  <2>2. CASE RivalConsumes
    BY <2>2 DEF RivalConsumes, CrankInv, ChainTyped
  <2> QED BY <2>1, <2>2
<1>3. request' \in Request
  <2>1. \/ request' = Bound(RivalAccount) \/ request' = Rebound(RivalAccount)
        \/ request' = Consumed
    BY Zenon DEF RivalCommits, RivalConsumes, RivalBinds
  <2>2. CASE request' = Bound(RivalAccount)
    BY <2>2 DEF Bound, Request
  <2>3. CASE request' = Rebound(RivalAccount)
    BY <2>3 DEF Rebound, CrankInv, ChainTyped, Request
  <2>4. CASE request' = Consumed
    BY <2>4 DEF Consumed, CrankInv, ChainTyped, Request
  <2> QED BY <2>1, <2>2, <2>3, <2>4
<1>4. PICK m \in BOOLEAN : m = (crank[p].moved \/ crank[p].pc \in Reading)
  OBVIOUS
<1>5. PICK next \in Process : next = [crank[p] EXCEPT !.moved = m]
  BY Standing DEF Process
<1>6. crank' = [crank EXCEPT ![p] = next]
  BY <1>1, <1>4, <1>5 DEF Moved
<1>7. /\ next.errors = crank[p].errors /\ next.pc = crank[p].pc
      /\ next.rng = crank[p].rng /\ next.retry = crank[p].retry
  BY <1>5, Standing DEF Process
<1>8. next.errors \in Nat /\ next.errors + 1 <= faults' + races'
  BY <1>1, <1>7, Standing DEF Counted, ChainTyped, Process
<1>9. Relies(next)'
  BY <1>8 DEF Relies, Slack
<1>10. Accounts(next)'
  BY <1>2, <1>7, Standing DEF Accounts, open, CanReveal
<1>11. Counted(next)'
  BY <1>1, <1>7, <1>8, Standing DEF Counted, ChainTyped
<1>12. ChainTyped'
  BY <1>1, <1>2, <1>3, Standing DEF ChainTyped
<1> QED BY <1>6, <1>9, <1>10, <1>11, <1>12, GoesOn

\* An error that a fault or a transaction of another explains.
LEMMA ThrowKeeps ==
  ASSUME NEW p, Instance = {p}, CrankInv, Throw(p), crank[p].pc # "down",
         request' \in Request, oracle' \in Oracles, UNCHANGED <<stored, races>>,
         faults' \in Nat, faults' >= faults, crank[p].errors + 1 <= faults' + races
  PROVE  CrankInv'
<1>1. PICK next \in Process :
        /\ next = Failed(p)
        /\ next.errors = crank[p].errors + 1
        /\ next.moved = FALSE
        /\ next.rng = crank[p].rng
        /\ next.pc = IF crank[p].errors + 1 >= CIRCUIT_BREAKER_THRESHOLD THEN "halted" ELSE "loop"
  <2>1. PICK pc \in {"halted", "loop"} :
          pc = IF crank[p].errors + 1 >= CIRCUIT_BREAKER_THRESHOLD THEN "halted" ELSE "loop"
    OBVIOUS
  <2>2. Failed(p) = [crank[p] EXCEPT !.errors = crank[p].errors + 1, !.stale = NoKey,
                                     !.retry = NoKey, !.moved = FALSE, !.pc = pc]
    BY <2>1 DEF Failed
  <2>3. crank[p] \in Process
    BY Standing
  <2>4. Failed(p) \in Process
    <3>1. PICK no \in BOOLEAN : no = FALSE
      OBVIOUS
    <3>2. Failed(p) = [crank[p] EXCEPT !.errors = crank[p].errors + 1, !.stale = NoKey,
                                       !.retry = NoKey, !.moved = no, !.pc = pc]
      BY <2>2, <3>1
    <3>3. crank[p].errors + 1 \in Nat /\ pc \in Place
      BY <2>3 DEF Process, Place
    <3> QED BY <2>3, <3>2, <3>3 DEF Process
  <2>5. /\ Failed(p).errors = crank[p].errors + 1
        /\ Failed(p).moved = FALSE
        /\ Failed(p).rng = crank[p].rng
        /\ Failed(p).pc = pc
    BY <2>2, <2>3 DEF Process
  <2> QED BY <2>1, <2>4, <2>5
<1>2. crank' = [crank EXCEPT ![p] = next]
  BY <1>1 DEF Throw
<1>3. Relies(next)'
  BY <1>1 DEF Relies
<1>4. Accounts(next)'
  BY <1>1, Standing DEF Accounts
<1>5. Counted(next)'
  BY <1>1, Standing DEF Counted, ChainTyped
<1>6. ChainTyped'
  BY Standing DEF ChainTyped
<1> QED BY <1>2, <1>3, <1>4, <1>5, <1>6, GoesOn

LEMMA Goes ==
  ASSUME NEW p, Instance = {p}, CrankInv, NEW pc \in Place, Goto(p, pc)
  PROVE  \E next \in Process :
           /\ next = [crank[p] EXCEPT !.pc = pc]
           /\ crank' = [crank EXCEPT ![p] = next]
<1>1. [crank[p] EXCEPT !.pc = pc] \in Process
  BY Standing DEF Process
<1>2. crank' = [crank EXCEPT ![p] = [crank[p] EXCEPT !.pc = pc]]
  BY Standing DEF Goto, Process
<1> QED BY <1>1, <1>2

\* Accounts that are closed are accounts of the set.
LEMMA Closing ==
  ASSUME ChainTyped, MaxFaults \in Nat, NEW accounts, Close(accounts)
  PROVE  /\ oracle' \in Oracles
         /\ \A a \in Account : a \notin accounts => oracle'[a] = oracle[a]
         /\ faults' \in Nat /\ faults' >= faults
BY DEF ChainTyped, Close, Oracles

LEMMA Committing ==
  ASSUME ChainTyped, NEW a \in Account, CommitTo(a)
  PROVE  /\ oracle' \in Oracles
         /\ faults' \in Nat /\ faults' >= faults
         /\ oracle'[a] = "answers" \/ faults' = faults + 1
BY DEF ChainTyped, CommitTo, Oracles

LEMMA StartKeeps ==
  ASSUME NEW p, Instance = {p}, CrankInv, Start(p)
  PROVE  CrankInv'
<1>1. PICK key : key = IF stored = NoKey THEN CHOOSE a \in Unused : TRUE ELSE stored
  OBVIOUS
<1>2. key \in Account
  <2>1. CASE stored = NoKey
    <3>1. \E a : a \in Unused
      BY <2>1 DEF Start
    <3>2. key \in Unused
      BY <1>1, <2>1, <3>1
    <3> QED BY <3>2 DEF Unused
  <2>2. CASE stored # NoKey
    BY <1>1, <2>2, Standing DEF ChainTyped
  <2> QED BY <2>1, <2>2
<1>3. PICK next \in Process : next = [Down EXCEPT !.pc = "startup", !.rng = key]
  <2>1. Down \in Process
    BY DEF Down, Process, Place
  <2>2. [Down EXCEPT !.pc = "startup", !.rng = key] \in Process
    BY <1>2, <2>1 DEF Process, Place
  <2> QED BY <2>2
<1>4. crank' = [crank EXCEPT ![p] = next] /\ stored' \in {stored, key}
      /\ UNCHANGED <<request, oracle, faults, races>>
  BY <1>1, <1>3 DEF Start, chainVars
<1>5. ChainTyped'
  BY <1>2, <1>4, Standing DEF ChainTyped
<1>6. Relies(next)' /\ Accounts(next)'
  BY <1>2, <1>3 DEF Down, Relies, Accounts
<1>7. Counted(next)'
  BY <1>3, <1>4, Standing DEF Down, Counted, ChainTyped
<1> QED BY <1>4, <1>5, <1>6, <1>7, GoesOn

LEMMA SweepKeeps ==
  ASSUME NEW p, Instance = {p}, CrankInv, CrankAssumption, sweepStaleRandomnessAccounts(p)
  PROVE  CrankInv'
<1>1. PICK pc \in {"loop", "read"} : Goto(p, pc)
  BY DEF sweepStaleRandomnessAccounts
<1>2. PICK next \in Process :
        next = [crank[p] EXCEPT !.pc = pc] /\ crank' = [crank EXCEPT ![p] = next]
  BY <1>1, Goes DEF Place
<1>3. /\ oracle' \in Oracles
      /\ faults' \in Nat /\ faults' >= faults
      /\ UNCHANGED <<request, stored, races>>
  BY Closing, Standing DEF sweepStaleRandomnessAccounts, CrankAssumption
<1>4. ChainTyped'
  BY <1>3, Standing DEF ChainTyped
<1>5. crank[p].pc \in {"startup", "sweep"}
  BY DEF sweepStaleRandomnessAccounts, At
<1>6. Relies(next)'
  BY <1>1, <1>2, <1>3, Standing DEF Relies, Slack, Process, ChainTyped
<1>7. Accounts(next)'
  BY <1>1, <1>2, <1>5, Standing DEF Accounts, Process
<1>8. Counted(next)'
  BY <1>1, <1>2, <1>3, <1>5, Standing DEF Counted, Process, ChainTyped
<1> QED BY <1>2, <1>4, <1>6, <1>7, <1>8, GoesOn

LEMMA NextCycleKeeps ==
  ASSUME NEW p, Instance = {p}, CrankInv, CrankAssumption, NextCycle(p)
  PROVE  CrankInv'
<1>1. PICK next \in Process :
        /\ crank' = [crank EXCEPT ![p] = next]
        /\ \/ next = Down
           \/ /\ next.pc \in {"sweep", "read"} /\ next.rng = crank[p].rng
              /\ next.errors = crank[p].errors /\ next.moved = crank[p].moved
  <2>1. CASE crank[p].shutdown
    <3>1. Down \in Process
      BY DEF Down, Process, Place
    <3>2. crank' = [crank EXCEPT ![p] = Down]
      BY <2>1 DEF NextCycle
    <3> QED BY <3>1, <3>2
  <2>2. CASE ~crank[p].shutdown
    <3>1. PICK cycle \in Int : cycle = (crank[p].cycle + 1) % PERIODIC_SWEEP_INTERVAL
      BY Standing DEF Process, CrankAssumption
    <3>2. PICK pc \in {"sweep", "read"} : pc = IF cycle = 0 THEN "sweep" ELSE "read"
      OBVIOUS
    <3>3. crank' = [crank EXCEPT ![p] = [crank[p] EXCEPT !.cycle = cycle, !.pc = pc]]
      BY <2>2, <3>1, <3>2, Standing DEF NextCycle, Process
    <3>4. PICK next : next = [crank[p] EXCEPT !.cycle = cycle, !.pc = pc]
      OBVIOUS
    <3>5. /\ next \in Process /\ next.pc = pc /\ next.rng = crank[p].rng
          /\ next.errors = crank[p].errors /\ next.moved = crank[p].moved
      BY <3>4, Standing DEF Process, Place
    <3> QED BY <3>3, <3>4, <3>5
  <2> QED BY <2>1, <2>2
<1>2. UNCHANGED <<request, oracle, stored, faults, races>> /\ crank[p].pc = "loop"
  BY DEF NextCycle, chainVars, At
<1>3. ChainTyped'
  BY <1>2, Standing DEF ChainTyped
<1>4. Relies(next)'
  BY <1>1, <1>2, Standing DEF Relies, Slack, Down
<1>5. Accounts(next)'
  BY <1>1, <1>2, Standing DEF Accounts, Down
<1>6. Counted(next)'
  BY <1>1, <1>2, Standing DEF Counted, Down, ChainTyped
<1> QED BY <1>1, <1>3, <1>4, <1>5, <1>6, GoesOn

\* A look at the chain that changes nothing.
LEMMA LookKeeps ==
  ASSUME NEW p, Instance = {p}, CrankInv,
         readEpochState(p) \/ tryReveal(p) \/ tryRevealStale(p)
  PROVE  CrankInv'
<1>1. /\ crank[p].pc \in {"read", "reveal", "reveal_stale"}
      /\ UNCHANGED <<request, oracle, stored, faults, races>>
  BY DEF readEpochState, tryReveal, tryRevealStale, At, chainVars
<1>2. PICK pc \in {"begin", "wait", "capped", "consume", "timeout", "consume_stale"} :
        /\ Goto(p, pc)
        /\ pc = "begin" => request.pending
        /\ pc \in {"consume", "timeout"} => crank[p].pc \in {"reveal", "reveal_stale"}
        /\ pc = "consume" => crank[p].pc = "reveal" /\ CanReveal(crank[p].rng)
        /\ pc = "consume_stale" => crank[p].pc = "reveal_stale"
  BY DEF readEpochState, tryReveal, tryRevealStale, At
<1>3. PICK next \in Process :
        next = [crank[p] EXCEPT !.pc = pc] /\ crank' = [crank EXCEPT ![p] = next]
  BY <1>2, Goes DEF Place
<1>4. /\ next.pc = pc /\ next.rng = crank[p].rng
      /\ next.errors = crank[p].errors /\ next.moved = crank[p].moved
  BY <1>3, Standing DEF Process
<1>5. ChainTyped'
  BY <1>1, Standing DEF ChainTyped
<1>6. Relies(next)'
  BY <1>1, <1>2, <1>4, Standing DEF Relies, Slack
<1>7. Accounts(next)'
  BY <1>1, <1>2, <1>4, Standing DEF Accounts, CanReveal
<1>8. Counted(next)'
  BY <1>1, <1>4, Standing DEF Counted
<1> QED BY <1>3, <1>5, <1>6, <1>7, <1>8, GoesOn

\* A wait, or the beginning of a recovery.
LEMMA WaitKeeps ==
  ASSUME NEW p, Instance = {p}, CrankInv, CrankAssumption,
         waitForBoundary(p) \/ waitForTimeout(p)
  PROVE  CrankInv'
<1>1. UNCHANGED <<request, oracle, stored, faults, races>>
  BY DEF waitForBoundary, waitForTimeout, chainVars
<1>2. PICK pc \in {"begin", "recreate"} :
        /\ crank' = [crank EXCEPT ![p].pc = pc, ![p].moved = FALSE]
        /\ pc = "begin" => crank[p].pc = "wait" /\ (request.due \/ crank[p].moved)
        /\ pc = "recreate" => /\ crank[p].pc = "timeout"
                              /\ request.late \/ crank[p].moved \/ ~request.pending
  BY DEF waitForBoundary, waitForTimeout, At
<1>3. PICK no \in BOOLEAN : no = FALSE
  OBVIOUS
<1>4. PICK next : next = [crank[p] EXCEPT !.pc = pc, !.moved = no]
  OBVIOUS
<1>5. /\ next \in Process
      /\ next.pc = pc /\ next.rng = crank[p].rng /\ next.errors = crank[p].errors
      /\ ~next.moved
  BY <1>3, <1>4, Standing DEF Process, Place
<1>6. crank' = [crank EXCEPT ![p] = next]
  BY <1>2, <1>3, <1>4, Standing DEF Process
<1>7. ChainTyped'
  BY <1>1, Standing DEF ChainTyped
<1>8. Relies(next)'
  BY <1>1, <1>2, <1>5, Standing DEF Relies, Slack
<1>9. Accounts(next)'
  BY <1>1, <1>2, <1>5, Standing DEF Accounts
<1>10. Counted(next)'
  BY <1>1, <1>5, Standing DEF Counted
<1> QED BY <1>5, <1>6, <1>7, <1>8, <1>9, <1>10, GoesOn

LEMMA BeginKeeps ==
  ASSUME NEW p, Instance = {p}, CrankInv, Begin(p)
  PROVE  CrankInv'
<1>1. UNCHANGED <<request, oracle, stored, faults, races>> /\ crank[p].pc = "begin"
  BY DEF Begin, chainVars, At
<1>2. PICK next \in Process :
        /\ crank' = [crank EXCEPT ![p] = next]
        /\ next.rng = crank[p].rng /\ next.errors = crank[p].errors
        /\ next.moved = crank[p].moved
        /\ \/ next.pc = "reveal_stale" /\ request.pending
           \/ next.pc = "create" /\ ~request.pending
  <2>1. CASE request.pending
    <3>1. PICK next : next = [crank[p] EXCEPT !.pc = "reveal_stale", !.stale = request.bound]
      OBVIOUS
    <3>2. /\ next \in Process
          /\ next.rng = crank[p].rng /\ next.errors = crank[p].errors
          /\ next.moved = crank[p].moved /\ next.pc = "reveal_stale"
      BY <3>1, Standing DEF Process, Place, ChainTyped, Request
    <3>3. crank' = [crank EXCEPT ![p] = next]
      BY <2>1, <3>1, Standing DEF Begin, Process
    <3> QED BY <2>1, <3>2, <3>3
  <2>2. CASE ~request.pending
    <3>1. PICK next \in Process :
            next = [crank[p] EXCEPT !.pc = "create"] /\ crank' = [crank EXCEPT ![p] = next]
      BY <2>2, Goes DEF Begin, Place
    <3>2. /\ next.rng = crank[p].rng /\ next.errors = crank[p].errors
          /\ next.moved = crank[p].moved /\ next.pc = "create"
      BY <3>1, Standing DEF Process
    <3> QED BY <2>2, <3>1, <3>2
  <2> QED BY <2>1, <2>2
<1>3. ChainTyped'
  BY <1>1, Standing DEF ChainTyped
<1>4. Relies(next)'
  BY <1>1, <1>2, Standing DEF Relies, Slack
<1>5. Accounts(next)' /\ Counted(next)'
  BY <1>1, <1>2, Standing DEF Accounts, Counted
<1> QED BY <1>2, <1>3, <1>4, <1>5, GoesOn

LEMMA DoneKeeps ==
  ASSUME NEW p, Instance = {p}, CrankInv, CrankAssumption, Done(p)
  PROVE  CrankInv'
<1>1. crank[p].pc = "done" /\ UNCHANGED <<request, races>>
  BY DEF Done, At
<1>2. /\ oracle' \in Oracles
      /\ faults' \in Nat /\ faults' >= faults
  BY Closing, Standing DEF Done, CrankAssumption, ChainTyped
<1>3. PICK next \in Process :
        /\ crank' = [crank EXCEPT ![p] = next]
        /\ next.rng \in Account /\ next.errors <= crank[p].errors
        /\ next.moved = crank[p].moved
        /\ next.pc \in {"capped", "loop"}
        /\ stored' \in {stored, next.rng}
  <2>1. CASE Goto(p, "capped") /\ UNCHANGED <<oracle, stored, faults>>
    <3>1. PICK next \in Process :
            next = [crank[p] EXCEPT !.pc = "capped"] /\ crank' = [crank EXCEPT ![p] = next]
      BY <2>1, Goes DEF Place
    <3>2. /\ next.rng \in Account /\ next.errors = crank[p].errors
          /\ next.moved = crank[p].moved /\ next.pc = "capped"
          /\ crank[p].errors \in Nat
      BY <1>1, <3>1, Standing DEF Process, Accounts
    <3>3. next.errors <= crank[p].errors
      BY <3>2
    <3>4. stored' \in {stored, next.rng} /\ next.pc \in {"capped", "loop"}
      BY <2>1, <3>2
    <3> QED BY Zenon, <3>1, <3>2, <3>3, <3>4
  <2>2. CASE ~(Goto(p, "capped") /\ UNCHANGED <<oracle, stored, faults>>)
    <3>1. PICK rng : rng = IF crank[p].retry # NoKey /\ crank[p].used = crank[p].retry
                           THEN crank[p].retry ELSE crank[p].rng
      OBVIOUS
    <3>2. rng \in Account
      BY <1>1, <3>1, Standing DEF Accounts, Process
    <3>3. PICK next : next = [crank[p] EXCEPT !.errors = 0, !.rng = rng, !.stale = NoKey,
                                              !.retry = NoKey, !.used = NoKey, !.pc = "loop"]
      OBVIOUS
    <3>4. crank' = [crank EXCEPT ![p] = next] /\ stored' \in {stored, rng}
      BY <2>2, <3>1, <3>3 DEF Done
    <3>5. /\ next \in Process /\ next.rng = rng /\ next.errors = 0
          /\ next.moved = crank[p].moved /\ next.pc = "loop" /\ crank[p].errors \in Nat
      BY <3>2, <3>3, Standing DEF Process, Place
    <3>6. next.errors <= crank[p].errors
      BY <3>5
    <3>7. stored' \in {stored, next.rng} /\ next.pc \in {"capped", "loop"} /\ next.rng \in Account
      BY <3>2, <3>4, <3>5
    <3> QED BY Zenon, <3>4, <3>5, <3>6, <3>7
  <2> QED BY <2>1, <2>2
<1>4. ChainTyped'
  BY <1>1, <1>2, <1>3, Standing DEF ChainTyped
<1>5. Relies(next)'
  BY <1>1, <1>2, <1>3, Standing DEF Relies, Slack, ChainTyped, Process
<1>6. Accounts(next)'
  BY <1>3 DEF Accounts
<1>7. Counted(next)'
  BY <1>1, <1>2, <1>3, Standing DEF Counted, ChainTyped, Process
<1> QED BY <1>3, <1>4, <1>5, <1>6, <1>7, GoesOn

LEMMA CreateKeeps ==
  ASSUME NEW p, Instance = {p}, CrankInv, createAccount(p)
  PROVE  CrankInv'
<1>1. /\ crank[p].pc = "create" /\ Goto(p, "commit")
      /\ UNCHANGED <<request, stored, faults, races>>
  BY DEF createAccount, At
<1>2. PICK next \in Process :
        next = [crank[p] EXCEPT !.pc = "commit"] /\ crank' = [crank EXCEPT ![p] = next]
  BY <1>1, Goes DEF Place
<1>3. /\ next.pc = "commit" /\ next.rng = crank[p].rng
      /\ next.errors = crank[p].errors /\ next.moved = crank[p].moved
  BY <1>2, Standing DEF Process
<1>4. next.rng \in Account
  BY <1>1, <1>3, Standing DEF Accounts
<1>5. oracle' \in Oracles /\ oracle'[next.rng] # "closed"
  BY <1>3, <1>4, Standing DEF createAccount, ChainTyped, Oracles
<1>6. ChainTyped'
  BY <1>1, <1>5, Standing DEF ChainTyped
<1>7. Relies(next)'
  BY <1>1, <1>3, Standing DEF Relies, Slack
<1>8. Accounts(next)' /\ Counted(next)'
  BY <1>1, <1>3, <1>4, <1>5, Standing DEF Accounts, Counted, open
<1> QED BY <1>2, <1>6, <1>7, <1>8, GoesOn

LEMMA RecreateKeeps ==
  ASSUME NEW p, Instance = {p}, CrankInv, createFreshAccount(p)
  PROVE  CrankInv'
<1>1. PICK a : a = CHOOSE b \in Unused : TRUE
  OBVIOUS
<1>2. a \in Account /\ a # crank[p].rng
  <2>1. \E b : b \in Unused
    BY DEF createFreshAccount
  <2>2. a \in Unused
    BY <1>1, <2>1
  <2> QED BY <2>2 DEF Unused
<1>3. /\ crank[p].pc = "recreate"
      /\ oracle' = [oracle EXCEPT ![a] = "none"]
      /\ crank' = [crank EXCEPT ![p].pc = "recommit", ![p].retry = a]
      /\ UNCHANGED <<request, stored, faults, races>>
  BY <1>1 DEF createFreshAccount, At
<1>4. PICK next : next = [crank[p] EXCEPT !.pc = "recommit", !.retry = a]
  OBVIOUS
<1>5. /\ next \in Process
      /\ next.pc = "recommit" /\ next.rng = crank[p].rng /\ next.retry = a
      /\ next.errors = crank[p].errors /\ next.moved = crank[p].moved
  BY <1>2, <1>4, Standing DEF Process, Place
<1>6. crank' = [crank EXCEPT ![p] = next]
  BY <1>3, <1>4, Standing DEF Process
<1>7. oracle' \in Oracles /\ oracle'[a] # "closed"
  BY <1>2, <1>3, Standing DEF ChainTyped, Oracles
<1>8. ChainTyped'
  BY <1>3, <1>7, Standing DEF ChainTyped
<1>9. Relies(next)'
  BY <1>3, <1>5, Standing DEF Relies, Slack
<1>10. Accounts(next)' /\ Counted(next)'
  BY <1>2, <1>3, <1>5, <1>7, Standing DEF Accounts, Counted, open
<1> QED BY <1>5, <1>6, <1>8, <1>9, <1>10, GoesOn

\* A transaction of p that changes the request: p goes on, and nobody else is there.
LEMMA ChangesGoOn ==
  ASSUME NEW p, Instance = {p}, CrankInv, NEW next, Changed(p, next)
  PROVE  crank' = [crank EXCEPT ![p] = next]
BY DEF Changed, CrankInv

LEMMA CommitKeeps ==
  ASSUME NEW p, Instance = {p}, CrankInv, commitAndTrigger(p)
  PROVE  CrankInv'
<1>1. crank[p].pc = "commit" /\ UNCHANGED <<stored, races>>
  BY DEF commitAndTrigger, At
<1>2. CASE CanTrigger(crank[p].rng)
  <2>1. crank[p].rng \in Account
    BY <1>1, Standing DEF Accounts
  <2>2. /\ oracle' \in Oracles
        /\ faults' \in Nat /\ faults' >= faults
    BY <1>2, <2>1, Committing, Standing DEF commitAndTrigger
  <2>3. request' = Bound(crank[p].rng)
    BY <1>2 DEF commitAndTrigger
  <2>4. request' \in Request /\ request'.pending /\ request'.bound = crank[p].rng
    BY <2>1, <2>3 DEF Bound, Request
  <2>5. PICK next : next = [crank[p] EXCEPT !.pc = "reveal"]
    OBVIOUS
  <2>6. /\ next \in Process
        /\ next.pc = "reveal" /\ next.rng = crank[p].rng
        /\ next.errors = crank[p].errors /\ next.moved = crank[p].moved
    BY <2>5, Standing DEF Process, Place
  <2>7. crank' = [crank EXCEPT ![p] = next]
    BY <1>2, <2>5, ChangesGoOn DEF commitAndTrigger
  <2>8. ChainTyped'
    BY <1>1, <2>2, <2>4, Standing DEF ChainTyped
  <2>9. Relies(next)'
    BY <1>1, <2>2, <2>4, <2>6, Standing DEF Relies, Slack, ChainTyped, Process
  <2>10. Accounts(next)'
    BY <2>1, <2>6 DEF Accounts
  <2>11. Counted(next)'
    BY <1>1, <2>2, <2>6, Standing DEF Counted, ChainTyped, Process
  <2> QED BY <2>6, <2>7, <2>8, <2>9, <2>10, <2>11, GoesOn
<1>3. CASE ~CanTrigger(crank[p].rng)
  <2>1. Throw(p) /\ UNCHANGED <<request, oracle, faults>>
    BY <1>3 DEF commitAndTrigger
  <2>2. Slack(crank[p])
    BY <1>1, <1>3, Standing DEF CanTrigger, Relies, Accounts
  <2> QED BY <1>1, <2>1, <2>2, Standing, ThrowKeeps DEF Slack, ChainTyped
<1> QED BY <1>2, <1>3

LEMMA ConsumeKeeps ==
  ASSUME NEW p, Instance = {p}, CrankInv, revealAndConsume(p)
  PROVE  CrankInv'
<1>1. crank[p].pc = "consume" /\ UNCHANGED <<oracle, stored, faults, races>>
  BY DEF revealAndConsume, At, chainVars
<1>2. CASE CanConsume(crank[p].rng)
  <2>1. crank[p].rng \in Account
    BY <1>1, Standing DEF Accounts
  <2>2. request' \in Request
    BY <1>2, Standing DEF revealAndConsume, Consumed, ChainTyped, Request
  <2>3. PICK next : next = [crank[p] EXCEPT !.pc = "done", !.used = crank[p].rng]
    OBVIOUS
  <2>4. /\ next \in Process
        /\ next.pc = "done" /\ next.rng = crank[p].rng
        /\ next.errors = crank[p].errors /\ next.moved = crank[p].moved
    BY <2>1, <2>3, Standing DEF Process, Place
  <2>5. crank' = [crank EXCEPT ![p] = next]
    BY <1>2, <2>3, ChangesGoOn DEF revealAndConsume
  <2>6. ChainTyped'
    BY <1>1, <2>2, Standing DEF ChainTyped
  <2>7. Relies(next)' /\ Accounts(next)' /\ Counted(next)'
    BY <1>1, <2>1, <2>4, Standing DEF Relies, Slack, Accounts, Counted
  <2> QED BY <2>4, <2>5, <2>6, <2>7, GoesOn
<1>3. CASE ~CanConsume(crank[p].rng)
  <2>1. Throw(p) /\ UNCHANGED <<request, oracle, faults>>
    BY <1>1, <1>3 DEF revealAndConsume
  <2>2. Slack(crank[p])
    BY <1>1, <1>3, Standing DEF CanConsume, Relies, Accounts
  <2> QED BY <1>1, <2>1, <2>2, Standing, ThrowKeeps DEF Slack, ChainTyped
<1> QED BY <1>2, <1>3

LEMMA ConsumeStaleKeeps ==
  ASSUME NEW p, Instance = {p}, CrankInv, consumeStale(p)
  PROVE  CrankInv'
<1>1. crank[p].pc = "consume_stale" /\ UNCHANGED <<oracle, stored, faults, races>>
  BY DEF consumeStale, At, chainVars
<1>2. PICK no \in BOOLEAN : no = FALSE
  OBVIOUS
<1>3. PICK next \in Process :
        /\ crank' = [crank EXCEPT ![p] = next]
        /\ next.rng = crank[p].rng /\ next.errors = crank[p].errors
        /\ \/ next.pc = "done" /\ request' \in Request /\ ~next.moved
           \/ next.pc = "timeout" /\ request' = request /\ next.moved = crank[p].moved
  <2>1. CASE CanConsume(crank[p].stale)
    <3>1. request' \in Request
      BY <2>1, Standing DEF consumeStale, Consumed, ChainTyped, Request
    <3>2. PICK next : next = [crank[p] EXCEPT !.pc = "done", !.used = crank[p].stale,
                                              !.moved = no]
      OBVIOUS
    <3>3. crank' = [crank EXCEPT ![p] = next]
      BY <1>2, <2>1, <3>2, ChangesGoOn DEF consumeStale
    <3>4. /\ next \in Process /\ next.pc = "done" /\ ~next.moved
          /\ next.rng = crank[p].rng /\ next.errors = crank[p].errors
      BY <1>2, <3>2, Standing DEF Process, Place
    <3> QED BY <3>1, <3>3, <3>4
  <2>2. CASE ~CanConsume(crank[p].stale) /\ Goto(p, "timeout")
    <3>1. PICK next \in Process :
            next = [crank[p] EXCEPT !.pc = "timeout"] /\ crank' = [crank EXCEPT ![p] = next]
      BY <2>2, Goes DEF Place
    <3>2. /\ next.pc = "timeout" /\ next.moved = crank[p].moved
          /\ next.rng = crank[p].rng /\ next.errors = crank[p].errors
      BY <3>1, Standing DEF Process
    <3>3. request' = request
      BY <2>2 DEF consumeStale
    <3> QED BY <3>1, <3>2, <3>3
  <2>3. CASE ~CanConsume(crank[p].stale) /\ ~Goto(p, "timeout")
    <3>1. PICK next : next = [crank[p] EXCEPT !.pc = "done", !.moved = no]
      OBVIOUS
    <3>2. crank' = [crank EXCEPT ![p] = next] /\ request' = request
      BY <1>2, <2>3, <3>1, Standing DEF consumeStale, Process
    <3>3. /\ next \in Process /\ next.pc = "done" /\ ~next.moved
          /\ next.rng = crank[p].rng /\ next.errors = crank[p].errors
      BY <1>2, <3>1, Standing DEF Process, Place
    <3> QED BY <3>2, <3>3, Standing DEF ChainTyped
  <2> QED BY <2>1, <2>2, <2>3
<1>4. ChainTyped'
  BY <1>1, <1>3, Standing DEF ChainTyped
<1>5. Relies(next)'
  BY <1>1, <1>3, Standing DEF Relies, Slack
<1>6. Accounts(next)' /\ Counted(next)'
  BY <1>1, <1>3, Standing DEF Accounts, Counted
<1> QED BY <1>3, <1>4, <1>5, <1>6, GoesOn

LEMMA RecommitKeeps ==
  ASSUME NEW p, Instance = {p}, CrankInv, commitAndRetry(p)
  PROVE  CrankInv'
<1>1. crank[p].pc = "recommit" /\ UNCHANGED <<stored, races>>
  BY DEF commitAndRetry, At
<1>2. CASE CanRetry(crank[p].retry)
  <2>1. /\ crank[p].rng \in Account /\ crank[p].retry \in Account
        /\ crank[p].retry # crank[p].rng
    BY <1>1, Standing DEF Accounts
  <2>2. /\ oracle' \in Oracles
        /\ faults' \in Nat /\ faults' >= faults
        /\ oracle'[crank[p].retry] = "answers" \/ faults' = faults + 1
    BY <1>2, <2>1, Committing, Standing DEF commitAndRetry
  <2>3. request' = Rebound(crank[p].retry)
    BY <1>2 DEF commitAndRetry
  <2>4. request' \in Request /\ request'.pending /\ request'.bound = crank[p].retry
    BY <1>2, <2>1, <2>3, Standing DEF Rebound, ChainTyped, Request, CanRetry
  <2>5. PICK next : next = [crank[p] EXCEPT !.pc = "reveal_retry"]
    OBVIOUS
  <2>6. /\ next \in Process
        /\ next.pc = "reveal_retry" /\ next.rng = crank[p].rng /\ next.retry = crank[p].retry
        /\ next.errors = crank[p].errors /\ next.moved = crank[p].moved
    BY <2>5, Standing DEF Process, Place
  <2>7. crank' = [crank EXCEPT ![p] = next]
    BY <1>2, <2>5, ChangesGoOn DEF commitAndRetry
  <2>8. ChainTyped'
    BY <1>1, <2>2, <2>4, Standing DEF ChainTyped
  <2>9. CanReveal(next.retry)' \/ Slack(next)'
    BY <1>1, <2>2, <2>6, Standing DEF CanReveal, Slack, Counted, ChainTyped, Process
  <2>10. Relies(next)'
    BY <1>1, <2>2, <2>4, <2>6, <2>9, Standing DEF Relies, Slack, ChainTyped, Process
  <2>11. Accounts(next)'
    BY <2>1, <2>6 DEF Accounts
  <2>12. Counted(next)'
    BY <1>1, <2>2, <2>6, Standing DEF Counted, ChainTyped, Process
  <2> QED BY <2>6, <2>7, <2>8, <2>10, <2>11, <2>12, GoesOn
<1>3. CASE ~CanRetry(crank[p].retry)
  <2>1. Throw(p) /\ UNCHANGED <<request, oracle, faults>>
    BY <1>3 DEF commitAndRetry
  <2>2. Slack(crank[p])
    BY <1>1, <1>3, Standing DEF CanRetry, Relies, Accounts
  <2> QED BY <1>1, <2>1, <2>2, Standing, ThrowKeeps DEF Slack, ChainTyped
<1> QED BY <1>2, <1>3

LEMMA RevealRetryKeeps ==
  ASSUME NEW p, Instance = {p}, CrankInv, CrankAssumption, tryRevealRetry(p)
  PROVE  CrankInv'
<1>1. crank[p].pc = "reveal_retry" /\ UNCHANGED <<request, stored, races>>
  BY DEF tryRevealRetry, At
<1>2. CASE CanReveal(crank[p].retry)
  <2>1. /\ crank[p].rng \in Account /\ crank[p].retry \in Account
        /\ crank[p].retry # crank[p].rng
    BY <1>1, Standing DEF Accounts
  <2>2. /\ oracle' \in Oracles
        /\ faults' \in Nat /\ faults' >= faults
        /\ oracle'[crank[p].retry] = oracle[crank[p].retry]
    <3>1. Close({crank[p].rng}) \/ UNCHANGED <<oracle, faults>>
      BY <1>2 DEF tryRevealRetry
    <3>2. CASE Close({crank[p].rng})
      BY <2>1, <3>2, Closing, Standing DEF CrankAssumption
    <3>3. CASE UNCHANGED <<oracle, faults>>
      BY <3>3, Standing DEF ChainTyped
    <3> QED BY <3>1, <3>2, <3>3
  <2>3. PICK next \in Process :
          next = [crank[p] EXCEPT !.pc = "consume_retry"] /\ crank' = [crank EXCEPT ![p] = next]
    BY <1>2, Goes DEF tryRevealRetry, Place
  <2>4. /\ next.pc = "consume_retry" /\ next.rng = crank[p].rng /\ next.retry = crank[p].retry
        /\ next.errors = crank[p].errors /\ next.moved = crank[p].moved
    BY <2>3, Standing DEF Process
  <2>5. ChainTyped'
    BY <1>1, <2>2, Standing DEF ChainTyped
  <2>6. Relies(next)'
    BY <1>1, <2>2, <2>4, Standing DEF Relies, Slack, ChainTyped, Process
  <2>7. Accounts(next)'
    BY <1>2, <2>1, <2>2, <2>4 DEF Accounts, CanReveal
  <2>8. Counted(next)'
    BY <1>1, <2>2, <2>4, Standing DEF Counted, ChainTyped, Process
  <2> QED BY <2>3, <2>5, <2>6, <2>7, <2>8, GoesOn
<1>3. CASE ~CanReveal(crank[p].retry)
  <2>1. Throw(p) /\ UNCHANGED <<oracle, faults>>
    BY <1>3 DEF tryRevealRetry
  <2>2. Slack(crank[p])
    BY <1>1, <1>3, Standing DEF Relies
  <2> QED BY <1>1, <2>1, <2>2, Standing, ThrowKeeps DEF Slack, ChainTyped
<1> QED BY <1>2, <1>3

LEMMA ConsumeRetryKeeps ==
  ASSUME NEW p, Instance = {p}, CrankInv, CrankAssumption, consumeRetry(p)
  PROVE  CrankInv'
<1>1. crank[p].pc = "consume_retry" /\ UNCHANGED <<stored, races>>
  BY DEF consumeRetry, At
<1>2. CASE ~CanConsume(crank[p].retry) /\ Throw(p) /\ UNCHANGED <<oracle, faults>>
  <2>1. request' = request
    BY <1>2 DEF consumeRetry
  <2>2. Slack(crank[p])
    BY <1>1, <1>2, Standing DEF CanConsume, Relies, Accounts
  <2> QED BY <1>1, <1>2, <2>1, <2>2, Standing, ThrowKeeps DEF Slack, ChainTyped
<1>3. CASE CanConsume(crank[p].retry) \/ ~(Throw(p) /\ UNCHANGED <<oracle, faults>>)
  <2>1. PICK next \in Process :
          /\ crank' = [crank EXCEPT ![p] = next] /\ next.pc = "done"
          /\ next.rng = crank[p].rng
          /\ next.errors = crank[p].errors /\ next.moved = crank[p].moved
    <3>1. CASE CanConsume(crank[p].retry)
      <4>1. PICK next : next = [crank[p] EXCEPT !.pc = "done", !.used = crank[p].retry]
        OBVIOUS
      <4>2. crank' = [crank EXCEPT ![p] = next]
        BY <3>1, <4>1, ChangesGoOn DEF consumeRetry
      <4>3. /\ next \in Process /\ next.pc = "done" /\ next.rng = crank[p].rng
            /\ next.errors = crank[p].errors /\ next.moved = crank[p].moved
        BY <4>1, Standing DEF Process, Place
      <4> QED BY <4>2, <4>3
    <3>2. CASE ~CanConsume(crank[p].retry)
      <4>1. PICK next \in Process :
              next = [crank[p] EXCEPT !.pc = "done"] /\ crank' = [crank EXCEPT ![p] = next]
        BY <1>3, <3>2, Goes DEF consumeRetry, Place
      <4>2. /\ next.pc = "done" /\ next.rng = crank[p].rng
            /\ next.errors = crank[p].errors /\ next.moved = crank[p].moved
        BY <4>1, Standing DEF Process
      <4> QED BY <4>1, <4>2
    <3> QED BY <3>1, <3>2
  <2>2. request' \in Request
    <3>1. request' = Consumed \/ request' = request
      BY <1>3 DEF consumeRetry
    <3> QED BY <3>1, Standing DEF Consumed, ChainTyped, Request
  <2>3. oracle' \in Oracles /\ faults' \in Nat /\ faults' >= faults
    <3>1. \/ UNCHANGED <<oracle, faults>>
          \/ Close({crank[p].stale})
          \/ Close({crank[p].stale, crank[p].retry})
      BY <1>3 DEF consumeRetry
    <3>2. CASE UNCHANGED <<oracle, faults>>
      BY <3>2, Standing DEF ChainTyped
    <3>3. CASE Close({crank[p].stale}) \/ Close({crank[p].stale, crank[p].retry})
      BY <3>3, Closing, Standing DEF CrankAssumption
    <3> QED BY <3>1, <3>2, <3>3
  <2>4. ChainTyped'
    BY <1>1, <2>2, <2>3, Standing DEF ChainTyped
  <2>5. Relies(next)'
    BY <1>1, <2>1, <2>3, Standing DEF Relies, Slack, ChainTyped, Process
  <2>6. Accounts(next)'
    BY <1>1, <2>1, Standing DEF Accounts
  <2>7. Counted(next)'
    BY <1>1, <2>1, <2>3, Standing DEF Counted, ChainTyped, Process
  <2> QED BY <2>1, <2>4, <2>5, <2>6, <2>7, GoesOn
<1> QED BY <1>2, <1>3

LEMMA FaultKeeps ==
  ASSUME NEW p, Instance = {p}, CrankInv, CallFails(p)
  PROVE  CrankInv'
<1>1. /\ crank[p].pc # "down" /\ faults' = faults + 1
      /\ UNCHANGED <<request, oracle, stored, races>>
  BY DEF CallFails, chainVars
<1>2. /\ faults' \in Nat /\ faults' >= faults
      /\ crank[p].errors \in Nat /\ crank[p].errors + 1 <= faults' + races
  BY <1>1, Standing DEF ChainTyped, Process, Counted
<1>3. CASE Throw(p)
  <2>1. request' \in Request /\ oracle' \in Oracles
    BY <1>1, Standing DEF ChainTyped
  <2> QED BY <1>1, <1>2, <1>3, <2>1, ThrowKeeps
<1>4. CASE ~Throw(p)
  <2>1. crank[p].pc = "consume_stale" /\ Goto(p, "timeout")
    BY <1>4 DEF CallFails, At
  <2>2. PICK next \in Process :
          next = [crank[p] EXCEPT !.pc = "timeout"] /\ crank' = [crank EXCEPT ![p] = next]
    BY <2>1, Goes DEF Place
  <2>3. /\ next.pc = "timeout" /\ next.rng = crank[p].rng
        /\ next.errors = crank[p].errors /\ next.moved = crank[p].moved
    BY <2>2, Standing DEF Process
  <2>4. ChainTyped'
    BY <1>1, <1>2, Standing DEF ChainTyped
  <2>5. Relies(next)'
    BY <1>1, <1>2, <2>3 DEF Relies, Slack
  <2>6. Accounts(next)'
    BY <2>1, <2>3, Standing DEF Accounts
  <2>7. Counted(next)'
    BY <1>1, <1>2, <2>3, Standing DEF Counted, ChainTyped
  <2> QED BY <2>2, <2>4, <2>5, <2>6, <2>7, GoesOn
<1> QED BY <1>3, <1>4

\* A call that throws after its transaction has landed is a fault like any other,
\* wherever it leaves the crank.
LEMMA LateThrowKeeps ==
  ASSUME NEW p, Instance = {p}, CrankInv, LandsThenThrows(p)
  PROVE  CrankInv'
<1>1. UNCHANGED <<stored, races>>
  BY DEF LandsThenThrows
<1>2. crank[p].errors \in Nat /\ crank[p].errors <= faults + races /\ races \in Nat
      /\ faults \in Nat
  BY Standing DEF Process, Counted, ChainTyped
<1>3. CASE CreationThrows(p)
  <2>1. /\ crank[p].pc # "down" /\ Throw(p) /\ faults' = faults + 1
        /\ request' = request
    BY <1>3 DEF CreationThrows, At
  <2>2. oracle' \in Oracles
    <3>1. CASE At(p, "create")
      BY <1>3, <3>1, Standing DEF CreationThrows, At, ChainTyped, Oracles
    <3>2. CASE ~At(p, "create")
      BY <1>3, <3>2, Standing DEF CreationThrows, ChainTyped, Oracles
    <3> QED BY <3>1, <3>2
  <2>3. request' \in Request
    BY <2>1, Standing DEF ChainTyped
  <2> QED BY <1>1, <1>2, <2>1, <2>2, <2>3, ThrowKeeps
<1>4. CASE CommitThrows(p)
  <2>1. PICK a \in open, o \in {"answers", "dead"} :
          /\ crank[p].pc \in {"commit", "recommit"}
          /\ request' = Bound(a) \/ request' = Rebound(a)
          /\ oracle' = [oracle EXCEPT ![a] = o]
          /\ faults' = faults + (IF o = "dead" THEN 2 ELSE 1)
          /\ Changed(p, Failed(p))
    BY <1>4, Zenon DEF CommitThrows, At
  <2>2. faults' \in Nat /\ faults' >= faults + 1
    BY <1>2, <2>1
  <2>3. a \in Account /\ oracle' \in Oracles
    BY <2>1, Standing DEF open, ChainTyped, Oracles
  <2>4. request' \in Request
    <3>1. CASE request' = Bound(a)
      BY <2>3, <3>1 DEF Bound, Request
    <3>2. CASE request' = Rebound(a)
      BY <2>3, <3>2, Standing DEF Rebound, ChainTyped, Request
    <3> QED BY <2>1, <3>1, <3>2
  <2>5. Throw(p) /\ crank[p].pc # "down"
    BY <2>1, ChangesGoOn DEF Throw
  <2>6. crank[p].errors + 1 <= faults' + races
    BY <1>2, <2>2
  <2> QED BY <1>1, <1>2, <2>2, <2>3, <2>4, <2>5, <2>6, ThrowKeeps
<1>5. CASE ConsumptionThrows(p)
  <2>1. /\ crank[p].pc \in {"consume", "consume_stale", "consume_retry"}
        /\ request' = Consumed /\ oracle' = oracle /\ faults' = faults + 1
        /\ Changed(p, crank[p])
    BY <1>5 DEF ConsumptionThrows, At
  <2>2. crank' = [crank EXCEPT ![p] = crank[p]]
    BY <2>1, ChangesGoOn
  <2>3. ChainTyped'
    <3>1. request' \in Request
      BY <2>1, Standing DEF Consumed, ChainTyped, Request
    <3>2. faults' \in Nat
      BY <1>2, <2>1
    <3> QED BY <1>1, <2>1, <3>1, <3>2, Standing DEF ChainTyped
  <2>4. Relies(crank[p])'
    <3>1. crank'[p] = crank[p]
      BY <2>2, Standing
    <3>2. crank[p].errors + 1 <= faults' + races'
      BY <1>1, <1>2, <2>1
    <3> QED BY <2>1, <3>1, <3>2 DEF Relies, Slack
  <2>5. Accounts(crank[p])'
    BY <2>1, <2>2, Standing DEF Accounts, open, CanReveal
  <2>6. Counted(crank[p])'
    BY <1>1, <1>2, <2>1, <2>2, Standing DEF Counted
  <2> QED BY <2>2, <2>3, <2>4, <2>5, <2>6, Standing DEF CrankInv
<1> QED BY <1>3, <1>4, <1>5 DEF LandsThenThrows

LEMMA StopKeeps ==
  ASSUME NEW p, Instance = {p}, CrankInv, Crash(p) \/ Shutdown(p)
  PROVE  CrankInv'
<1>1. UNCHANGED <<request, oracle, stored, faults, races>>
  BY DEF Crash, Shutdown, chainVars
<1>2. ChainTyped'
  BY <1>1, Standing DEF ChainTyped
<1>3. CASE crank' = [crank EXCEPT ![p] = Down]
  <2>1. Down \in Process
    BY DEF Down, Process, Place
  <2>2. Relies(Down)' /\ Accounts(Down)' /\ Counted(Down)'
    BY <1>1, Standing DEF Down, Relies, Accounts, Counted, ChainTyped
  <2> QED BY <1>2, <1>3, <2>1, <2>2, GoesOn
<1>4. CASE crank' = [crank EXCEPT ![p].shutdown = TRUE]
  <2>1. PICK yes \in BOOLEAN : yes = TRUE
    OBVIOUS
  <2>2. PICK next : next = [crank[p] EXCEPT !.shutdown = yes]
    OBVIOUS
  <2>3. /\ next \in Process
        /\ next.pc = crank[p].pc /\ next.rng = crank[p].rng /\ next.retry = crank[p].retry
        /\ next.errors = crank[p].errors /\ next.moved = crank[p].moved
    BY <2>2, Standing DEF Process
  <2>4. crank' = [crank EXCEPT ![p] = next]
    BY <1>4, <2>1, <2>2, Standing DEF Process
  <2>5. Relies(next)'
    BY <1>1, <2>3, Standing DEF Relies, Slack, CanReveal
  <2>6. Accounts(next)' /\ Counted(next)'
    BY <1>1, <2>3, Standing DEF Accounts, Counted, open, CanReveal
  <2> QED BY <1>2, <2>3, <2>4, <2>5, <2>6, GoesOn
<1> QED BY <1>3, <1>4 DEF Crash, Shutdown

LEMMA StepKeeps ==
  ASSUME NEW p, Instance = {p}, CrankInv, CrankAssumption, Step(p)
  PROVE  CrankInv'
BY SweepKeeps, NextCycleKeeps, LookKeeps, WaitKeeps, BeginKeeps, DoneKeeps, CreateKeeps,
   CommitKeeps, ConsumeKeeps, ConsumeStaleKeeps, RecreateKeeps, RecommitKeeps,
   RevealRetryKeeps, ConsumeRetryKeeps
   DEF Step

LEMMA EveryStepKeeps ==
  ASSUME NEW p, Instance = {p}, CrankAssumption, CrankInv, [CrankNext]_crankVars
  PROVE  CrankInv'
<1>1. CASE BoundaryPasses \/ TimeoutPasses
  BY <1>1, TimePasses
<1>2. CASE RivalCommits \/ RivalConsumes
  BY <1>2, RivalKeeps
<1>3. CASE Start(p) \/ Step(p)
  BY <1>3, StartKeeps, StepKeeps
<1>4. CASE CallFails(p) \/ LandsThenThrows(p) \/ Crash(p) \/ Shutdown(p)
  BY <1>4, FaultKeeps, LateThrowKeeps, StopKeeps
<1>5. CASE UNCHANGED crankVars
  BY <1>5 DEF crankVars, chainVars, CrankInv, ChainTyped, Relies, Slack, Accounts, Counted,
     CanReveal, open
<1> QED BY <1>1, <1>2, <1>3, <1>4, <1>5 DEF CrankNext

\* The circuit breaker of a crank that runs alone trips only after as many faults
\* and transactions of others as it tolerates, however many accounts there are,
\* however often it is stopped and started again and wherever it is when a call
\* fails: no path through the recovery of a stale request, a sweep, a timeout or a
\* restart adds an error of its own (the catch of the main loop of
\* crank-runner.ts).
THEOREM BreakersAlwaysNeedFaults ==
  ASSUME NEW p, Instance = {p}
  PROVE  CrankSpec => []BreakersNeedFaults
<1>1. InitCrank => CrankInv
  BY Initially, CrankAssumption
<1>2. CrankInv /\ [CrankNext]_crankVars => CrankInv'
  BY EveryStepKeeps, CrankAssumption
<1>3. CrankInv => BreakersNeedFaults
  <2>1. SUFFICES ASSUME CrankInv, \A q \in Instance : crank[q].pc = "halted"
                 PROVE  faults + races >= CIRCUIT_BREAKER_THRESHOLD
    BY DEF BreakersNeedFaults
  <2>2. crank[p].pc = "halted"
    BY <2>1
  <2> QED BY <2>1, <2>2, Standing, CrankAssumption DEF Counted, ChainTyped, Process, CrankAssumption
<1> QED BY <1>1, <1>2, <1>3, PTL DEF CrankSpec
================================================================================
