------------------------------- MODULE Web_proofs -------------------------------
(***************************************************************************)
(* Theorems about the web application's server, for any addresses, streams *)
(* and limits, any accounts, tabs and transactions: the slots of event     *)
(* streams are counted right, a stream that is up carries every change on  *)
(* to what the server knows, the events Helius delivers are stored, and    *)
(* candles are those of the trades.                                        *)
(***************************************************************************)
EXTENDS SseConnections, LiveState, Indexer, Arithmetic_proofs

--------------------------------------------------------------------------------
(* Slots of event streams. *)

\* The holders of an address are among the streams with a timer, finitely many.
LEMMA HoldersFinite ==
  ASSUME SseTypeOK, NEW ip \in Ip
  PROVE  /\ IsFiniteSet(timer)
         /\ Cardinality(timer) \in Nat
         /\ IsFiniteSet(Holders(ip))
         /\ Cardinality(Holders(ip)) \in Nat
<1>1. timer \in SUBSET Stream /\ Holders(ip) \in SUBSET Stream
  BY DEF SseTypeOK, Holders
<1>2. IsFiniteSet(timer) /\ IsFiniteSet(Holders(ip))
  BY <1>1, SseAssumption, FS_Subset DEF SseAssumption
<1> QED
  BY <1>2, FS_CardinalityType

\* A stream that is admitted is one more holder of its address, and of no other.
LEMMA AdmittedHolds ==
  ASSUME SseTypeOK, NEW s \in Stream, s \notin timer, timer' = timer \union {s}
  PROVE  /\ Cardinality(timer') = Cardinality(timer) + 1
         /\ \A ip \in Ip : Cardinality(Holders(ip)') =
              IF ip = clientIp[s] THEN Cardinality(Holders(ip)) + 1
                                  ELSE Cardinality(Holders(ip))
<1>1. Cardinality(timer') = Cardinality(timer) + 1
  <2>1. IsFiniteSet(timer)
    BY SseAssumption, FS_Subset DEF SseAssumption, SseTypeOK
  <2> QED
    BY <2>1, FS_AddElement
<1>2. ASSUME NEW ip \in Ip
      PROVE  Cardinality(Holders(ip)') =
               IF ip = clientIp[s] THEN Cardinality(Holders(ip)) + 1
                                   ELSE Cardinality(Holders(ip))
  <2>1. IsFiniteSet(Holders(ip)) /\ s \notin Holders(ip)
    BY HoldersFinite DEF Holders
  <2>2. CASE ip = clientIp[s]
    <3>1. Holders(ip)' = Holders(ip) \union {s}
      BY <2>2 DEF Holders
    <3> QED
      BY <3>1, <2>1, <2>2, FS_AddElement
  <2>3. CASE ip # clientIp[s]
    <3>1. Holders(ip)' = Holders(ip)
      BY <2>3 DEF Holders
    <3> QED
      BY <3>1, <2>3
  <2> QED
    BY <2>2, <2>3
<1> QED
  BY <1>1, <1>2

\* A stream whose timer is gone is at most one holder less, of its address only.
LEMMA ReleasedHolds ==
  ASSUME SseTypeOK, NEW s \in Stream, timer' = timer \ {s}
  PROVE  /\ Cardinality(timer') >= Cardinality(timer) - 1
         /\ \A ip \in Ip : Cardinality(Holders(ip)') >=
              IF ip = clientIp[s] THEN Cardinality(Holders(ip)) - 1
                                  ELSE Cardinality(Holders(ip))
<1>1. Cardinality(timer') >= Cardinality(timer) - 1
  <2>1. IsFiniteSet(timer)
    BY SseAssumption, FS_Subset DEF SseAssumption, SseTypeOK
  <2>2. Cardinality(timer) \in Nat
    BY <2>1, FS_CardinalityType
  <2>3. Cardinality(timer \ {s}) =
          IF s \in timer THEN Cardinality(timer) - 1 ELSE Cardinality(timer)
    BY <2>1, FS_RemoveElement
  <2>4. CASE s \in timer
    BY <2>2, <2>3, <2>4
  <2>5. CASE s \notin timer
    BY <2>2, <2>3, <2>5
  <2> QED
    BY <2>4, <2>5
<1>2. ASSUME NEW ip \in Ip
      PROVE  Cardinality(Holders(ip)') >=
               IF ip = clientIp[s] THEN Cardinality(Holders(ip)) - 1
                                   ELSE Cardinality(Holders(ip))
  <2>1. IsFiniteSet(Holders(ip)) /\ Cardinality(Holders(ip)) \in Nat
    BY HoldersFinite
  <2>2. CASE ip = clientIp[s]
    <3>1. Holders(ip)' = Holders(ip) \ {s}
      BY DEF Holders
    <3>2. Cardinality(Holders(ip) \ {s}) =
            IF s \in Holders(ip) THEN Cardinality(Holders(ip)) - 1
                                 ELSE Cardinality(Holders(ip))
      BY <2>1, FS_RemoveElement
    <3>3. Cardinality(Holders(ip) \ {s}) >= Cardinality(Holders(ip)) - 1
      BY <3>2, <2>1
    <3> QED
      BY <3>1, <3>3, <2>2
  <2>3. CASE ip # clientIp[s]
    <3>1. Holders(ip)' = Holders(ip)
      BY <2>3 DEF Holders
    <3> QED
      BY <3>1, <2>1, <2>3
  <2> QED
    BY <2>2, <2>3
<1> QED
  BY <1>1, <1>2

\* Releases never take a count below zero, nor raise it.
LEMMA ReleasesCount ==
  ASSUME SseTypeOK, NEW ip \in Ip, NEW n \in Nat, releaseConnections(ip, n)
  PROVE  /\ connections' \in [Ip -> 0..MAX_PER_IP]
         /\ globalCount' \in 0..MAX_GLOBAL
         /\ globalCount' <= globalCount
         /\ \A k \in Ip : connections'[k] <= connections[k]
         /\ n > 0 => /\ globalCount' = 0 \/ globalCount' <= globalCount - 1
                     /\ connections'[ip] = 0 \/ connections'[ip] <= connections[ip] - 1
<1>1. MAX_PER_IP \in Nat /\ MAX_GLOBAL \in Nat
  BY SseAssumption DEF SseAssumption
<1>2. connections \in [Ip -> 0..MAX_PER_IP] /\ globalCount \in 0..MAX_GLOBAL
  BY DEF SseTypeOK
<1> QED
  BY <1>1, <1>2 DEF releaseConnections, Floored

\* One release, by abort, cancel or timer, of a stream whose timer is off after
\* it, keeps every count at most the number of its holders: even one for which
\* the timer had fired before.
LEMMA ReleaseKeeps ==
  ASSUME SlotsInv, NEW s \in Stream, releaseConnections(clientIp[s], 1), timer' = timer \ {s}
  PROVE  NoSlotLeaks'
<1>1. clientIp[s] \in Ip
  BY SseAssumption DEF SseAssumption
<1>2. SseTypeOK
  BY DEF SlotsInv
<1>3. connections \in [Ip -> Nat] /\ connections' \in [Ip -> Nat] /\ globalCount \in Nat /\ globalCount' \in Nat
  BY <1>1, <1>2, ReleasesCount DEF SseTypeOK
<1>4. timer' \in SUBSET Stream /\ \A ip \in Ip : Holders(ip)' \in SUBSET Stream
  BY <1>2 DEF SseTypeOK, Holders
<1>5. Cardinality(timer') \in Nat /\ \A ip \in Ip : Cardinality(Holders(ip)') \in Nat
  <2>1. \A S \in SUBSET Stream : Cardinality(S) \in Nat
    BY SseAssumption, FS_Subset, FS_CardinalityType DEF SseAssumption
  <2> QED
    BY <1>4, <2>1
<1>6. globalCount' <= Cardinality(timer')
  <2>1. globalCount' = 0 \/ globalCount' <= globalCount - 1
    BY <1>1, <1>2, ReleasesCount
  <2>2. globalCount <= Cardinality(timer)
    BY DEF SlotsInv, NoSlotLeaks
  <2>3. Cardinality(timer') >= Cardinality(timer) - 1
    BY <1>2, ReleasedHolds
  <2>4. Cardinality(timer) \in Nat
    BY <1>1, <1>2, HoldersFinite
  <2> QED
    BY <1>3, <1>5, <2>1, <2>2, <2>3, <2>4
<1>7. ASSUME NEW ip \in Ip
      PROVE  connections'[ip] <= Cardinality(Holders(ip)')
  <2>1. connections[ip] <= Cardinality(Holders(ip))
    BY DEF SlotsInv, NoSlotLeaks
  <2>2. Cardinality(Holders(ip)') >=
          IF ip = clientIp[s] THEN Cardinality(Holders(ip)) - 1 ELSE Cardinality(Holders(ip))
    BY <1>2, ReleasedHolds
  <2>3. Cardinality(Holders(ip)) \in Nat
    BY <1>2, HoldersFinite
  <2>4. connections'[ip] <= connections[ip]
    BY <1>1, <1>2, ReleasesCount
  <2>5. ip = clientIp[s] => connections'[ip] = 0 \/ connections'[ip] <= connections[ip] - 1
    BY <1>1, <1>2, ReleasesCount
  <2>6. connections[ip] \in Nat /\ connections'[ip] \in Nat /\ Cardinality(Holders(ip)') \in Nat
    BY <1>3, <1>5
  <2> QED
    BY <2>1, <2>2, <2>3, <2>4, <2>5, <2>6
<1> QED
  BY <1>6, <1>7 DEF NoSlotLeaks

--------------------------------------------------------------------------------
\* Nobody has a slot at the start.
LEMMA SlotsInit == SseInit => SlotsInv
<1> SUFFICES ASSUME SseInit PROVE SlotsInv
  OBVIOUS
<1>1. SseTypeOK
  BY SseAssumption DEF SseAssumption, SseInit, SseTypeOK
<1>2. \A ip \in Ip : Holders(ip) = {}
  BY DEF SseInit, Holders
<1>3. NoSlotLeaks
  BY <1>2, FS_EmptySet DEF NoSlotLeaks, SseInit
<1> QED
  BY <1>1, <1>3 DEF SlotsInv

\* Every step keeps the types and the bound on every count.
LEMMA SlotsStep == SlotsInv /\ [SseNext]_sseVars => SlotsInv'
<1> SUFFICES ASSUME SlotsInv, [SseNext]_sseVars PROVE SlotsInv'
  OBVIOUS
<1>t. SseTypeOK /\ NoSlotLeaks
  BY DEF SlotsInv
<1>a. /\ clientIp \in [Stream -> Ip]
      /\ MAX_PER_IP \in Nat /\ MAX_GLOBAL \in Nat /\ MaxResets \in Nat
  BY SseAssumption DEF SseAssumption
<1>1. ASSUME NEW s \in Stream, GET(s) PROVE SlotsInv'
  <2>1. s \notin timer
    BY <1>1, <1>t DEF GET, SseTypeOK
  <2>2. SseTypeOK'
    BY <1>1, <1>t, <1>a DEF GET, acquirable, acquireConnection, SseTypeOK
  <2>3. /\ Cardinality(timer') = Cardinality(timer) + 1
        /\ \A ip \in Ip : Cardinality(Holders(ip)') =
             IF ip = clientIp[s] THEN Cardinality(Holders(ip)) + 1 ELSE Cardinality(Holders(ip))
    BY <1>1, <1>t, <2>1, AdmittedHolds DEF GET
  <2>4. /\ globalCount' = globalCount + 1
        /\ \A ip \in Ip : connections'[ip] =
             IF ip = clientIp[s] THEN connections[ip] + 1 ELSE connections[ip]
    BY <1>1, <1>t DEF GET, acquireConnection, SseTypeOK
  <2>5. /\ Cardinality(timer) \in Nat /\ globalCount \in Nat
        /\ \A ip \in Ip : Cardinality(Holders(ip)) \in Nat /\ connections[ip] \in Nat
    BY <1>t, <1>a, HoldersFinite DEF SseTypeOK
  <2>6. NoSlotLeaks'
    BY <1>t, <2>3, <2>4, <2>5 DEF NoSlotLeaks
  <2> QED
    BY <2>2, <2>6 DEF SlotsInv
<1>2. ASSUME NEW s \in Stream, Leave(s) PROVE SlotsInv'
  <2>1. SseTypeOK'
    BY <1>2, <1>t DEF Leave, SseTypeOK
  <2>2. NoSlotLeaks'
    BY <1>2, <1>t DEF Leave, NoSlotLeaks, Holders
  <2> QED
    BY <2>1, <2>2 DEF SlotsInv
<1>3. ASSUME NEW s \in Stream, release(s) PROVE SlotsInv'
  <2>1. /\ connections' \in [Ip -> 0..MAX_PER_IP]
        /\ globalCount' \in 0..MAX_GLOBAL
    BY <1>3, <1>t, <1>a, ReleasesCount DEF release
  <2>2. SseTypeOK'
    BY <1>3, <1>t, <2>1 DEF release, SseTypeOK
  <2>3. NoSlotLeaks'
    BY <1>3, ReleaseKeeps DEF release
  <2> QED
    BY <2>2, <2>3 DEF SlotsInv
<1>4. ASSUME NEW s \in Stream, AutoRelease(s) PROVE SlotsInv'
  <2>1. /\ connections' \in [Ip -> 0..MAX_PER_IP]
        /\ globalCount' \in 0..MAX_GLOBAL
    BY <1>4, <1>t, <1>a, ReleasesCount DEF AutoRelease
  <2>2. SseTypeOK'
    BY <1>4, <1>t, <2>1 DEF AutoRelease, SseTypeOK
  <2>3. NoSlotLeaks'
    BY <1>4, ReleaseKeeps DEF AutoRelease
  <2> QED
    BY <2>2, <2>3 DEF SlotsInv
<1>5. ASSUME NEW ip \in Ip, Reset(ip) PROVE SlotsInv'
  <2>1. connections[ip] \in Nat
    BY <1>t, <1>a DEF SseTypeOK
  <2>2. /\ connections' \in [Ip -> 0..MAX_PER_IP]
        /\ globalCount' \in 0..MAX_GLOBAL
        /\ globalCount' <= globalCount
        /\ \A k \in Ip : connections'[k] <= connections[k]
    BY <1>5, <1>t, <2>1, ReleasesCount DEF Reset
  <2>3. SseTypeOK'
    BY <1>5, <1>t, <1>a, <2>2 DEF Reset, SseTypeOK
  <2>4. timer' = timer /\ \A k \in Ip : Holders(k)' = Holders(k)
    BY <1>5 DEF Reset, Holders
  <2>5. /\ Cardinality(timer) \in Nat
        /\ \A k \in Ip : Cardinality(Holders(k)) \in Nat
    BY <1>t, HoldersFinite
  <2>6. NoSlotLeaks'
    BY <1>t, <1>a, <2>2, <2>4, <2>5 DEF NoSlotLeaks, SseTypeOK
  <2> QED
    BY <2>3, <2>6 DEF SlotsInv
<1>6. CASE UNCHANGED sseVars
  BY <1>6 DEF sseVars, SlotsInv, SseTypeOK, NoSlotLeaks, Holders
<1> QED
  BY <1>1, <1>2, <1>3, <1>4, <1>5, <1>6 DEF SseNext

\* However abort, timer and reset interleave, every count is between zero and
\* its limit, and no slot is in use without a stream that will give it back: no
\* address is shut out by streams that ended.
THEOREM SlotsNeverLeak == SseSpec => []SlotsInv
BY SlotsInit, SlotsStep, PTL DEF SseSpec

--------------------------------------------------------------------------------
(* Live state: what a stream brings. *)

\* What may be stored and sent: never a tab's own metadata.
Sendable == Slots \union {None, Delta}
Events   == UNION {[D -> Sendable] : D \in SUBSET Monitored}

\* A nonempty set of places has a last one.
LEMMA LastPlace ==
  ASSUME NEW n \in Nat, NEW S \in SUBSET (1..n), S # {}
  PROVE  \E i \in S : \A j \in S : j <= i
<1> DEFINE T == {m \in Nat : \A j \in S : j <= m}
<1>1. n \in T
  OBVIOUS
<1>2. PICK m \in T : \A k \in T : m <= k
  <2>1. T \subseteq Nat /\ T # {}
    BY <1>1
  <2> HIDE DEF T
  <2> QED BY <2>1, NatMinimum
<1>3. m \in Nat /\ \A j \in S : j <= m
  BY <1>2
<1>4. CASE m \in S
  BY <1>3, <1>4
<1>5. CASE m \notin S
  <2>1. \A j \in S : j <= m - 1 /\ m - 1 \in Nat
    BY <1>3, <1>5
  <2>2. m - 1 \in T
    BY <2>1
  <2> QED BY <1>2, <1>3, <2>2
<1> QED BY <1>4, <1>5

LEMMA BroughtPlaces ==
  ASSUME NEW feed \in Seq(Events), NEW a
  PROVE  Brought(feed, a) \in SUBSET (1..Len(feed))
BY DEF Brought

\* The last event that speaks of an account decides.
LEMMA ShownIs ==
  ASSUME NEW feed \in Seq(Events), NEW a, NEW view,
         NEW i \in Brought(feed, a), \A j \in Brought(feed, a) : j <= i
  PROVE  Shown(view, feed, a) = feed[i][a]
<1> DEFINE Latest(k) == k \in Brought(feed, a) /\ \A j \in Brought(feed, a) : j <= k
<1>1. \A k \in Brought(feed, a) : k \in Nat
  BY BroughtPlaces
<1>2. \A k : Latest(k) => k = i
  BY <1>1
<1>3. (CHOOSE k \in Brought(feed, a) : \A j \in Brought(feed, a) : j <= k) = i
  BY <1>2
<1> QED BY <1>3 DEF Shown

LEMMA ShownNothing ==
  ASSUME NEW feed, NEW a, NEW view, Brought(feed, a) = {}
  PROVE  Shown(view, feed, a) = view[a]
BY DEF Shown

\* One more event.
LEMMA ShownAppended ==
  ASSUME NEW feed \in Seq(Events), NEW e \in Events, NEW a, NEW view
  PROVE  Shown(view, Append(feed, e), a) =
           IF a \in DOMAIN e THEN e[a] ELSE Shown(view, feed, a)
<1> DEFINE more == Append(feed, e)
<1>1. /\ more \in Seq(Events) /\ Len(more) = Len(feed) + 1 /\ Len(feed) \in Nat
      /\ more[Len(feed) + 1] = e /\ \A i \in 1..Len(feed) : more[i] = feed[i]
      /\ DOMAIN more = 1..(Len(feed) + 1) /\ DOMAIN feed = 1..Len(feed)
  OBVIOUS
<1> HIDE DEF more
<1>2. CASE a \in DOMAIN e
  <2>1. Len(feed) + 1 \in Brought(more, a)
    BY <1>1, <1>2 DEF Brought
  <2>2. \A j \in Brought(more, a) : j <= Len(feed) + 1
    BY <1>1 DEF Brought
  <2>3. more \in Seq(Events)
    BY <1>1
  <2>4. Shown(view, more, a) = more[Len(feed) + 1][a]
    BY <2>1, <2>2, <2>3, ShownIs, Zenon
  <2> QED BY <1>1, <1>2, <2>4 DEF more
<1>3. CASE a \notin DOMAIN e
  <2>1. Brought(more, a) = Brought(feed, a)
    BY <1>1, <1>3 DEF Brought
  <2>2. CASE Brought(feed, a) = {}
    BY <1>3, <2>1, <2>2, ShownNothing DEF more
  <2>3. CASE Brought(feed, a) # {}
    <3>1. PICK i \in Brought(feed, a) : \A j \in Brought(feed, a) : j <= i
      BY <1>1, <2>3, BroughtPlaces, LastPlace
    <3>2. Shown(view, feed, a) = feed[i][a]
      BY <3>1, ShownIs
    <3>a. more \in Seq(Events) /\ i \in Brought(more, a) /\ \A j \in Brought(more, a) : j <= i
      BY <1>1, <2>1, <3>1
    <3>3. Shown(view, more, a) = more[i][a]
      BY <3>a, ShownIs, Zenon
    <3>4. more[i] = feed[i]
      BY <1>1, BroughtPlaces
    <3> QED BY <1>3, <3>2, <3>3, <3>4 DEF more
  <2> QED BY <2>2, <2>3
<1> QED BY <1>2, <1>3

\* To receive an event changes nothing of what is shown in the end.
LEMMA ShownReceived ==
  ASSUME NEW feed \in Seq(Events), feed # <<>>, NEW a \in Monitored, NEW view
  PROVE  Shown(Merged(view, Head(feed)), Tail(feed), a) = Shown(view, feed, a)
<1> DEFINE rest == Tail(feed)
           seen == Merged(view, Head(feed))
<1>1. /\ rest \in Seq(Events) /\ Len(feed) \in Nat \ {0} /\ Len(rest) = Len(feed) - 1
      /\ \A i \in 1..Len(rest) : rest[i] = feed[i + 1]
      /\ DOMAIN rest = 1..Len(rest) /\ DOMAIN feed = 1..Len(feed)
      /\ Head(feed) = feed[1]
  OBVIOUS
<1>2. seen[a] = IF a \in DOMAIN feed[1] THEN feed[1][a] ELSE view[a]
  BY <1>1 DEF Merged
<1> HIDE DEF rest, seen
<1>3. \A i \in 1..Len(rest) : i \in Brought(rest, a) <=> i + 1 \in Brought(feed, a)
  BY <1>1 DEF Brought
<1>4. Brought(rest, a) \in SUBSET (1..Len(rest)) /\ Brought(feed, a) \in SUBSET (1..Len(feed))
  BY <1>1, BroughtPlaces
<1>5. CASE Brought(rest, a) = {}
  <2>1. \A i \in Brought(feed, a) : i = 1
    <3> SUFFICES ASSUME NEW i \in Brought(feed, a), i # 1 PROVE FALSE
      OBVIOUS
    <3>1. i - 1 \in 1..Len(rest) /\ (i - 1) + 1 = i
      BY <1>1, <1>4
    <3> QED BY <1>3, <1>5, <3>1
  <2>2. Shown(seen, rest, a) = seen[a]
    BY <1>5, ShownNothing
  <2>3. CASE a \in DOMAIN feed[1]
    <3>1. 1 \in Brought(feed, a)
      BY <1>1, <2>3 DEF Brought
    <3>a. \A j \in Brought(feed, a) : j <= 1
      BY <2>1
    <3>2. Shown(view, feed, a) = feed[1][a]
      BY <3>1, <3>a, ShownIs, Zenon
    <3> QED BY <1>2, <2>2, <2>3, <3>2 DEF rest, seen
  <2>4. CASE a \notin DOMAIN feed[1]
    <3>1. Brought(feed, a) = {}
      BY <2>1, <2>4 DEF Brought
    <3> QED BY <1>2, <2>2, <2>4, <3>1, ShownNothing DEF rest, seen
  <2> QED BY <2>3, <2>4
<1>6. CASE Brought(rest, a) # {}
  <2>a. Len(rest) \in Nat
    BY <1>1
  <2>1. PICK i \in Brought(rest, a) : \A j \in Brought(rest, a) : j <= i
    BY <2>a, <1>4, <1>6, LastPlace, Zenon
  <2>2. i \in 1..Len(rest) /\ i + 1 \in Brought(feed, a)
    BY <1>3, <1>4
  <2>3. ASSUME NEW j \in Brought(feed, a) PROVE j <= i + 1
    <3>1. j \in Nat /\ i \in Nat
      BY <1>4, <2>2
    <3>2. CASE j = 1
      BY <2>2, <3>1, <3>2
    <3>3. CASE j # 1
      <4>1. j - 1 \in 1..Len(rest) /\ (j - 1) + 1 = j
        BY <1>1, <1>4, <3>3
      <4>2. j - 1 \in Brought(rest, a)
        BY <1>3, <4>1
      <4>3. j - 1 <= i
        BY <2>1, <4>2
      <4> QED BY <3>1, <4>3
    <3> QED BY <3>2, <3>3
  <2>4. Shown(view, feed, a) = feed[i + 1][a]
    BY <2>2, <2>3, ShownIs
  <2>b. rest \in Seq(Events)
    BY <1>1
  <2>5. Shown(seen, rest, a) = rest[i][a]
    BY <2>b, <2>1, ShownIs, Zenon
  <2> QED BY <1>1, <2>2, <2>4, <2>5 DEF rest, seen
<1> QED BY <1>5, <1>6

--------------------------------------------------------------------------------
(* Live state: the invariant. *)

TabRecord == [visible : BOOLEAN, stream : {"none", "waiting", "open"}, feed : Seq(Events),
              view : States, polling : BOOLEAN, asked : BOOLEAN]

StoreTyped ==
  /\ store \in [Monitored -> Sendable]
  /\ baseline = store

TabsTyped ==
  /\ DOMAIN tab = Tab
  /\ \A t \in Tab : tab[t] \in TabRecord
  /\ \A t \in Tab : tab[t].stream # "open" => tab[t].feed = <<>>
  /\ \A t \in Tab : ~tab[t].visible => tab[t].stream # "open"

\* Typed; what was sent last is what is stored, from the start on.
LiveTyped ==
  /\ slot \in Slots
  /\ chain \in [Monitored -> Slots]
  /\ phase \in {"down", "seeding", "seeded", "subscribed", "degraded"}
  /\ StoreTyped
  /\ seeded \in [Monitored -> Slots \union {None}]
  /\ watermark \in [Monitored -> Slots]
  /\ ws \in [up : BOOLEAN, feed : [Monitored -> Seq(Slots)]]
  /\ poll \subseteq [Monitored -> Slots]
  /\ posts \subseteq Monitored \X Slots
  /\ TabsTyped

\* Only a seeded server has subscriptions and polls, only a serving one streams.
Connected ==
  /\ ~Subscribed => ws = NoWs /\ poll = {}
  /\ ~Serving => \A t \in Tab : tab[t].stream # "open"

\* The chain has gone on from the seed, and nothing on its way to the store, by
\* subscription, poll or past the watermark, is from before it.
Rising ==
  /\ \A a \in Monitored : seeded[a] <= chain[a] /\ chain[a] <= slot
  /\ phase \in {"seeded", "subscribed"} => \A a \in Monitored : seeded[a] <= watermark[a]
  /\ phase \in {"seeding", "seeded", "subscribed"} => \A a \in Account : seeded[a] <= store[a]
  /\ \A a \in Monitored : \A i \in 1..Len(ws.feed[a]) : seeded[a] <= ws.feed[a][i]
  /\ \A states \in poll : \A a \in Monitored : seeded[a] <= states[a]

LiveIInv == LiveTyped /\ Connected /\ Rising /\ StreamsCarryTheStore

\* Of a tab: what it shows in the end is what a store has.
Follows(k, s) ==
  \A a \in Monitored :
    LET shown == Shown(k.view, k.feed, a)
    IN shown = s[a] \/ (shown = Polled /\ s[a] = None)

LEMMA SlotFacts ==
  /\ MaxSlot \in Nat
  /\ \A x \in Slots : x \in Nat /\ x \in Sendable
  /\ None \notin Slots /\ Polled \notin Slots /\ Delta \notin Slots
  /\ None \in Sendable /\ Delta \in Sendable /\ Polled \notin Sendable
BY LiveAssumption DEF LiveAssumption, Slots, Sendable, None, Polled, Delta

LEMMA StatesSent ==
  ASSUME NEW D \in SUBSET Monitored, NEW f \in [D -> Sendable]
  PROVE  f \in Events
BY DEF Events

LEMMA LiveInvFollows == LiveIInv => LiveInv
<1> SUFFICES ASSUME LiveIInv PROVE LiveInv
  OBVIOUS
<1>1. LiveTyped /\ Connected /\ Rising /\ StreamsCarryTheStore
  BY DEF LiveIInv
<1>2. [Monitored -> Sendable] \subseteq States /\ [Monitored -> Slots \union {None}] \subseteq States
  BY DEF States, Sendable
<1>3. LiveTypeOK
  BY <1>1, <1>2 DEF LiveTyped, StoreTyped, TabsTyped, TabRecord, LiveTypeOK
<1>4. NothingBeforeTheSeed
  <2> SUFFICES ASSUME Subscribed, NEW a \in Account PROVE store[a] >= seeded[a]
    BY DEF NothingBeforeTheSeed
  <2>1. seeded[a] <= store[a]
    BY <1>1 DEF Rising, Subscribed
  <2>2. a \in Monitored
    BY DEF Monitored
  <2>3. seeded[a] \in Int /\ store[a] \in Int
    BY <1>1, <2>2, SlotFacts DEF LiveTyped, StoreTyped, Sendable, Slots, None, Delta
  <2> QED BY <2>1, <2>3
<1> QED BY <1>1, <1>3, <1>4 DEF LiveInv

LEMMA LiveInitInv == LiveInit => LiveIInv
<1> SUFFICES ASSUME LiveInit PROVE LiveIInv
  OBVIOUS
<1>a. 0 \in Slots
  BY LiveAssumption DEF LiveAssumption, Slots
<1>b. Nothing \in [Monitored -> Sendable] /\ Nothing \in States
      /\ Nothing \in [Monitored -> Slots \union {None}]
  BY DEF Nothing, Sendable, States
<1>c. NewTab \in TabRecord /\ NewTab.stream = "waiting" /\ NewTab.feed = <<>>
      /\ NewTab.view = Nothing
  BY <1>b DEF NewTab, TabRecord
<1>1. LiveTyped
  BY <1>a, <1>b, <1>c DEF LiveInit, LiveTyped, StoreTyped, TabsTyped, NoWs, NoFeed
<1>2. Connected
  BY <1>c DEF LiveInit, Connected
<1>3. Rising
  BY DEF LiveInit, Rising, Nothing, None, NoWs, NoFeed
<1>4. StreamsCarryTheStore
  BY <1>c DEF LiveInit, StreamsCarryTheStore
<1> QED BY <1>1, <1>2, <1>3, <1>4 DEF LiveIInv

LEMMA FollowsAre ==
  StreamsCarryTheStore <=> \A t \in Tab : tab[t].stream = "open" => Follows(tab[t], store)
BY DEF StreamsCarryTheStore, Follows

\* Everything stored is sent to the open streams, unless it was sent already.
LEMMA SetFollows ==
  ASSUME StoreTyped, TabsTyped, NEW D \in SUBSET Monitored, NEW states \in [D -> Sendable],
         Set(states), StreamsCarryTheStore
  PROVE  /\ StoreTyped' /\ TabsTyped' /\ StreamsCarryTheStore'
         /\ \A t \in Tab : tab'[t].stream = tab[t].stream
         /\ \A a \in Monitored : store'[a] = IF a \in D THEN states[a] ELSE store[a]
<1> DEFINE changed == {a \in D : states[a] # baseline[a]}
           event == [a \in changed |-> states[a]]
<1>1. /\ store' = [a \in Monitored |-> IF a \in D THEN states[a] ELSE store[a]]
      /\ baseline' = store'
      /\ tab' = [t \in Tab |->
                  IF tab[t].stream = "open" /\ changed # {}
                  THEN [tab[t] EXCEPT !.feed = Append(@, event)]
                  ELSE tab[t]]
  BY DEF Set
<1>2. StoreTyped'
  BY <1>1 DEF StoreTyped
<1>3. event \in Events /\ DOMAIN event = changed /\ \A a \in changed : event[a] = states[a]
  BY StatesSent
<1>4. \A a \in Monitored : a \in changed \/ store'[a] = store[a]
  BY <1>1 DEF StoreTyped
<1>5. \A a \in changed : store'[a] = states[a]
  BY <1>1
<1> HIDE DEF event, changed
<1>6. ASSUME NEW t \in Tab
      PROVE  /\ tab'[t] \in TabRecord /\ tab'[t].stream = tab[t].stream
             /\ tab'[t].visible = tab[t].visible
             /\ tab'[t].stream # "open" => tab'[t].feed = <<>>
             /\ tab'[t].stream = "open" => Follows(tab'[t], store')
  <2>1. tab[t] \in TabRecord /\ (tab[t].stream # "open" => tab[t].feed = <<>>)
        /\ (tab[t].stream = "open" => Follows(tab[t], store))
    BY FollowsAre DEF TabsTyped
  <2>2. CASE tab[t].stream = "open" /\ changed # {}
    <3>1. tab'[t] = [tab[t] EXCEPT !.feed = Append(@, event)]
      BY <1>1, <2>2
    <3>2. tab[t].feed \in Seq(Events) /\ Append(tab[t].feed, event) \in Seq(Events)
      BY <1>3, <2>1 DEF TabRecord
    <3>3. tab'[t] \in TabRecord /\ tab'[t].stream = tab[t].stream
          /\ tab'[t].visible = tab[t].visible /\ tab'[t].view = tab[t].view
          /\ tab'[t].feed = Append(tab[t].feed, event)
      BY <2>1, <3>1, <3>2 DEF TabRecord
    <3>4. ASSUME NEW a \in Monitored
          PROVE  \/ Shown(tab'[t].view, tab'[t].feed, a) = store'[a]
                 \/ Shown(tab'[t].view, tab'[t].feed, a) = Polled /\ store'[a] = None
      <4>1. Shown(tab'[t].view, tab'[t].feed, a) =
              IF a \in DOMAIN event THEN event[a] ELSE Shown(tab[t].view, tab[t].feed, a)
        BY <1>3, <3>2, <3>3, ShownAppended
      <4>2. \/ Shown(tab[t].view, tab[t].feed, a) = store[a]
            \/ Shown(tab[t].view, tab[t].feed, a) = Polled /\ store[a] = None
        BY <2>1, <2>2 DEF Follows
      <4> QED BY <1>3, <1>4, <1>5, <4>1, <4>2
    <3> QED BY <2>2, <3>3, <3>4 DEF Follows
  <2>3. CASE ~(tab[t].stream = "open" /\ changed # {})
    <3>1. tab'[t] = tab[t]
      BY <1>1, <2>3
    <3>2. tab[t].stream = "open" => \A a \in Monitored : store'[a] = store[a]
      BY <1>4, <2>3
    <3> QED BY <2>1, <3>1, <3>2 DEF Follows
  <2> QED BY <2>2, <2>3
<1>7. TabsTyped'
  BY <1>1, <1>6 DEF TabsTyped
<1>8. StreamsCarryTheStore'
  BY <1>6 DEF StreamsCarryTheStore, Follows
<1> QED BY <1>1, <1>2, <1>6, <1>7, <1>8

\* What feeds the store was read or sent after the seed.
LEMMA FeedsStep ==
  ASSUME LiveIInv,
         \/ \E a \in Monitored : HandleChange(a)
         \/ PollAnswered
         \/ \E p \in posts : handleAccountChanges(p)
  PROVE  LiveIInv'
<1>1. LiveTyped /\ Connected /\ Rising /\ StreamsCarryTheStore /\ StoreTyped /\ TabsTyped
  BY DEF LiveIInv, LiveTyped
<1>2. ASSUME NEW a \in Monitored, HandleChange(a) PROVE LiveIInv'
  <2> DEFINE h == Head(ws.feed[a])
             states == [b \in {a} |-> h]
  <2>1. ws.feed[a] \in Seq(Slots) /\ ws.feed[a] # <<>> /\ ws \in [up : BOOLEAN, feed : [Monitored -> Seq(Slots)]]
    BY <1>1, <1>2 DEF LiveTyped, HandleChange
  <2>2. h \in Slots /\ Tail(ws.feed[a]) \in Seq(Slots) /\ h = ws.feed[a][1] /\ 1 \in 1..Len(ws.feed[a])
        /\ Len(Tail(ws.feed[a])) = Len(ws.feed[a]) - 1 /\ Len(ws.feed[a]) \in Nat
        /\ \A i \in 1..Len(Tail(ws.feed[a])) : Tail(ws.feed[a])[i] = ws.feed[a][i + 1]
    BY <2>1
  <2>3. states \in [{a} -> Sendable] /\ {a} \in SUBSET Monitored /\ states[a] = h
    BY <2>2, SlotFacts
  <2>4. Set(states)
    BY <1>2 DEF HandleChange
  <2> HIDE DEF states, h
  <2>5. /\ StoreTyped' /\ TabsTyped' /\ StreamsCarryTheStore'
        /\ \A t \in Tab : tab'[t].stream = tab[t].stream
        /\ \A b \in Monitored : store'[b] = IF b \in {a} THEN states[b] ELSE store[b]
    BY <1>1, <2>3, <2>4, SetFollows
  <2>6. ws' = [ws EXCEPT !.feed[a] = Tail(@)] /\ UNCHANGED <<slot, chain, phase, watermark, poll, seeded, posts>>
    BY <1>2 DEF HandleChange, chainVars
  <2>7. ws' \in [up : BOOLEAN, feed : [Monitored -> Seq(Slots)]]
        /\ ws'.feed[a] = Tail(ws.feed[a]) /\ \A b \in Monitored \ {a} : ws'.feed[b] = ws.feed[b]
    BY <2>1, <2>2, <2>6
  <2>8. LiveTyped'
    BY <1>1, <2>5, <2>6, <2>7 DEF LiveTyped
  <2>9. Subscribed
    BY <1>1, <2>1 DEF Connected, NoWs, NoFeed
  <2>10. Connected'
    BY <1>1, <2>5, <2>6, <2>9 DEF Connected, Subscribed, Serving
  <2>11. \A b \in Monitored : \A i \in 1..Len(ws'.feed[b]) : seeded[b] <= ws'.feed[b][i]
    <3>1. ASSUME NEW i \in 1..Len(Tail(ws.feed[a])) PROVE seeded[a] <= Tail(ws.feed[a])[i]
      BY <1>1, <2>2 DEF Rising
    <3> QED BY <1>1, <2>7, <3>1 DEF Rising
  <2>12. seeded[a] <= h
    BY <1>1, <2>2 DEF Rising
  <2>13. Rising'
    BY <1>1, <2>3, <2>5, <2>6, <2>11, <2>12 DEF Rising, Monitored
  <2> QED BY <2>5, <2>8, <2>10, <2>13 DEF LiveIInv
<1>3. ASSUME PollAnswered PROVE LiveIInv'
  <2>1. PICK states \in poll : Set(states)
    BY <1>3 DEF PollAnswered
  <2>2. states \in [Monitored -> Sendable]
    BY <1>1, SlotFacts DEF LiveTyped
  <2>3. /\ StoreTyped' /\ TabsTyped' /\ StreamsCarryTheStore'
        /\ \A t \in Tab : tab'[t].stream = tab[t].stream
        /\ \A b \in Monitored : store'[b] = IF b \in Monitored THEN states[b] ELSE store[b]
    BY <1>1, <2>1, <2>2, SetFollows
  <2>4. poll' = {} /\ UNCHANGED <<slot, chain, phase, watermark, ws, seeded, posts>>
    BY <1>3 DEF PollAnswered, chainVars
  <2>5. LiveTyped'
    BY <1>1, <2>3, <2>4 DEF LiveTyped
  <2>6. Connected'
    BY <1>1, <2>3, <2>4 DEF Connected, Subscribed, Serving
  <2>7. Rising'
    BY <1>1, <2>1, <2>3, <2>4 DEF Rising, Monitored
  <2> QED BY <2>3, <2>5, <2>6, <2>7 DEF LiveIInv
<1>4. ASSUME NEW p \in posts, handleAccountChanges(p) PROVE LiveIInv'
  <2>1. p \in Monitored \X Slots /\ p[1] \in Monitored /\ p[2] \in Slots
    BY <1>1 DEF LiveTyped
  <2>2. Serving /\ posts' \subseteq posts /\ UNCHANGED <<slot, chain, phase, ws, poll, seeded>>
    BY <1>4 DEF handleAccountChanges, chainVars
  <2>3. CASE UNCHANGED <<storeVars, tab>>
    <3>1. UNCHANGED <<store, baseline, watermark, tab>>
      BY <2>3 DEF storeVars
    <3>2. LiveTyped'
      BY <1>1, <2>2, <3>1 DEF LiveTyped, StoreTyped, TabsTyped
    <3>3. Connected' /\ Rising'
      BY <1>1, <2>2, <3>1 DEF Connected, Rising, Subscribed, Serving
    <3>4. StreamsCarryTheStore'
      BY <1>1, <3>1 DEF StreamsCarryTheStore
    <3> QED BY <3>2, <3>3, <3>4 DEF LiveIInv
  <2>4. CASE /\ ~ (p[2] < watermark[p[1]])
             /\ Set([a \in {p[1]} |-> IF a \in SystemAccount THEN Delta ELSE p[2]])
             /\ watermark' = [watermark EXCEPT ![p[1]] = p[2]]
    <3> DEFINE x == IF p[1] \in SystemAccount THEN Delta ELSE p[2]
               states == [a \in {p[1]} |-> IF a \in SystemAccount THEN Delta ELSE p[2]]
    <3>1. states \in [{p[1]} -> Sendable] /\ {p[1]} \in SUBSET Monitored /\ states[p[1]] = x
      BY <2>1, SlotFacts
    <3>2. Set(states)
      BY <2>4
    <3>3. p[1] \in Account => x = p[2]
      BY LiveAssumption DEF LiveAssumption
    <3> HIDE DEF states, x
    <3>4. /\ StoreTyped' /\ TabsTyped' /\ StreamsCarryTheStore'
          /\ \A t \in Tab : tab'[t].stream = tab[t].stream
          /\ \A b \in Monitored : store'[b] = IF b \in {p[1]} THEN states[b] ELSE store[b]
      BY <1>1, <3>1, <3>2, SetFollows
    <3>5. watermark' \in [Monitored -> Slots] /\ watermark'[p[1]] = p[2]
          /\ \A b \in Monitored \ {p[1]} : watermark'[b] = watermark[b]
      BY <1>1, <2>1, <2>4 DEF LiveTyped
    <3>6. LiveTyped'
      BY <1>1, <2>2, <3>4, <3>5 DEF LiveTyped
    <3>7. Connected'
      BY <1>1, <2>2, <3>4 DEF Connected, Subscribed, Serving
    <3>8. phase \in {"seeded", "subscribed"} => seeded[p[1]] <= p[2]
      <4>1. seeded[p[1]] \in Int /\ watermark[p[1]] \in Int /\ p[2] \in Int
        BY <1>1, <2>1, SlotFacts DEF LiveTyped, None
      <4> QED BY <1>1, <2>1, <2>4, <4>1 DEF Rising
    <3>9. Rising'
      <4>a. phase \in {"subscribed", "degraded"}
        BY <2>2 DEF Serving
      <4>1. ASSUME phase \in {"seeded", "subscribed"}, NEW a \in Monitored
            PROVE  seeded[a] <= watermark'[a] /\ (a \in Account => seeded[a] <= store'[a])
        BY <1>1, <3>1, <3>3, <3>4, <3>5, <3>8, <4>1 DEF Rising
      <4>2. \A a \in Account : a \in Monitored
        BY DEF Monitored
      <4> QED BY <1>1, <2>2, <4>a, <4>1, <4>2 DEF Rising
    <3> QED BY <3>4, <3>6, <3>7, <3>9 DEF LiveIInv
  <2> QED BY <1>4, <2>3, <2>4 DEF handleAccountChanges
<1> QED BY <1>2, <1>3, <1>4

\* The chain, the subscriptions and the poll.
LEMMA SourcesStep ==
  ASSUME LiveIInv,
         \/ \E a \in Monitored : Change(a)
         \/ DropWs
         \/ ReopenWs
         \/ PollAccounts
         \/ PollFails
  PROVE  LiveIInv'
<1>1. LiveTyped /\ Connected /\ Rising /\ StreamsCarryTheStore /\ StoreTyped /\ TabsTyped
  BY DEF LiveIInv, LiveTyped
<1>2. UNCHANGED <<phase, store, baseline, watermark, seeded, tab>>
  BY DEF Change, DropWs, ReopenWs, PollAccounts, PollFails, storeVars
<1>3. StreamsCarryTheStore' /\ StoreTyped' /\ TabsTyped'
  BY <1>1, <1>2 DEF StreamsCarryTheStore, StoreTyped, TabsTyped
<1>4. NoWs \in [up : BOOLEAN, feed : [Monitored -> Seq(Slots)]] /\ NoWs.feed = NoFeed
      /\ \A a \in Monitored : Len(NoFeed[a]) = 0
  BY DEF NoWs, NoFeed
<1>5. ws \in [up : BOOLEAN, feed : [Monitored -> Seq(Slots)]]
  BY <1>1 DEF LiveTyped
<1>6. ASSUME NEW a \in Monitored, Change(a) PROVE LiveIInv'
  <2>1. slot + 1 \in Slots /\ slot \in Slots /\ slot \in Nat /\ slot' = slot + 1 /\ UNCHANGED poll
        /\ chain' = [chain EXCEPT ![a] = slot + 1] /\ posts' = posts \union {<<a, slot + 1>>}
    BY <1>1, <1>6, LiveAssumption DEF Change, LiveTyped, Slots, LiveAssumption
  <2>2. /\ ws' \in [up : BOOLEAN, feed : [Monitored -> Seq(Slots)]]
        /\ \A b \in Monitored : \A i \in 1..Len(ws'.feed[b]) :
             \/ i \in 1..Len(ws.feed[b]) /\ ws'.feed[b][i] = ws.feed[b][i]
             \/ b = a /\ ws'.feed[b][i] = slot + 1
        /\ ~ws.up => ws' = ws
    <3>1. CASE ws.up
      <4>1. ws' = [ws EXCEPT !.feed[a] = Append(@, slot + 1)]
        BY <1>6, <3>1 DEF Change
      <4>2. ws.feed[a] \in Seq(Slots) /\ Append(ws.feed[a], slot + 1) \in Seq(Slots)
        BY <1>5, <2>1
      <4>3. /\ ws' \in [up : BOOLEAN, feed : [Monitored -> Seq(Slots)]]
            /\ ws'.feed[a] = Append(ws.feed[a], slot + 1)
            /\ \A b \in Monitored \ {a} : ws'.feed[b] = ws.feed[b]
        BY <1>5, <4>1, <4>2
      <4>4. \A i \in 1..Len(Append(ws.feed[a], slot + 1)) :
              \/ i \in 1..Len(ws.feed[a]) /\ Append(ws.feed[a], slot + 1)[i] = ws.feed[a][i]
              \/ Append(ws.feed[a], slot + 1)[i] = slot + 1
        BY <4>2
      <4> QED BY <3>1, <4>3, <4>4
    <3>2. CASE ~ws.up
      <4>1. ws' = ws
        BY <1>6, <3>2 DEF Change
      <4> QED BY <1>5, <4>1
    <3> QED BY <3>1, <3>2
  <2>3. chain' \in [Monitored -> Slots] /\ chain'[a] = slot + 1
        /\ \A b \in Monitored \ {a} : chain'[b] = chain[b]
    BY <1>1, <2>1 DEF LiveTyped
  <2>4. LiveTyped'
    BY <1>1, <1>2, <1>3, <2>1, <2>2, <2>3 DEF LiveTyped
  <2>5. Connected'
    BY <1>1, <1>2, <2>1, <2>2 DEF Connected, Subscribed, Serving, NoWs
  <2>6. \A b \in Monitored : seeded[b] \in Int /\ chain[b] \in Int /\ seeded[b] <= slot + 1 /\ seeded[b] <= chain'[b] /\ chain'[b] <= slot'
    <3> SUFFICES ASSUME NEW b \in Monitored
                 PROVE  seeded[b] \in Int /\ chain[b] \in Int /\ seeded[b] <= slot + 1 /\ seeded[b] <= chain'[b] /\ chain'[b] <= slot'
      OBVIOUS
    <3>1. seeded[b] \in Int /\ chain[b] \in Int
      BY <1>1, SlotFacts DEF LiveTyped, None
    <3>2. seeded[b] <= chain[b] /\ chain[b] <= slot
      BY <1>1 DEF Rising
    <3> QED BY <2>1, <2>3, <3>1, <3>2
  <2>7. ASSUME NEW b \in Monitored, NEW i \in 1..Len(ws'.feed[b])
        PROVE  seeded[b] <= ws'.feed[b][i]
    <3>1. CASE i \in 1..Len(ws.feed[b]) /\ ws'.feed[b][i] = ws.feed[b][i]
      <4>1. seeded[b] <= ws.feed[b][i]
        BY <1>1, <3>1 DEF Rising
      <4> QED BY <3>1, <4>1
    <3>2. CASE ws'.feed[b][i] = slot + 1
      <4>1. seeded[b] <= slot + 1
        BY <2>6
      <4> QED BY <3>2, <4>1
    <3>3. (i \in 1..Len(ws.feed[b]) /\ ws'.feed[b][i] = ws.feed[b][i]) \/ ws'.feed[b][i] = slot + 1
      BY <2>2, Zenon
    <3> QED BY <3>1, <3>2, <3>3
  <2>8. Rising'
    BY <1>1, <1>2, <2>1, <2>6, <2>7 DEF Rising
  <2> QED BY <1>3, <2>4, <2>5, <2>8 DEF LiveIInv
<1>7. ASSUME UNCHANGED <<slot, chain, posts>>,
             ws' = NoWs \/ (ws' = [ws EXCEPT !.up = TRUE] /\ Subscribed) \/ ws' = ws,
             poll' = {} \/ poll' = poll \/ (poll' = {chain} /\ Subscribed)
      PROVE  LiveIInv'
  <2>1. ws' \in [up : BOOLEAN, feed : [Monitored -> Seq(Slots)]]
        /\ (ws'.feed = ws.feed \/ ws'.feed = NoFeed)
    BY <1>4, <1>5, <1>7
  <2>2. LiveTyped'
    BY <1>1, <1>2, <1>3, <1>7, <2>1 DEF LiveTyped
  <2>3. Connected'
    BY <1>1, <1>2, <1>7 DEF Connected, Subscribed, Serving
  <2>4. \A a \in Monitored : \A i \in 1..Len(ws'.feed[a]) : seeded[a] <= ws'.feed[a][i]
    BY <1>1, <1>4, <2>1 DEF Rising
  <2>5. \A states \in poll' : \A a \in Monitored : seeded[a] <= states[a]
    BY <1>1, <1>7 DEF Rising
  <2>6. Rising'
    BY <1>1, <1>2, <1>7, <2>4, <2>5 DEF Rising
  <2> QED BY <1>3, <2>2, <2>3, <2>6 DEF LiveIInv
<1>8. ASSUME DropWs \/ ReopenWs \/ PollAccounts \/ PollFails PROVE LiveIInv'
  BY <1>7, <1>8 DEF DropWs, ReopenWs, PollAccounts, PollFails, chainVars
<1> QED BY <1>6, <1>8

\* Streams end: their tabs wait, with nothing left to receive.
LEMMA TabsStop ==
  ASSUME TabsTyped,
         DOMAIN tab' = Tab,
         \A t \in Tab : tab'[t] = tab[t] \/ tab'[t] = Waiting(tab[t])
  PROVE  /\ TabsTyped'
         /\ \A t \in Tab : /\ tab'[t].stream = "open" => tab'[t] = tab[t]
                           /\ Waiting(tab[t]).stream # "open"
<1>1. ASSUME NEW k \in TabRecord
      PROVE  Waiting(k) \in TabRecord /\ Waiting(k).stream # "open" /\ Waiting(k).feed = <<>>
  <2>1. <<>> \in Seq(Events)
    OBVIOUS
  <2> QED BY <2>1 DEF TabRecord, Waiting
<1> QED BY <1>1 DEF TabsTyped

\* The server's start and its death.
LEMMA ServerStep ==
  ASSUME LiveIInv, Start \/ SeedFails \/ Crash
  PROVE  LiveIInv'
<1>1. LiveTyped /\ Connected /\ Rising /\ StreamsCarryTheStore /\ StoreTyped /\ TabsTyped
  BY DEF LiveIInv, LiveTyped
<1>2. /\ chain \in [Monitored -> Slots] /\ slot \in Slots
      /\ [Monitored -> Slots] \subseteq [Monitored -> Sendable]
      /\ [Monitored -> Slots] \subseteq [Monitored -> Slots \union {None}]
  BY <1>1, SlotFacts DEF LiveTyped
<1>3. NoWs \in [up : BOOLEAN, feed : [Monitored -> Seq(Slots)]] /\ NoWs.feed = NoFeed
      /\ \A a \in Monitored : Len(NoFeed[a]) = 0
  BY DEF NoWs, NoFeed
<1>4. \A a \in Account : a \in Monitored
  BY DEF Monitored
<1>5. CASE SeedAccounts
  <2>1. phase = "down" /\ store' = chain /\ baseline' = chain /\ seeded' = chain /\ phase' = "seeding"
        /\ UNCHANGED <<slot, chain, watermark, ws, poll, posts, tab>>
    BY <1>5 DEF SeedAccounts, chainVars
  <2>2. ws = NoWs /\ poll = {} /\ \A t \in Tab : tab[t].stream # "open"
    BY <1>1, <2>1 DEF Connected, Subscribed, Serving
  <2>3. LiveTyped'
    BY <1>1, <1>2, <2>1 DEF LiveTyped, StoreTyped, TabsTyped
  <2>4. Connected'
    BY <2>1, <2>2 DEF Connected, Subscribed, Serving
  <2>5. Rising'
    <3>1. \A a \in Monitored : chain[a] <= chain[a]
      <4>1. \A a \in Monitored : chain[a] \in Slots
        BY <1>2
      <4>2. \A x \in Slots : x <= x
        BY DEF Slots
      <4> QED BY <4>1, <4>2
    <3> QED BY <1>1, <1>3, <1>4, <2>1, <2>2, <3>1 DEF Rising
  <2>6. StreamsCarryTheStore'
    BY <2>1, <2>2 DEF StreamsCarryTheStore
  <2> QED BY <2>3, <2>4, <2>5, <2>6 DEF LiveIInv
<1>6. CASE SeedSlot
  <2>1. phase = "seeding" /\ phase' = "seeded" /\ watermark' = [a \in Monitored |-> slot]
        /\ UNCHANGED <<slot, chain, store, baseline, ws, poll, seeded, posts, tab>>
    BY <1>6 DEF SeedSlot, chainVars
  <2>2. LiveTyped'
    BY <1>1, <1>2, <2>1 DEF LiveTyped, StoreTyped, TabsTyped
  <2>3. Connected'
    BY <1>1, <2>1 DEF Connected, Subscribed, Serving
  <2>4. \A a \in Monitored : seeded[a] <= slot
    <3> SUFFICES ASSUME NEW a \in Monitored PROVE seeded[a] <= slot
      OBVIOUS
    <3>1. seeded[a] \in Int /\ chain[a] \in Int /\ slot \in Int
      BY <1>1, SlotFacts DEF LiveTyped, None
    <3>2. seeded[a] <= chain[a] /\ chain[a] <= slot
      BY <1>1 DEF Rising
    <3> QED BY <3>1, <3>2
  <2>5. Rising'
    BY <1>1, <2>1, <2>4 DEF Rising
  <2>6. StreamsCarryTheStore'
    BY <1>1, <2>1 DEF StreamsCarryTheStore
  <2> QED BY <2>2, <2>3, <2>5, <2>6 DEF LiveIInv
<1>7. CASE Subscribe
  <2>1. phase = "seeded" /\ phase' = "subscribed" /\ ws' = [NoWs EXCEPT !.up = TRUE]
        /\ UNCHANGED <<slot, chain, store, baseline, watermark, poll, seeded, posts, tab>>
    BY <1>7 DEF Subscribe, chainVars, storeVars
  <2>2. ws' \in [up : BOOLEAN, feed : [Monitored -> Seq(Slots)]] /\ ws'.feed = NoFeed
    BY <1>3, <2>1
  <2>3. LiveTyped'
    BY <1>1, <2>1, <2>2 DEF LiveTyped, StoreTyped, TabsTyped
  <2>4. Connected'
    BY <1>1, <2>1 DEF Connected, Subscribed, Serving
  <2>5. \A a \in Monitored : \A i \in 1..Len(ws'.feed[a]) : seeded[a] <= ws'.feed[a][i]
    BY <1>3, <2>2
  <2>6. Rising'
    BY <1>1, <2>1, <2>5 DEF Rising
  <2>7. StreamsCarryTheStore'
    BY <1>1, <2>1 DEF StreamsCarryTheStore
  <2> QED BY <2>3, <2>4, <2>6, <2>7 DEF LiveIInv
<1>8. CASE SeedFails
  <2>1. phase \in {"down", "seeding", "seeded"} /\ phase' = "degraded"
        /\ UNCHANGED <<slot, chain, store, baseline, watermark, ws, poll, seeded, posts, tab>>
    BY <1>8 DEF SeedFails, chainVars, storeVars
  <2>2. LiveTyped'
    BY <1>1, <2>1 DEF LiveTyped, StoreTyped, TabsTyped
  <2>3. Connected'
    BY <1>1, <2>1 DEF Connected, Subscribed, Serving
  <2>4. Rising'
    BY <1>1, <2>1 DEF Rising
  <2>5. StreamsCarryTheStore'
    BY <1>1, <2>1 DEF StreamsCarryTheStore
  <2> QED BY <2>2, <2>3, <2>4, <2>5 DEF LiveIInv
<1>9. CASE Crash
  <2>1. /\ phase' = "down" /\ store' = Nothing /\ baseline' = Nothing /\ seeded' = Nothing
        /\ watermark' = [a \in Monitored |-> 0] /\ ws' = NoWs /\ poll' = {}
        /\ tab' = [t \in Tab |-> Waiting(tab[t])]
        /\ UNCHANGED <<slot, chain, posts>>
    BY <1>9 DEF Crash, chainVars
  <2>2. TabsTyped' /\ \A t \in Tab : tab'[t].stream # "open"
    BY <1>1, <2>1, TabsStop
  <2>3. Nothing \in [Monitored -> Sendable] /\ Nothing \in [Monitored -> Slots \union {None}]
        /\ 0 \in Slots /\ \A a \in Monitored : Nothing[a] = None
    BY SlotFacts DEF Nothing, Slots
  <2>4. LiveTyped'
    BY <1>1, <1>3, <2>1, <2>2, <2>3 DEF LiveTyped, StoreTyped
  <2>5. Connected'
    BY <2>1, <2>2 DEF Connected
  <2>6. Rising'
    <3>1. \A a \in Monitored : None <= chain[a] /\ chain[a] <= slot
      <4>1. \A a \in Monitored : chain[a] \in Slots
        BY <1>2
      <4>2. \A x \in Slots : None <= x
        BY DEF Slots, None
      <4> QED BY <1>1, <4>1, <4>2 DEF Rising
    <3> QED BY <1>3, <2>1, <2>3, <3>1 DEF Rising
  <2>7. StreamsCarryTheStore'
    BY <2>2 DEF StreamsCarryTheStore
  <2> QED BY <2>4, <2>5, <2>6, <2>7 DEF LiveIInv
<1> QED BY <1>5, <1>6, <1>7, <1>8, <1>9 DEF Start

\* A tab's own steps.
LEMMA TabStep ==
  ASSUME LiveIInv, NEW t \in Tab,
         \/ Follow(t) \/ DropStream(t) \/ StartPolling(t) \/ AskRpc(t)
         \/ RpcAnswered(t) \/ RpcFails(t) \/ Hide(t) \/ Show(t)
  PROVE  LiveIInv'
<1>1. LiveTyped /\ Connected /\ Rising /\ StreamsCarryTheStore /\ StoreTyped /\ TabsTyped
  BY DEF LiveIInv, LiveTyped
<1> DEFINE k == tab[t]
<1>2. k \in TabRecord /\ (k.stream # "open" => k.feed = <<>>) /\ (~k.visible => k.stream # "open")
      /\ (k.stream = "open" => Follows(k, store)) /\ DOMAIN tab = Tab
  BY <1>1, FollowsAre DEF TabsTyped
<1>3. UNCHANGED <<slot, chain, phase, store, baseline, watermark, ws, poll, seeded, posts>>
  BY DEF Follow, Connect, Receive, DropStream, StartPolling, AskRpc, RpcAnswered, RpcFails, Hide,
         Show, chainVars, serverVars, storeVars
<1>4. ASSUME NEW n \in TabRecord, tab' = [tab EXCEPT ![t] = n],
             n.stream # "open" => n.feed = <<>>, ~n.visible => n.stream # "open",
             n.stream = "open" => Follows(n, store),
             n.stream = "open" => Serving
      PROVE  LiveIInv'
  <2>1. DOMAIN tab' = Tab /\ tab'[t] = n /\ \A u \in Tab \ {t} : tab'[u] = tab[u]
    BY <1>2, <1>4
  <2>2. TabsTyped'
    BY <1>1, <1>4, <2>1 DEF TabsTyped
  <2>3. LiveTyped'
    BY <1>1, <1>3, <2>2 DEF LiveTyped, StoreTyped
  <2>4. Connected'
    BY <1>1, <1>3, <1>4, <2>1 DEF Connected, Subscribed, Serving
  <2>5. Rising'
    BY <1>1, <1>3 DEF Rising
  <2>6. \A u \in Tab : tab'[u].stream = "open" => Follows(tab'[u], store')
    BY <1>1, <1>3, <1>4, <2>1, FollowsAre
  <2>7. StreamsCarryTheStore'
    BY <2>6 DEF StreamsCarryTheStore, Follows
  <2> QED BY <2>3, <2>4, <2>5, <2>7 DEF LiveIInv
<1>5. k.stream = "open" => Serving
  BY <1>1 DEF Connected
<1>6. CASE Connect(t)
  <2> DEFINE n == [k EXCEPT !.stream = "open", !.feed = <<store>>]
  <2>1. store \in Events /\ <<store>> \in Seq(Events)
    <3>1. store \in Events
      BY <1>1, StatesSent DEF StoreTyped
    <3> QED BY <3>1
  <2>2. n \in TabRecord /\ n.stream = "open" /\ n.visible = k.visible /\ n.feed = <<store>>
    BY <1>2, <2>1 DEF TabRecord
  <2>3. tab' = [tab EXCEPT ![t] = n] /\ Serving /\ k.visible
    BY <1>2, <1>6 DEF Connect, TabRecord
  <2>4. ASSUME NEW a \in Monitored PROVE Shown(n.view, n.feed, a) = store[a]
    <3>1. <<store>> = Append(<<>>, store) /\ <<>> \in Seq(Events) /\ a \in DOMAIN store
      BY <1>1, <2>1 DEF StoreTyped
    <3>2. Shown(n.view, Append(<<>>, store), a) =
            IF a \in DOMAIN store THEN store[a] ELSE Shown(n.view, <<>>, a)
      BY <2>1, <3>1, ShownAppended, Zenon
    <3> QED BY <2>2, <3>1, <3>2
  <2> HIDE DEF n
  <2> QED BY <1>2, <1>4, <2>2, <2>3, <2>4 DEF Follows
<1>7. CASE Receive(t)
  <2> DEFINE n == [k EXCEPT !.feed = Tail(@), !.view = Merged(@, Head(k.feed)), !.polling = FALSE]
  <2>1. k.feed \in Seq(Events) /\ k.feed # <<>> /\ k.stream = "open"
    BY <1>2, <1>7 DEF Receive, TabRecord
  <2>2. Tail(k.feed) \in Seq(Events) /\ Head(k.feed) \in Events
    BY <2>1
  <2>3. Merged(k.view, Head(k.feed)) \in States
    <3>1. PICK D \in SUBSET Monitored : Head(k.feed) \in [D -> Sendable]
      BY <2>2 DEF Events
    <3> QED BY <1>2, <3>1 DEF Merged, States, Sendable, TabRecord
  <2>4. n \in TabRecord /\ n.stream = "open" /\ n.view = Merged(k.view, Head(k.feed))
        /\ n.visible = k.visible /\ n.feed = Tail(k.feed)
    BY <1>2, <2>1, <2>2, <2>3 DEF TabRecord
  <2>5. tab' = [tab EXCEPT ![t] = n]
    BY <1>2, <1>7 DEF Receive, TabRecord
  <2>6. \A a \in Monitored : Shown(n.view, n.feed, a) = Shown(k.view, k.feed, a)
    BY <2>1, <2>4, ShownReceived
  <2> HIDE DEF n
  <2>7. Follows(n, store)
    BY <1>2, <2>1, <2>6 DEF Follows
  <2> QED BY <1>2, <1>4, <1>5, <2>1, <2>4, <2>5, <2>7
<1>8. CASE DropStream(t)
  <2> DEFINE n == Waiting(k)
  <2>a. <<>> \in Seq(Events)
    OBVIOUS
  <2>1. n \in TabRecord /\ n.stream # "open" /\ n.feed = <<>>
    BY <1>2, <2>a DEF TabRecord, Waiting
  <2>2. tab' = [tab EXCEPT ![t] = n]
    BY <1>2, <1>8 DEF DropStream
  <2> HIDE DEF n
  <2> QED BY <1>4, <2>1, <2>2
<1>9. CASE RpcAnswered(t)
  <2> DEFINE v == [a \in Monitored |-> IF k.view[a] = None THEN Polled ELSE k.view[a]]
             n == [k EXCEPT !.asked = FALSE, !.view = v]
  <2>1. v \in States
    BY <1>2 DEF TabRecord, States
  <2>2. n \in TabRecord /\ n.stream = k.stream /\ n.visible = k.visible
        /\ n.feed = k.feed /\ n.view = v
    BY <1>2, <2>1 DEF TabRecord
  <2>3. tab' = [tab EXCEPT ![t] = n]
    BY <1>2, <1>9 DEF RpcAnswered, TabRecord
  <2>4. ASSUME k.stream = "open", NEW a \in Monitored
        PROVE  \/ Shown(n.view, n.feed, a) = store[a]
               \/ Shown(n.view, n.feed, a) = Polled /\ store[a] = None
    <3>1. \/ Shown(k.view, k.feed, a) = store[a]
          \/ Shown(k.view, k.feed, a) = Polled /\ store[a] = None
      BY <1>2, <2>4 DEF Follows
    <3>2. CASE Brought(k.feed, a) = {}
      <4>1. Shown(k.view, k.feed, a) = k.view[a] /\ Shown(n.view, n.feed, a) = v[a]
        BY <2>2, <3>2, ShownNothing
      <4> QED BY <3>1, <4>1
    <3>3. CASE Brought(k.feed, a) # {}
      <4>1. Shown(n.view, n.feed, a) = Shown(k.view, k.feed, a)
        BY <2>2, <3>3 DEF Shown
      <4> QED BY <3>1, <4>1
    <3> QED BY <3>2, <3>3
  <2> HIDE DEF n, v
  <2> QED BY <1>2, <1>4, <1>5, <2>2, <2>3, <2>4 DEF Follows
<1>10. CASE Hide(t)
  <2> DEFINE n == [k EXCEPT !.visible = FALSE, !.stream = "none", !.feed = <<>>, !.polling = FALSE]
  <2>a. <<>> \in Seq(Events)
    OBVIOUS
  <2>1. n \in TabRecord /\ n.stream # "open" /\ n.feed = <<>>
    BY <1>2, <2>a DEF TabRecord
  <2>2. tab' = [tab EXCEPT ![t] = n]
    BY <1>2, <1>10 DEF Hide, TabRecord
  <2> HIDE DEF n
  <2> QED BY <1>4, <2>1, <2>2
<1>11. CASE Show(t)
  <2> DEFINE n == [k EXCEPT !.visible = TRUE, !.stream = "waiting"]
  <2>1. tab' = [tab EXCEPT ![t] = n] /\ ~k.visible
    BY <1>2, <1>11 DEF Show, TabRecord
  <2>2. n \in TabRecord /\ n.stream # "open" /\ n.feed = k.feed
    BY <1>2 DEF TabRecord
  <2> QED BY <1>2, <1>4, <2>1, <2>2
<1>12. CASE StartPolling(t) \/ AskRpc(t) \/ RpcFails(t)
  <2>1. ASSUME NEW n, tab' = [tab EXCEPT ![t] = n], n \in TabRecord, n.stream = k.stream,
               n.visible = k.visible, n.feed = k.feed, n.view = k.view
        PROVE  LiveIInv'
    BY <1>2, <1>4, <1>5, <2>1 DEF Follows
  <2>2. CASE StartPolling(t)
    BY <1>2, <2>1, <2>2 DEF StartPolling, TabRecord
  <2>3. CASE AskRpc(t)
    BY <1>2, <2>1, <2>3 DEF AskRpc, TabRecord
  <2>4. CASE RpcFails(t)
    BY <1>2, <2>1, <2>4 DEF RpcFails, TabRecord
  <2> QED BY <1>12, <2>2, <2>3, <2>4
<1> QED BY <1>6, <1>7, <1>8, <1>9, <1>10, <1>11, <1>12 DEF Follow

LEMMA LiveStepInv == LiveIInv /\ [LiveNext]_liveVars => LiveIInv'
<1> SUFFICES ASSUME LiveIInv, [LiveNext]_liveVars PROVE LiveIInv'
  OBVIOUS
<1>1. CASE LiveNext
  BY <1>1, FeedsStep, SourcesStep, ServerStep, TabStep DEF LiveNext
<1>2. CASE UNCHANGED liveVars
  <2>1. UNCHANGED <<slot, chain, phase, store, baseline, watermark, ws, poll, posts, tab, seeded>>
    BY <1>2 DEF liveVars, serverVars, chainVars, storeVars
  <2>2. LiveTyped'
    BY <2>1 DEF LiveIInv, LiveTyped, StoreTyped, TabsTyped
  <2>3. Connected' /\ Rising'
    BY <2>1 DEF LiveIInv, Connected, Rising, Subscribed, Serving
  <2>4. StreamsCarryTheStore'
    BY <2>1 DEF LiveIInv, StreamsCarryTheStore
  <2> QED BY <2>2, <2>3, <2>4 DEF LiveIInv
<1> QED BY <1>1, <1>2

\* The live state stays typed; a tab that has received what was sent to it
\* shows the store (protocolStore's deduplication, the stream's snapshot); and
\* no replay takes a decoded account back before the seed (the watermark).
THEOREM StreamsAlwaysCarryTheStore == LiveSpec => []LiveInv
<1>1. LiveInit => LiveIInv
  BY LiveInitInv
<1>2. LiveIInv /\ [LiveNext]_liveVars => LiveIInv'
  BY LiveStepInv
<1>3. LiveIInv => LiveInv
  BY LiveInvFollows
<1> QED BY <1>1, <1>2, <1>3, PTL DEF LiveSpec

--------------------------------------------------------------------------------
(* The indexer: what a post brings is stored.                                   *)

CallNames == {"storeTaxedSwap", "upsertCandles", "storeEpochEvents", "queryHeld",
              "storeCarnageEvent"}
CallRecord ==
  [do : CallNames, n : DOMAIN Log, i : Nat, left : SUBSET RESOLUTION_SECONDS]

\* The parser selects: a sequence, with what is of the types in the log and no more.
LEMMA OnlySelects ==
  ASSUME NEW S, NEW events \in Seq(S), NEW types
  PROVE  /\ Only(events, types) \in Seq(S)
         /\ \A e : e \in ToSet(Only(events, types)) <=> e \in ToSet(events) /\ e.type \in types
<1> DEFINE part(k) == IF events[k].type \in types THEN <<events[k]>> ELSE <<>>
           parts == [k \in DOMAIN events |-> part(k)]
<1>1. Len(events) \in Nat /\ DOMAIN events = 1..Len(events) /\ \A k \in 1..Len(events) : events[k] \in S
  OBVIOUS
<1>2. \A k \in 1..Len(events) : part(k) \in Seq(S)
  <2>1. <<>> \in Seq(S)
    OBVIOUS
  <2> QED BY <1>1, <2>1
<1>3. \A k \in 1..Len(events) : \A e :
        e \in ToSet(part(k)) <=> e = events[k] /\ e.type \in types
  <2> TAKE k \in 1..Len(events)
  <2> TAKE e
  <2>1. CASE events[k].type \in types
    <3>1. ToSet(part(k)) = {events[k]}
      BY <2>1 DEF ToSet
    <3> QED BY <2>1, <3>1
  <2>2. CASE events[k].type \notin types
    <3>1. ToSet(part(k)) = {}
      BY <2>2 DEF ToSet
    <3> QED BY <2>2, <3>1
  <2> QED BY <2>1, <2>2
<1> HIDE DEF part
<1>4. parts \in Seq(Seq(S)) /\ DOMAIN parts = 1..Len(events)
      /\ \A k \in 1..Len(events) : parts[k] = part(k)
  BY <1>1, <1>2
<1> HIDE DEF parts
<1>5. Gathers(S, parts, FlattenSeq(parts))
  BY <1>4, FlattenGathers, Zenon
<1>6. Only(events, types) = FlattenSeq(parts)
  BY DEF Only, parts, part
<1>7. ASSUME NEW e
      PROVE e \in ToSet(Only(events, types)) <=> e \in ToSet(events) /\ e.type \in types
  <2>1. e \in ToSet(Only(events, types)) <=> \E k \in 1..Len(events) : e \in ToSet(part(k))
    BY <1>4, <1>5, <1>6 DEF Gathers
  <2>2. e \in ToSet(Only(events, types)) <=>
          \E k \in 1..Len(events) : e = events[k] /\ e.type \in types
    BY <1>3, <2>1, Zenon
  <2>3. e \in ToSet(events) <=> \E k \in 1..Len(events) : e = events[k]
    BY <1>1 DEF ToSet
  <2> QED BY <2>2, <2>3
<1> QED BY <1>5, <1>6, <1>7 DEF Gathers

\* So every list of events is a sequence; one of them there is the first.
LEMMA EventsAreSequences ==
  ASSUME NEW n \in DOMAIN Log
  PROVE  LET S == ToSet(Log[n].events)
         IN  /\ \A types : OfType(n, types) \in Seq(S)
             /\ \A types, e : e \in ToSet(OfType(n, types)) <=> e \in S /\ e.type \in types
             /\ Trades(n) \in Seq(S)
             /\ parseEpochEvents(n) \in Seq(S)
             /\ parseCarnageEvents(n) \in Seq(S)
<1> DEFINE S == ToSet(Log[n].events)
<1>1. Log[n].events \in Seq(S)
  BY IndexerAssumption
<1>2. S = ToSet(Log[n].events)
  OBVIOUS
<1> HIDE DEF S
<1>3. ASSUME NEW types
      PROVE  /\ OfType(n, types) \in Seq(S)
             /\ \A e : e \in ToSet(OfType(n, types)) <=> e \in S /\ e.type \in types
  BY <1>1, <1>2, OnlySelects, Zenon DEF OfType
<1>4. Trades(n) \in Seq(S)
  <2>1. parseSwapEvents(n) \in Seq(S)
    BY <1>3 DEF parseSwapEvents
  <2> QED BY <2>1, OnlySelects, Zenon DEF Trades
<1>5. parseEpochEvents(n) \in Seq(S) /\ parseCarnageEvents(n) \in Seq(S)
  BY <1>3 DEF parseEpochEvents, parseCarnageEvents
<1> QED BY <1>3, <1>4, <1>5 DEF S

\* What a post has a request do for a transaction: a call for each row.
LEMMA CallsOfRequest ==
  ASSUME NEW w, w # Backfill, NEW n \in DOMAIN Log
  PROVE  /\ Calls(w, n) \in Seq(CallRecord)
         /\ \A i \in DOMAIN Trades(n) : Call("storeTaxedSwap", n, i) \in ToSet(Calls(w, n))
         /\ parseEpochEvents(n) # <<>> => Call("storeEpochEvents", n, 1) \in ToSet(Calls(w, n))
         /\ \A i \in DOMAIN parseCarnageEvents(n) :
              Call("storeCarnageEvent", n, i) \in ToSet(Calls(w, n))
<1> DEFINE trade(i) == TradeCalls(w, n, i)
           carnage(i) == CarnageCalls(n, i)
           trades == [i \in DOMAIN Trades(n) |-> trade(i)]
           carnages == [i \in DOMAIN parseCarnageEvents(n) |-> carnage(i)]
           epoch == IF parseEpochEvents(n) = <<>> THEN <<>> ELSE <<Call("storeEpochEvents", n, 1)>>
<1>2. ASSUME NEW do \in CallNames, NEW i \in Nat
      PROVE  Call(do, n, i) \in CallRecord
  BY DEF Call, CallRecord
<1>3. /\ Len(Trades(n)) \in Nat /\ DOMAIN Trades(n) = 1..Len(Trades(n))
      /\ Len(parseCarnageEvents(n)) \in Nat
      /\ DOMAIN parseCarnageEvents(n) = 1..Len(parseCarnageEvents(n))
  <2> DEFINE S == ToSet(Log[n].events)
  <2>1. Trades(n) \in Seq(S) /\ parseCarnageEvents(n) \in Seq(S)
    BY EventsAreSequences
  <2> HIDE DEF S
  <2> QED BY <2>1
<1>4. ASSUME NEW i \in DOMAIN Trades(n)
      PROVE  trade(i) \in Seq(CallRecord) /\ Call("storeTaxedSwap", n, i) \in ToSet(trade(i))
  <2> DEFINE a == Call("storeTaxedSwap", n, i)
             b == Call("upsertCandles", n, i)
  <2>1. a \in CallRecord /\ b \in CallRecord
    BY <1>2, <1>3 DEF CallNames
  <2>2. trade(i) = <<a, b>> \/ trade(i) = <<a>>
    BY DEF TradeCalls
  <2> HIDE DEF a, b, trade
  <2>3. CASE trade(i) = <<a, b>>
    <3>1. <<a, b>> \in Seq(CallRecord) /\ <<a, b>>[1] = a /\ 1 \in DOMAIN <<a, b>>
      BY <2>1
    <3> QED BY <2>3, <3>1 DEF ToSet, a
  <2>4. CASE trade(i) = <<a>>
    <3>1. <<a>> \in Seq(CallRecord) /\ <<a>>[1] = a /\ 1 \in DOMAIN <<a>>
      BY <2>1
    <3> QED BY <2>4, <3>1 DEF ToSet, a
  <2> QED BY <2>2, <2>3, <2>4
<1>5. ASSUME NEW i \in DOMAIN parseCarnageEvents(n)
      PROVE  carnage(i) \in Seq(CallRecord) /\ Call("storeCarnageEvent", n, i) \in ToSet(carnage(i))
  <2> DEFINE a == Call("queryHeld", n, i)
             b == Call("storeCarnageEvent", n, i)
  <2>1. a \in CallRecord /\ b \in CallRecord
    BY <1>2, <1>3 DEF CallNames
  <2>2. carnage(i) = <<a, b>> \/ carnage(i) = <<b>>
    BY DEF CarnageCalls
  <2> HIDE DEF a, b, carnage
  <2>3. CASE carnage(i) = <<a, b>>
    <3>1. <<a, b>> \in Seq(CallRecord) /\ <<a, b>>[2] = b /\ 2 \in DOMAIN <<a, b>>
      BY <2>1
    <3> QED BY <2>3, <3>1 DEF ToSet, b
  <2>4. CASE carnage(i) = <<b>>
    <3>1. <<b>> \in Seq(CallRecord) /\ <<b>>[1] = b /\ 1 \in DOMAIN <<b>>
      BY <2>1
    <3> QED BY <2>4, <3>1 DEF ToSet, b
  <2> QED BY <2>2, <2>3, <2>4
<1>6. epoch \in Seq(CallRecord)
      /\ (parseEpochEvents(n) # <<>> => Call("storeEpochEvents", n, 1) \in ToSet(epoch))
  <2> DEFINE a == Call("storeEpochEvents", n, 1)
  <2>1. a \in CallRecord
    BY <1>2 DEF CallNames
  <2> HIDE DEF a
  <2>2. <<a>> \in Seq(CallRecord) /\ <<a>>[1] = a /\ 1 \in DOMAIN <<a>>
    BY <2>1
  <2>3. <<>> \in Seq(CallRecord)
    OBVIOUS
  <2>4. CASE parseEpochEvents(n) = <<>>
    BY <2>3, <2>4
  <2>5. CASE parseEpochEvents(n) # <<>>
    <3>1. epoch = <<a>>
      BY <2>5 DEF a
    <3> QED BY <2>2, <3>1 DEF ToSet, a
  <2> QED BY <2>4, <2>5
<1>7. Calls(w, n) = FlattenSeq(trades) \o (epoch \o FlattenSeq(carnages))
  BY DEF Calls
<1> HIDE DEF trade, carnage, epoch
<1>8. /\ trades \in Seq(Seq(CallRecord)) /\ DOMAIN trades = DOMAIN Trades(n)
      /\ \A i \in DOMAIN Trades(n) : trades[i] = trade(i)
  BY <1>3, <1>4
<1>9. /\ carnages \in Seq(Seq(CallRecord)) /\ DOMAIN carnages = DOMAIN parseCarnageEvents(n)
      /\ \A i \in DOMAIN parseCarnageEvents(n) : carnages[i] = carnage(i)
  BY <1>3, <1>5
<1> HIDE DEF trades, carnages
<1>10. /\ Gathers(CallRecord, trades, FlattenSeq(trades))
       /\ Gathers(CallRecord, carnages, FlattenSeq(carnages))
  BY <1>8, <1>9, FlattenGathers, Zenon
<1>11. FlattenSeq(trades) \in Seq(CallRecord) /\ FlattenSeq(carnages) \in Seq(CallRecord)
  BY <1>10 DEF Gathers
<1> DEFINE rest == epoch \o FlattenSeq(carnages)
<1>12. /\ rest \in Seq(CallRecord)
       /\ \A x : x \in ToSet(rest) <=> x \in ToSet(epoch) \/ x \in ToSet(FlattenSeq(carnages))
  BY <1>6, <1>11, JoinToSet, Zenon
<1> HIDE DEF rest
<1>13. /\ Calls(w, n) \in Seq(CallRecord)
       /\ \A x : x \in ToSet(Calls(w, n)) <=> x \in ToSet(FlattenSeq(trades)) \/ x \in ToSet(rest)
  <2>1. Calls(w, n) = FlattenSeq(trades) \o rest
    BY <1>7 DEF rest
  <2> QED BY <2>1, <1>11, <1>12, JoinToSet, Zenon
<1>14. ASSUME NEW i \in DOMAIN Trades(n)
       PROVE  Call("storeTaxedSwap", n, i) \in ToSet(Calls(w, n))
  BY <1>4, <1>8, <1>10, <1>13, Zenon DEF Gathers
<1>15. ASSUME NEW i \in DOMAIN parseCarnageEvents(n)
       PROVE  Call("storeCarnageEvent", n, i) \in ToSet(Calls(w, n))
  BY <1>5, <1>9, <1>10, <1>12, <1>13, Zenon DEF Gathers
<1> QED BY <1>6, <1>12, <1>13, <1>14, <1>15, Zenon

--------------------------------------------------------------------------------
(* The invariant: what is neither due nor stored is in a post that waits for its *)
(* answer, in its payload or with a call to come for each row.                   *)

Skipped(n) == Log[n].failed \/ Stale(n)
SwapStored(n) == Trades(n) # <<>> => n \in DOMAIN swap_events
EpochStored(n) ==
  parseEpochEvents(n) # <<>> =>
    \E e \in ToSet(parseEpochEvents(n)) : e.epoch \in DOMAIN epoch_events
CarnageStored(n, i) == parseCarnageEvents(n)[i].epoch \in DOMAIN carnage_events

Handled(n) ==
  Skipped(n) \/ /\ SwapStored(n)
                /\ EpochStored(n)
                /\ \A i \in DOMAIN parseCarnageEvents(n) : CarnageStored(n, i)

ToCome(w, do, n, i) ==
  \E c \in ToSet(work[w].calls) : c.do = do /\ c.n = n /\ c.i = i

Underway(w, n) ==
  Skipped(n) \/ /\ SwapStored(n) \/ ToCome(w, "storeTaxedSwap", n, 1)
                /\ EpochStored(n) \/ ToCome(w, "storeEpochEvents", n, 1)
                /\ \A i \in DOMAIN parseCarnageEvents(n) :
                     CarnageStored(n, i) \/ ToCome(w, "storeCarnageEvent", n, i)

Promised(w, n) ==
  n \in work[w].batch /\ (n \in ToSet(work[w].payload) \/ Underway(w, n))

NothingIsForgotten ==
  faults = 0 => \A n \in Landed \ due : Handled(n) \/ \E w \in Request : Promised(w, n)

Shape(r) == r = [payload |-> r.payload, batch |-> r.batch, calls |-> r.calls,
                 prevTarget |-> r.prevTarget]

ChainTyped ==
  /\ now \in Nat
  /\ blockTime \in Seq(Nat)
  /\ Len(blockTime) <= Len(Log)
  /\ due \subseteq Landed
  /\ faults \in Nat

WorkTyped ==
  /\ DOMAIN work = Worker
  /\ \A w \in Worker : Shape(work[w])
  /\ work[Backfill].batch = {}
  /\ \A w \in Request : /\ work[w].payload \in Seq(DOMAIN Log)
                        /\ work[w].batch \subseteq Landed
                        /\ work[w].calls \in Seq(CallRecord)

DeliveryInv == ChainTyped /\ WorkTyped /\ NothingIsForgotten

\* Requests and the backfill are different workers.
LEMMA Workers ==
  /\ \A w \in Request : w \in Worker /\ w # Backfill
  /\ Backfill \in Worker
  /\ \A w \in Worker : w # Backfill => w \in Request
BY IndexerAssumption DEF Worker

LEMMA LandedTxs ==
  ASSUME ChainTyped
  PROVE  Landed \subseteq DOMAIN Log /\ Landed = 1..Len(blockTime) /\ Len(blockTime) \in Nat
         /\ Landed \subseteq Nat /\ IsFiniteSet(Landed)
<1>1. Log \in Seq(ToSet(Log))
  BY IndexerAssumption
<1>2. DOMAIN Log = 1..Len(Log) /\ Len(Log) \in Nat
  BY <1>1
<1>3. Len(blockTime) \in Nat /\ Len(blockTime) <= Len(Log)
  BY DEF ChainTyped
<1>4. IsFiniteSet(1..Len(blockTime))
  BY <1>3, FS_Interval
<1> QED BY <1>2, <1>3, <1>4 DEF Landed

\* A quiet server owes nothing.
LEMMA QuietStored == DeliveryInv => EventsAreStored
<1> SUFFICES ASSUME DeliveryInv, Quiet, faults = 0, NEW n \in Landed \ due
             PROVE  Handled(n)
  <2>1. ASSUME NEW n, Handled(n)
        PROVE  \/ Log[n].failed \/ Stale(n)
               \/ /\ Trades(n) # <<>> => n \in DOMAIN swap_events
                  /\ parseEpochEvents(n) # <<>> =>
                       \E e \in ToSet(parseEpochEvents(n)) : e.epoch \in DOMAIN epoch_events
                  /\ \A e \in ToSet(parseCarnageEvents(n)) : e.epoch \in DOMAIN carnage_events
    BY <2>1 DEF Handled, Skipped, SwapStored, EpochStored, CarnageStored, ToSet
  <2> QED BY <2>1, Zenon DEF EventsAreStored
<1>1. ASSUME NEW w \in Request PROVE ~Promised(w, n)
  BY <1>1, Workers DEF Quiet, Idle, Promised
<1> QED BY <1>1 DEF DeliveryInv, NothingIsForgotten

\* A step adds rows and leaves the transactions that were too late what they are.
TablesGrow ==
  /\ DOMAIN swap_events \subseteq DOMAIN swap_events'
  /\ DOMAIN epoch_events \subseteq DOMAIN epoch_events'
  /\ DOMAIN carnage_events \subseteq DOMAIN carnage_events'
StaleStays == \A n \in Landed : Stale(n) => Stale(n)'

LEMMA HandledStays ==
  ASSUME TablesGrow, StaleStays, NEW n \in Landed, Handled(n)
  PROVE  Handled(n)'
BY DEF TablesGrow, StaleStays, Handled, Skipped, SwapStored, EpochStored, CarnageStored

\* A call that has been made has done what it is for; the others are still to come.
Performed(c) ==
  /\ c.do = "storeTaxedSwap" => SwapStored(c.n)
  /\ c.do = "storeEpochEvents" => EpochStored(c.n)
  /\ c.do = "storeCarnageEvent" => CarnageStored(c.n, c.i)
CallsCarryOn(w) ==
  \A c \in ToSet(work[w].calls) :
    \/ \E d \in ToSet(work'[w].calls) : d.do = c.do /\ d.n = c.n /\ d.i = c.i
    \/ Performed(c)'

LEMMA UnderwayStays ==
  ASSUME TablesGrow, StaleStays, NEW w, NEW n \in Landed, Underway(w, n), CallsCarryOn(w)
  PROVE  Underway(w, n)'
<1>1. CASE Skipped(n)
  BY <1>1 DEF StaleStays, Skipped, Underway
<1>2. CASE ~Skipped(n)
  <2>1. SwapStored(n)' \/ ToCome(w, "storeTaxedSwap", n, 1)'
    <3>1. CASE SwapStored(n)
      BY <3>1 DEF TablesGrow, SwapStored
    <3>2. CASE ToCome(w, "storeTaxedSwap", n, 1)
      BY <3>2 DEF CallsCarryOn, ToCome, Performed
    <3> QED BY <1>2, <3>1, <3>2 DEF Underway
  <2>2. EpochStored(n)' \/ ToCome(w, "storeEpochEvents", n, 1)'
    <3>1. CASE EpochStored(n)
      BY <3>1 DEF TablesGrow, EpochStored
    <3>2. CASE ToCome(w, "storeEpochEvents", n, 1)
      BY <3>2 DEF CallsCarryOn, ToCome, Performed
    <3> QED BY <1>2, <3>1, <3>2 DEF Underway
  <2>3. ASSUME NEW i \in DOMAIN parseCarnageEvents(n)
        PROVE  CarnageStored(n, i)' \/ ToCome(w, "storeCarnageEvent", n, i)'
    <3>1. CASE CarnageStored(n, i)
      BY <3>1 DEF TablesGrow, CarnageStored
    <3>2. CASE ToCome(w, "storeCarnageEvent", n, i)
      BY <3>2 DEF CallsCarryOn, ToCome, Performed
    <3> QED BY <1>2, <3>1, <3>2 DEF Underway
  <2> QED BY <2>1, <2>2, <2>3 DEF Underway
<1> QED BY <1>1, <1>2

LEMMA HeadTail ==
  ASSUME NEW S, NEW q \in Seq(S), q # <<>>
  PROVE  /\ Head(q) \in S /\ Tail(q) \in Seq(S)
         /\ Len(q) \in Nat \ {0} /\ q[1] = Head(q)
         /\ \A c \in ToSet(q) : c = Head(q) \/ c \in ToSet(Tail(q))
         /\ \A c \in ToSet(Tail(q)) : c \in ToSet(q)
<1>1. /\ Head(q) \in S /\ Tail(q) \in Seq(S) /\ Len(q) \in Nat \ {0} /\ q[1] = Head(q)
      /\ DOMAIN q = 1..Len(q)
      /\ Len(Tail(q)) = Len(q) - 1 /\ DOMAIN Tail(q) = 1..(Len(q) - 1)
      /\ \A i \in 1..(Len(q) - 1) : Tail(q)[i] = q[i + 1]
  OBVIOUS
<1>2. ASSUME NEW c \in ToSet(q), c # Head(q) PROVE c \in ToSet(Tail(q))
  <2>1. PICK i \in 1..Len(q) : q[i] = c
    BY <1>1, <1>2 DEF ToSet
  <2>2. i # 1 /\ i - 1 \in 1..(Len(q) - 1) /\ (i - 1) + 1 = i
    BY <1>1, <1>2, <2>1
  <2>3. Tail(q)[i - 1] = c
    BY <1>1, <2>1, <2>2
  <2> QED BY <1>1, <2>2, <2>3 DEF ToSet
<1>3. ASSUME NEW c \in ToSet(Tail(q)) PROVE c \in ToSet(q)
  <2>1. PICK i \in 1..(Len(q) - 1) : Tail(q)[i] = c
    BY <1>1, <1>3 DEF ToSet
  <2>2. i + 1 \in 1..Len(q) /\ q[i + 1] = c
    BY <1>1, <2>1
  <2> QED BY <1>1, <2>2 DEF ToSet
<1> QED BY <1>1, <1>2, <1>3

LEMMA OthersKeepPromises ==
  ASSUME TablesGrow, StaleStays, NEW v, work'[v] = work[v],
         NEW n \in Landed, Promised(v, n)
  PROVE  Promised(v, n)'
<1>1. CallsCarryOn(v)
  BY DEF CallsCarryOn
<1>2. Underway(v, n) => Underway(v, n)'
  BY <1>1, UnderwayStays
<1> QED BY <1>2 DEF Promised

\* A step of one worker that leaves what Helius and the chain know alone.
OneWorks(w) ==
  /\ UNCHANGED <<now, blockTime, due>>
  /\ DOMAIN work' = Worker
  /\ \A v \in Worker \ {w} : work'[v] = work[v]
  /\ Shape(work'[w]) /\ work'[w].batch = work[w].batch
  /\ w \in Request => work'[w].payload \in Seq(DOMAIN Log) /\ work'[w].calls \in Seq(CallRecord)

LEMMA OneWorksTyped ==
  ASSUME ChainTyped, WorkTyped, NEW w \in Worker, OneWorks(w), faults' \in Nat
  PROVE  ChainTyped' /\ WorkTyped'
<1>1. Landed' = Landed /\ ChainTyped'
  BY DEF OneWorks, Landed, ChainTyped
<1>2. \A v \in Worker : Shape(work'[v]) /\ work'[v].batch = work[v].batch
  BY DEF WorkTyped, OneWorks
<1>3. \A v \in Request : work'[v].payload \in Seq(DOMAIN Log) /\ work'[v].calls \in Seq(CallRecord)
  BY Workers DEF WorkTyped, OneWorks
<1>4. DOMAIN work' = Worker
  BY DEF OneWorks
<1> QED BY <1>1, <1>2, <1>3, <1>4, Workers DEF WorkTyped, Shape

LEMMA OneWorksKeeps ==
  ASSUME DeliveryInv, NEW w \in Worker, OneWorks(w), UNCHANGED faults, TablesGrow,
         w \in Request => \A n \in Landed : Promised(w, n) => Promised(w, n)'
  PROVE  DeliveryInv'
<1>1. StaleStays
  BY DEF OneWorks, StaleStays, Stale
<1>2. ChainTyped' /\ WorkTyped'
  BY OneWorksTyped DEF DeliveryInv, ChainTyped
<1>3. NothingIsForgotten'
  <2>1. Landed' = Landed
    BY DEF OneWorks, Landed
  <2> SUFFICES ASSUME faults = 0, NEW n \in Landed \ due
               PROVE  Handled(n)' \/ \E v \in Request : Promised(v, n)'
    BY <2>1 DEF NothingIsForgotten, OneWorks
  <2>2. CASE Handled(n)
    BY <1>1, <2>2, HandledStays
  <2>3. CASE \E v \in Request : Promised(v, n)
    <3>1. PICK v \in Request : Promised(v, n)
      BY <2>3
    <3>2. CASE v = w
      BY <3>1, <3>2
    <3>3. CASE v # w
      <4>1. work'[v] = work[v]
        BY <3>3, Workers DEF OneWorks
      <4> QED BY <1>1, <3>1, <4>1, OthersKeepPromises
    <3> QED BY <3>2, <3>3
  <2> QED BY <2>2, <2>3 DEF DeliveryInv, NothingIsForgotten
<1> QED BY <1>2, <1>3 DEF DeliveryInv

LEMMA Fields ==
  ASSUME NEW r, NEW p, NEW b, NEW c, NEW t,
         r = [payload |-> p, batch |-> b, calls |-> c, prevTarget |-> t]
  PROVE  Shape(r) /\ r.payload = p /\ r.batch = b /\ r.calls = c
BY DEF Shape

\* What is left of a worker's record.
LEMMA Dropped ==
  ASSUME WorkTyped, NEW w \in Worker, work[w].calls # <<>>, NEW target,
         work' = [work EXCEPT ![w].calls = Tail(@), ![w].prevTarget = target],
         UNCHANGED <<now, blockTime, due>>
  PROVE  /\ OneWorks(w)
         /\ work'[w].payload = work[w].payload /\ work'[w].calls = Tail(work[w].calls)
<1>1. /\ DOMAIN work' = Worker
      /\ \A v \in Worker \ {w} : work'[v] = work[v]
      /\ work'[w] = [work[w] EXCEPT !.calls = Tail(@), !.prevTarget = target]
  BY DEF WorkTyped
<1>2. work[w] = [payload |-> work[w].payload, batch |-> work[w].batch,
                 calls |-> work[w].calls, prevTarget |-> work[w].prevTarget]
  BY DEF WorkTyped, Shape
<1>3. work'[w] = [payload |-> work[w].payload, batch |-> work[w].batch,
                  calls |-> Tail(work[w].calls), prevTarget |-> target]
  BY <1>1, <1>2
<1>4. /\ Shape(work'[w]) /\ work'[w].batch = work[w].batch
      /\ work'[w].payload = work[w].payload /\ work'[w].calls = Tail(work[w].calls)
  <2>1. PICK r : r = work'[w]
    OBVIOUS
  <2>2. PICK q : q = Tail(work[w].calls)
    OBVIOUS
  <2>3. PICK p, b : p = work[w].payload /\ b = work[w].batch
    OBVIOUS
  <2>4. r = [payload |-> p, batch |-> b, calls |-> q, prevTarget |-> target]
    BY <1>3, <2>1, <2>2, <2>3
  <2>5. Shape(r) /\ r.payload = p /\ r.batch = b /\ r.calls = q
    BY <2>4, Fields, Zenon
  <2> QED BY <2>1, <2>2, <2>3, <2>5
<1>5. w \in Request => Tail(work[w].calls) \in Seq(CallRecord)
  BY HeadTail DEF WorkTyped
<1> QED BY <1>1, <1>4, <1>5 DEF OneWorks, WorkTyped

LEMMA LessLeft ==
  ASSUME WorkTyped, NEW w \in Worker, work[w].calls # <<>>, NEW r,
         work' = [work EXCEPT ![w].calls[1].left = @ \ {r}],
         UNCHANGED <<now, blockTime, due>>
  PROVE  /\ OneWorks(w)
         /\ work'[w].payload = work[w].payload
         /\ work'[w].calls = [work[w].calls EXCEPT ![1].left = @ \ {r}]
         /\ w \in Request => CallsCarryOn(w)
<1>1. /\ DOMAIN work' = Worker
      /\ \A v \in Worker \ {w} : work'[v] = work[v]
      /\ work'[w] = [work[w] EXCEPT !.calls[1].left = @ \ {r}]
  BY DEF WorkTyped
<1>2. work'[w] = [payload |-> work[w].payload, batch |-> work[w].batch,
                  calls |-> [work[w].calls EXCEPT ![1].left = @ \ {r}],
                  prevTarget |-> work[w].prevTarget]
  <2>1. Shape(work[w])
    BY DEF WorkTyped
  <2> QED BY <1>1, <2>1 DEF Shape
<1>3. /\ Shape(work'[w]) /\ work'[w].batch = work[w].batch
      /\ work'[w].payload = work[w].payload
      /\ work'[w].calls = [work[w].calls EXCEPT ![1].left = @ \ {r}]
  <2>1. PICK s : s = work'[w]
    OBVIOUS
  <2>2. PICK q : q = [work[w].calls EXCEPT ![1].left = @ \ {r}]
    OBVIOUS
  <2>3. PICK p, b, t : p = work[w].payload /\ b = work[w].batch /\ t = work[w].prevTarget
    OBVIOUS
  <2>4. s = [payload |-> p, batch |-> b, calls |-> q, prevTarget |-> t]
    BY <1>2, <2>1, <2>2, <2>3
  <2>5. Shape(s) /\ s.payload = p /\ s.batch = b /\ s.calls = q
    BY <2>4, Fields, Zenon
  <2> QED BY <2>1, <2>2, <2>3, <2>5
<1>4. ASSUME w \in Request
      PROVE  work'[w].calls \in Seq(CallRecord) /\ CallsCarryOn(w)
  <2>1. PICK q \in Seq(CallRecord) : q = work[w].calls
    BY <1>4 DEF WorkTyped
  <2>2. Len(q) \in Nat \ {0} /\ DOMAIN q = 1..Len(q) /\ \A k \in 1..Len(q) : q[k] \in CallRecord
    BY <2>1
  <2>3. PICK p : p = [q EXCEPT ![1].left = @ \ {r}]
    OBVIOUS
  <2>4. /\ DOMAIN p = 1..Len(q)
        /\ \A k \in 1..Len(q) : k # 1 => p[k] = q[k]
        /\ p[1] = [q[1] EXCEPT !.left = @ \ {r}]
    <3>1. 1 \in DOMAIN q
      BY <2>2
    <3>2. DOMAIN p = DOMAIN q
      BY <2>3
    <3>3. p[1] = [q[1] EXCEPT !.left = @ \ {r}]
      BY <2>3, <3>1
    <3>4. \A k \in DOMAIN q : k # 1 => p[k] = q[k]
      BY <2>3
    <3> QED BY <2>2, <3>2, <3>3, <3>4
  <2>5. \A k \in 1..Len(q) : p[k] \in CallRecord /\ p[k].do = q[k].do /\ p[k].n = q[k].n
                             /\ p[k].i = q[k].i
    <3>1. p[1] \in CallRecord /\ p[1].do = q[1].do /\ p[1].n = q[1].n /\ p[1].i = q[1].i
      <4>1. 1 \in 1..Len(q) /\ q[1] \in CallRecord
        BY <2>2
      <4>2. q[1].left \ {r} \in SUBSET RESOLUTION_SECONDS
        BY <4>1 DEF CallRecord
      <4>3. p[1] = [q[1] EXCEPT !.left = @ \ {r}]
        BY <2>4
      <4> QED BY <4>1, <4>2, <4>3 DEF CallRecord
    <3> QED BY <2>2, <2>4, <3>1
  <2>6. p \in Seq(CallRecord)
    <3>1. p = [k \in 1..Len(q) |-> p[k]]
      BY <2>2, <2>3
    <3> QED BY <2>2, <2>5, <3>1
  <2>7. ASSUME NEW d \in ToSet(q)
        PROVE  \E e \in ToSet(p) : e.do = d.do /\ e.n = d.n /\ e.i = d.i
    <3>1. PICK k \in 1..Len(q) : q[k] = d
      BY <2>2, <2>7 DEF ToSet
    <3>2. p[k] \in ToSet(p)
      BY <2>4 DEF ToSet
    <3> QED BY <2>5, <3>1, <3>2
  <2> QED BY <1>3, <2>1, <2>3, <2>6, <2>7 DEF CallsCarryOn
<1> QED BY <1>1, <1>3, <1>4 DEF OneWorks, WorkTyped

\* A call is made and dropped.
LEMMA DroppedCall ==
  ASSUME DeliveryInv, NEW w \in Worker, work[w].calls # <<>>, NEW target,
         work' = [work EXCEPT ![w].calls = Tail(@), ![w].prevTarget = target],
         UNCHANGED <<now, blockTime, due, faults>>, TablesGrow,
         NEW c, c = Next1(w), w \in Request => Performed(c)'
  PROVE  DeliveryInv'
<1>1. WorkTyped
  BY DEF DeliveryInv
<1>2. OneWorks(w) /\ work'[w].payload = work[w].payload /\ work'[w].calls = Tail(work[w].calls)
  BY <1>1, Dropped
<1>3. ASSUME w \in Request, NEW n \in Landed, Promised(w, n) PROVE Promised(w, n)'
  <2>1. StaleStays
    BY DEF StaleStays, Stale
  <2>2. CallsCarryOn(w)
    BY <1>1, <1>2, <1>3, HeadTail DEF WorkTyped, CallsCarryOn, Next1
  <2>3. Underway(w, n) => Underway(w, n)'
    BY <1>3, <2>1, <2>2, UnderwayStays
  <2> QED BY <1>2, <1>3, <2>3 DEF Promised, OneWorks
<1> QED BY <1>2, <1>3, OneWorksKeeps

LEMMA RowWritten ==
  ASSUME NEW table, NEW key, NEW row
  PROVE  DOMAIN Inserted(table, key, row) = DOMAIN table \union {key}
BY DEF Inserted, With

LEMMA SwapStep ==
  ASSUME DeliveryInv, NEW w \in Worker, storeTaxedSwap(w)
  PROVE  DeliveryInv'
<1>1. PICK c : c = Next1(w)
  OBVIOUS
<1>2. DOMAIN swap_events' = DOMAIN swap_events \union {c.n}
  BY <1>1, RowWritten DEF storeTaxedSwap
<1>3. /\ UNCHANGED <<now, blockTime, due, faults, epoch_events, carnage_events>>
      /\ work[w].calls # <<>> /\ c.do = "storeTaxedSwap"
      /\ work' = [work EXCEPT ![w].calls = Tail(@), ![w].prevTarget = "none"]
  BY <1>1 DEF storeTaxedSwap, bounds, At, Done
<1>4. TablesGrow
  BY <1>2, <1>3 DEF TablesGrow
<1>5. Performed(c)'
  BY <1>2, <1>3 DEF Performed, SwapStored
<1> QED BY <1>1, <1>3, <1>4, <1>5, DroppedCall

LEMMA EpochRowStep ==
  ASSUME DeliveryInv, NEW w \in Worker, storeEpochEvents(w)
  PROVE  DeliveryInv'
<1>1. PICK c : c = Next1(w)
  OBVIOUS
<1> DEFINE transitions == OfType(c.n, {"EpochTransitionTriggered"})
           updates     == OfType(c.n, {"TaxesUpdated"})
           number      == Head(transitions \o updates).epoch
<1>2. DOMAIN epoch_events' = DOMAIN epoch_events \union {number}
  BY <1>1, RowWritten DEF storeEpochEvents
<1>3. /\ UNCHANGED <<now, blockTime, due, faults, swap_events, carnage_events>>
      /\ work[w].calls # <<>> /\ c.do = "storeEpochEvents"
      /\ work' = [work EXCEPT ![w].calls = Tail(@), ![w].prevTarget = "none"]
  BY <1>1 DEF storeEpochEvents, bounds, At, Done
<1>4. TablesGrow
  BY <1>2, <1>3 DEF TablesGrow
<1>5. ASSUME w \in Request PROVE Performed(c)'
  <2>1. c.n \in DOMAIN Log
    <3>1. work[w].calls \in Seq(CallRecord)
      BY <1>5 DEF DeliveryInv, WorkTyped
    <3>2. c \in CallRecord
      BY <1>1, <1>3, <3>1, HeadTail, Zenon DEF Next1
    <3> QED BY <3>2 DEF CallRecord
  <2> SUFFICES ASSUME parseEpochEvents(c.n) # <<>>
               PROVE  \E e \in ToSet(parseEpochEvents(c.n)) : e.epoch = number
    BY <1>2, <1>3 DEF Performed, EpochStored
  <2> DEFINE S == ToSet(Log[c.n].events)
             rows == transitions \o updates
  <2>2. /\ transitions \in Seq(S) /\ updates \in Seq(S)
        /\ \A e : e \in ToSet(transitions) <=> e \in S /\ e.type \in {"EpochTransitionTriggered"}
        /\ \A e : e \in ToSet(updates) <=> e \in S /\ e.type \in {"TaxesUpdated"}
        /\ parseEpochEvents(c.n) \in Seq(S)
        /\ \A e : e \in ToSet(parseEpochEvents(c.n)) <=>
                   e \in S /\ e.type \in {"EpochTransitionTriggered", "TaxesUpdated"}
    BY <2>1, EventsAreSequences, Zenon DEF parseEpochEvents
  <2> HIDE DEF S, transitions, updates
  <2>3. /\ rows \in Seq(S)
        /\ \A e : e \in ToSet(rows) <=> e \in ToSet(transitions) \/ e \in ToSet(updates)
    BY <2>2, JoinToSet, Zenon
  <2> HIDE DEF rows
  <2>4. \A e : e \in ToSet(rows) <=> e \in ToSet(parseEpochEvents(c.n))
    BY <2>2, <2>3
  <2>5. parseEpochEvents(c.n)[1] \in ToSet(parseEpochEvents(c.n))
    BY <2>2 DEF ToSet
  <2>6. rows # <<>>
    <3>1. ToSet(<<>>) = {}
      BY DEF ToSet
    <3> QED BY <2>4, <2>5, <3>1
  <2>7. Head(rows) \in ToSet(rows)
    BY <2>3, <2>6 DEF ToSet
  <2>8. number = Head(rows).epoch
    BY DEF rows
  <2> QED BY <2>4, <2>7, <2>8
<1> QED BY <1>1, <1>3, <1>4, <1>5, DroppedCall

LEMMA CarnageRowStep ==
  ASSUME DeliveryInv, NEW w \in Worker, storeCarnageEvent(w)
  PROVE  DeliveryInv'
<1>1. PICK c : c = Next1(w)
  OBVIOUS
<1>2. DOMAIN carnage_events' = DOMAIN carnage_events \union {parseCarnageEvents(c.n)[c.i].epoch}
  BY <1>1, RowWritten DEF storeCarnageEvent
<1>3. /\ UNCHANGED <<now, blockTime, due, faults, swap_events, epoch_events>>
      /\ work[w].calls # <<>> /\ c.do = "storeCarnageEvent"
      /\ work' = [work EXCEPT ![w].calls = Tail(@), ![w].prevTarget = "none"]
  BY <1>1 DEF storeCarnageEvent, bounds, At, Done
<1>4. TablesGrow
  BY <1>2, <1>3 DEF TablesGrow
<1>5. Performed(c)'
  BY <1>2, <1>3 DEF Performed, CarnageStored
<1> QED BY <1>1, <1>3, <1>4, <1>5, DroppedCall

LEMMA QueryStep ==
  ASSUME DeliveryInv, NEW w \in Worker, queryHeld(w)
  PROVE  DeliveryInv'
<1>1. PICK c : c = Next1(w)
  OBVIOUS
<1>2. PICK target :
        work' = [work EXCEPT ![w].calls = Tail(@), ![w].prevTarget = target]
  BY DEF queryHeld
<1>3. /\ UNCHANGED <<now, blockTime, due, faults, swap_events, epoch_events, carnage_events>>
      /\ work[w].calls # <<>> /\ c.do = "queryHeld"
  BY <1>1 DEF queryHeld, bounds, database, At
<1>4. TablesGrow
  BY <1>3 DEF TablesGrow
<1>5. Performed(c)'
  BY <1>3 DEF Performed
<1> QED BY <1>1, <1>2, <1>3, <1>4, <1>5, DroppedCall

LEMMA CandleStep ==
  ASSUME DeliveryInv, NEW w \in Worker, upsertCandles(w)
  PROVE  DeliveryInv'
<1>1. PICK c : c = Next1(w)
  OBVIOUS
<1>2. /\ UNCHANGED <<now, blockTime, due, faults, swap_events, epoch_events, carnage_events>>
      /\ work[w].calls # <<>> /\ c.do = "upsertCandles"
  BY <1>1 DEF upsertCandles, bounds, At
<1>3. TablesGrow
  BY <1>2 DEF TablesGrow
<1>4. PICK r \in c.left :
        IF c.left = {r} THEN Done(w)
        ELSE work' = [work EXCEPT ![w].calls[1].left = @ \ {r}]
  BY <1>1 DEF upsertCandles
<1>5. CASE c.left = {r}
  <2>1. Performed(c)'
    BY <1>2 DEF Performed
  <2> QED BY <1>1, <1>2, <1>3, <1>4, <1>5, <2>1, DroppedCall DEF Done
<1>6. CASE c.left # {r}
  <2>1. OneWorks(w) /\ work'[w].payload = work[w].payload /\ (w \in Request => CallsCarryOn(w))
    BY <1>2, <1>4, <1>6, LessLeft DEF DeliveryInv
  <2>2. ASSUME w \in Request, NEW n \in Landed, Promised(w, n) PROVE Promised(w, n)'
    <3>1. StaleStays
      BY <1>2 DEF StaleStays, Stale
    <3>2. Underway(w, n) => Underway(w, n)'
      BY <1>3, <2>1, <2>2, <3>1, UnderwayStays
    <3> QED BY <2>1, <2>2, <3>2 DEF Promised, OneWorks
  <2> QED BY <1>2, <1>3, <2>1, <2>2, OneWorksKeeps
<1> QED BY <1>5, <1>6

\* A transaction taken up is skipped, or all its rows are to come.
LEMMA TakeUpStep ==
  ASSUME DeliveryInv, NEW w \in Worker, TakeUp(w)
  PROVE  DeliveryInv'
<1> DEFINE n == Head(work[w].payload)
           skip == Log[n].failed \/ (w # Backfill /\ Stale(n))
           calls == IF skip THEN <<>> ELSE Calls(w, n)
<1>1. /\ UNCHANGED <<now, blockTime, due, faults, swap_events, epoch_events, carnage_events>>
      /\ work[w].calls = <<>> /\ work[w].payload # <<>>
      /\ work' = [work EXCEPT ![w].payload = Tail(@), ![w].calls = calls]
  BY DEF TakeUp, bounds, database
<1>2. TablesGrow
  BY <1>1 DEF TablesGrow
<1>3. StaleStays
  BY <1>1 DEF StaleStays, Stale
<1>4. WorkTyped
  BY DEF DeliveryInv
<1> HIDE DEF calls
<1>5. /\ DOMAIN work' = Worker
      /\ \A v \in Worker \ {w} : work'[v] = work[v]
      /\ Shape(work'[w]) /\ work'[w].batch = work[w].batch
      /\ work'[w].payload = Tail(work[w].payload) /\ work'[w].calls = calls
  <2>1. /\ DOMAIN work' = Worker
        /\ \A v \in Worker \ {w} : work'[v] = work[v]
        /\ work'[w] = [work[w] EXCEPT !.payload = Tail(@), !.calls = calls]
    BY <1>1, <1>4 DEF WorkTyped
  <2>2. Shape(work[w])
    BY <1>4 DEF WorkTyped
  <2>3. work'[w] = [payload |-> Tail(work[w].payload), batch |-> work[w].batch,
                    calls |-> calls, prevTarget |-> work[w].prevTarget]
    BY <2>1, <2>2 DEF Shape
  <2> QED BY <2>1, <2>3 DEF Shape
<1>6. ASSUME w \in Request
      PROVE  /\ n \in DOMAIN Log
             /\ Tail(work[w].payload) \in Seq(DOMAIN Log)
             /\ \A m \in ToSet(work[w].payload) : m = n \/ m \in ToSet(Tail(work[w].payload))
             /\ calls \in Seq(CallRecord)
  <2>1. work[w].payload \in Seq(DOMAIN Log) /\ w # Backfill
    BY <1>4, <1>6, Workers DEF WorkTyped
  <2>2. /\ n \in DOMAIN Log
        /\ Tail(work[w].payload) \in Seq(DOMAIN Log)
        /\ \A m \in ToSet(work[w].payload) : m = n \/ m \in ToSet(Tail(work[w].payload))
    BY <1>1, <2>1, HeadTail, Zenon
  <2>3. <<>> \in Seq(CallRecord)
    OBVIOUS
  <2>4. Calls(w, n) \in Seq(CallRecord)
    BY <2>1, <2>2, CallsOfRequest
  <2> QED BY <2>2, <2>3, <2>4 DEF calls
<1>7. OneWorks(w)
  BY <1>1, <1>5, <1>6 DEF OneWorks
<1>8. ASSUME w \in Request, NEW m \in Landed, Promised(w, m) PROVE Promised(w, m)'
  <2>1. CASE Underway(w, m)
    <3>1. CallsCarryOn(w)
      BY <1>1 DEF CallsCarryOn, ToSet
    <3>2. Underway(w, m)'
      BY <1>2, <1>3, <2>1, <3>1, UnderwayStays
    <3> QED BY <1>5, <1>8, <3>2 DEF Promised
  <2>2. CASE m \in ToSet(Tail(work[w].payload))
    BY <1>5, <1>8, <2>2 DEF Promised
  <2>3. CASE m = n /\ skip
    <3>1. Skipped(m)'
      BY <1>3, <2>3 DEF Skipped, StaleStays
    <3> QED BY <1>5, <1>8, <3>1 DEF Promised, Underway
  <2>4. CASE m = n /\ ~skip
    <3>1. w # Backfill /\ n \in DOMAIN Log
      BY <1>6, <1>8, Workers
    <3>2. calls = Calls(w, m)
      BY <2>4 DEF calls
    <3>3. /\ \A i \in DOMAIN Trades(m) : Call("storeTaxedSwap", m, i) \in ToSet(calls)
          /\ parseEpochEvents(m) # <<>> => Call("storeEpochEvents", m, 1) \in ToSet(calls)
          /\ \A i \in DOMAIN parseCarnageEvents(m) :
               Call("storeCarnageEvent", m, i) \in ToSet(calls)
      BY <2>4, <3>1, <3>2, CallsOfRequest
    <3>4. ASSUME NEW do, NEW i, Call(do, m, i) \in ToSet(calls) PROVE ToCome(w, do, m, i)'
      BY <1>5, <3>4 DEF ToCome, Call
    <3>5. Trades(m) # <<>> => 1 \in DOMAIN Trades(m)
      <4>1. Trades(m) \in Seq(ToSet(Log[m].events))
        BY <2>4, <3>1, EventsAreSequences
      <4> QED BY <4>1
    <3>6. Underway(w, m)'
      BY <3>3, <3>4, <3>5 DEF Underway, SwapStored, EpochStored
    <3> QED BY <1>5, <1>8, <3>6 DEF Promised
  <2> QED BY <1>6, <1>8, <2>1, <2>2, <2>3, <2>4 DEF Promised
<1> QED BY <1>1, <1>2, <1>7, <1>8, OneWorksKeeps

\* Nothing is forgotten if whatever becomes or stays Helius' affair no more is
\* promised, or was handled by those who let it go.
LEMMA PromisesKept ==
  ASSUME NothingIsForgotten, TablesGrow, StaleStays, UNCHANGED faults,
         \A n \in Landed' \ due' :
           \/ \E v \in Request : Promised(v, n)'
           \/ n \in Landed \ due /\ \A v \in Request :
                Promised(v, n) => Promised(v, n)' \/ Handled(n)
  PROVE  NothingIsForgotten'
<1> SUFFICES ASSUME faults = 0, NEW n \in Landed' \ due'
             PROVE  Handled(n)' \/ \E v \in Request : Promised(v, n)'
  BY DEF NothingIsForgotten
<1>1. CASE \E v \in Request : Promised(v, n)'
  BY <1>1
<1>2. CASE n \in Landed \ due /\ \A v \in Request :
                Promised(v, n) => Promised(v, n)' \/ Handled(n)
  <2>1. Handled(n) => Handled(n)'
    BY <1>2, HandledStays
  <2> QED BY <1>2, <2>1 DEF NothingIsForgotten
<1> QED BY <1>1, <1>2

LEMMA LandStep == ASSUME DeliveryInv, Land PROVE DeliveryInv'
<1>1. /\ Len(blockTime) < Len(Log)
      /\ blockTime' = Append(blockTime, now)
      /\ due' = due \union {Len(blockTime) + 1}
      /\ UNCHANGED <<now, work, faults, swap_events, epoch_events, carnage_events>>
  BY DEF Land, bounds, database
<1>2. now \in Nat /\ blockTime \in Seq(Nat) /\ due \subseteq Landed /\ faults \in Nat
      /\ Len(blockTime) \in Nat /\ Len(Log) \in Nat
  <2>1. Log \in Seq(ToSet(Log))
    BY IndexerAssumption
  <2> QED BY <2>1 DEF DeliveryInv, ChainTyped
<1>3. /\ Len(blockTime') = Len(blockTime) + 1 /\ blockTime' \in Seq(Nat)
      /\ \A n \in 1..Len(blockTime) : blockTime'[n] = blockTime[n]
  BY <1>1, <1>2
<1>4. Landed' = Landed \union {Len(blockTime) + 1}
  BY <1>2, <1>3 DEF Landed
<1>5. ChainTyped'
  BY <1>1, <1>2, <1>3, <1>4 DEF ChainTyped
<1>6. WorkTyped'
  BY <1>1, <1>4 DEF DeliveryInv, WorkTyped, Shape
<1>7. StaleStays
  BY <1>1, <1>3 DEF StaleStays, Stale, Landed
<1>8. TablesGrow
  BY <1>1 DEF TablesGrow
<1>9. NothingIsForgotten'
  <2>1. ASSUME NEW n \in Landed, NEW v, Promised(v, n) PROVE Promised(v, n)'
    BY <1>1, <1>7, <1>8, <2>1, OthersKeepPromises
  <2>2. \A n \in Landed' \ due' : n \in Landed \ due
    BY <1>1, <1>4
  <2> QED BY <1>1, <1>7, <1>8, <2>1, <2>2, PromisesKept DEF DeliveryInv
<1> QED BY <1>5, <1>6, <1>9 DEF DeliveryInv

LEMMA TickStep == ASSUME DeliveryInv, Tick PROVE DeliveryInv'
<1>1. /\ now' = now + 1
      /\ UNCHANGED <<blockTime, due, work, faults, swap_events, epoch_events, carnage_events>>
  BY DEF Tick, bounds, database
<1>2. now \in Nat /\ blockTime \in Seq(Nat)
  BY DEF DeliveryInv, ChainTyped
<1>3. StaleStays
  <2> SUFFICES ASSUME NEW n \in Landed, Stale(n) PROVE Stale(n)'
    BY DEF StaleStays
  <2>1. blockTime[n] \in Nat /\ blockTime'[n] = blockTime[n] /\ MAX_TX_AGE_SECONDS \in Nat
    BY <1>1, <1>2, IndexerAssumption DEF Landed
  <2> QED BY <1>1, <1>2, <2>1 DEF Stale
<1>4. TablesGrow /\ Landed' = Landed
  BY <1>1 DEF TablesGrow, Landed
<1>5. ChainTyped' /\ WorkTyped'
  BY <1>1, <1>2, <1>4 DEF DeliveryInv, ChainTyped, WorkTyped, Shape
<1>6. NothingIsForgotten'
  <2>1. ASSUME NEW n \in Landed, NEW v, Promised(v, n) PROVE Promised(v, n)'
    BY <1>1, <1>3, <1>4, <2>1, OthersKeepPromises
  <2> QED BY <1>1, <1>3, <1>4, <2>1, PromisesKept DEF DeliveryInv
<1> QED BY <1>5, <1>6 DEF DeliveryInv

LEMMA StartBackfillStep == ASSUME DeliveryInv, StartBackfill PROVE DeliveryInv'
<1>1. PICK payload : work' = [work EXCEPT ![Backfill].payload = payload]
  BY DEF StartBackfill
<1>2. UNCHANGED <<now, blockTime, due, faults, swap_events, epoch_events, carnage_events>>
  BY DEF StartBackfill, database
<1>3. OneWorks(Backfill)
  <2>1. /\ DOMAIN work' = Worker
        /\ \A v \in Worker \ {Backfill} : work'[v] = work[v]
        /\ work'[Backfill] = [work[Backfill] EXCEPT !.payload = payload]
        /\ Shape(work[Backfill])
    BY <1>1, Workers DEF DeliveryInv, WorkTyped
  <2>2. Shape(work'[Backfill]) /\ work'[Backfill].batch = work[Backfill].batch
    BY <2>1 DEF Shape
  <2> QED BY <1>2, <2>1, <2>2, Workers DEF OneWorks
<1>4. TablesGrow
  BY <1>2 DEF TablesGrow
<1> QED BY <1>2, <1>3, <1>4, Workers, OneWorksKeeps

\* A list of a finite set has all of it.
LEMMA ListsAreComplete ==
  ASSUME NEW S, IsFiniteSet(S), NEW p \in SetToSeqs(S)
  PROVE  p \in Seq(S) /\ ToSet(p) = S
<1> DEFINE n == Cardinality(S)
<1>1. n \in Nat
  BY FS_CardinalityType
<1> HIDE DEF n
<1>2. p \in [1..n -> S] /\ \A i, j \in 1..n : i # j => p[i] # p[j]
  BY DEF SetToSeqs, n
<1>3. p \in Injection(1..n, S)
  BY <1>2 DEF Injection, IsInjective
<1>4. IsFiniteSet(1..n) /\ Cardinality(1..n) = n
  BY <1>1, FS_Interval
<1>5. p \in Surjection(1..n, S)
  BY <1>3, <1>4, FS_Injection DEF n
<1>6. p \in Seq(S) /\ DOMAIN p = 1..n
  BY <1>1, <1>2
<1> QED BY <1>2, <1>5, <1>6 DEF Surjection, ToSet

LEMMA PostStep == ASSUME DeliveryInv, NEW w \in Request, POST(w) PROVE DeliveryInv'
<1>0. PICK batch \in SUBSET due :
        /\ due' = due \ batch
        /\ \E payload \in SetToSeqs(batch) :
             work' = [work EXCEPT ![w].payload = payload, ![w].batch = batch]
  BY DEF POST
<1>1. PICK payload \in SetToSeqs(batch) :
        /\ due' = due \ batch
        /\ work' = [work EXCEPT ![w].payload = payload, ![w].batch = batch]
  BY <1>0
<1>2. /\ UNCHANGED <<now, blockTime, faults, swap_events, epoch_events, carnage_events>>
      /\ work[w] = Idle
  BY DEF POST, bounds, database
<1>3. ChainTyped /\ WorkTyped /\ due \subseteq Landed /\ Landed' = Landed
  BY <1>2 DEF DeliveryInv, ChainTyped, Landed
<1>4. payload \in Seq(batch) /\ ToSet(payload) = batch
  <2>1. IsFiniteSet(batch)
    BY <1>3, LandedTxs, FS_Subset
  <2> QED BY <2>1, ListsAreComplete
<1>5. payload \in Seq(DOMAIN Log)
  <2>1. batch \subseteq DOMAIN Log
    BY <1>3, LandedTxs
  <2> QED BY <1>4, <2>1
<1>6. /\ DOMAIN work' = Worker
      /\ \A v \in Worker \ {w} : work'[v] = work[v]
      /\ work'[w] = [payload |-> payload, batch |-> batch, calls |-> <<>>, prevTarget |-> "none"]
  <2>1. /\ DOMAIN work' = Worker
        /\ \A v \in Worker \ {w} : work'[v] = work[v]
        /\ work'[w] = [work[w] EXCEPT !.payload = payload, !.batch = batch]
    BY <1>1, <1>3, Workers DEF WorkTyped
  <2>2. work[w] = [payload |-> <<>>, batch |-> {}, calls |-> <<>>, prevTarget |-> "none"]
    BY <1>2 DEF Idle
  <2>3. PICK i : i = work[w]
    OBVIOUS
  <2>4. work'[w] = [i EXCEPT !.payload = payload, !.batch = batch]
    BY <2>1, <2>3
  <2>5. i = [payload |-> <<>>, batch |-> {}, calls |-> <<>>, prevTarget |-> "none"]
    BY <2>2, <2>3
  <2>6. work'[w] = [payload |-> payload, batch |-> batch, calls |-> <<>>, prevTarget |-> "none"]
    BY <2>4, <2>5
  <2> QED BY <2>1, <2>6
<1>7. Shape(work'[w]) /\ work'[w].payload = payload /\ work'[w].batch = batch
      /\ work'[w].calls = <<>>
  BY <1>6, Fields
<1>8. ChainTyped' /\ WorkTyped'
  <2>1. ChainTyped'
    BY <1>1, <1>2, <1>3 DEF ChainTyped
  <2>2. batch \subseteq Landed'
    BY <1>3
  <2>3. <<>> \in Seq(CallRecord)
    OBVIOUS
  <2>4. \A v \in Worker : Shape(work'[v])
    BY <1>3, <1>6, <1>7 DEF WorkTyped
  <2>5. \A v \in Request : /\ work'[v].payload \in Seq(DOMAIN Log)
                           /\ work'[v].batch \subseteq Landed'
                           /\ work'[v].calls \in Seq(CallRecord)
    BY <1>3, <1>5, <1>6, <1>7, <2>2, <2>3, Workers DEF WorkTyped
  <2>6. work'[Backfill].batch = {}
    BY <1>3, <1>6, Workers DEF WorkTyped
  <2>7. WorkTyped'
    BY <1>6, <2>4, <2>5, <2>6 DEF WorkTyped, Shape
  <2> QED BY <2>1, <2>7
<1>9. TablesGrow /\ StaleStays
  BY <1>2 DEF TablesGrow, StaleStays, Stale
<1>10. NothingIsForgotten'
  <2>1. ASSUME NEW n \in Landed, NEW v \in Request, Promised(v, n) PROVE Promised(v, n)'
    <3>1. v # w
      BY <1>2, <2>1 DEF Promised, Idle
    <3>2. work'[v] = work[v]
      BY <1>6, <3>1, Workers
    <3> QED BY <1>9, <2>1, <3>2, OthersKeepPromises
  <2>2. ASSUME NEW n \in batch PROVE Promised(w, n)'
    BY <1>4, <1>7 DEF Promised
  <2>3. ASSUME NEW n \in Landed' \ due'
        PROVE  \/ \E v \in Request : Promised(v, n)'
               \/ n \in Landed \ due /\ \A v \in Request :
                    Promised(v, n) => Promised(v, n)' \/ Handled(n)
    BY <1>1, <1>3, <2>1, <2>2
  <2> QED BY <1>2, <1>9, <2>3, PromisesKept DEF DeliveryInv
<1> QED BY <1>8, <1>10 DEF DeliveryInv

LEMMA ResendStep == ASSUME DeliveryInv, NEW w \in Request, Resend(w) PROVE DeliveryInv'
<1>1. /\ due' = due \union work[w].batch
      /\ work' = [work EXCEPT ![w].batch = {}]
      /\ UNCHANGED <<now, blockTime, faults, swap_events, epoch_events, carnage_events>>
  BY DEF Resend, database
<1>2. ChainTyped /\ WorkTyped /\ Landed' = Landed
  BY <1>1 DEF DeliveryInv, Landed
<1>3. /\ DOMAIN work' = Worker
      /\ \A v \in Worker \ {w} : work'[v] = work[v]
      /\ Shape(work'[w]) /\ work'[w].batch = {}
      /\ work'[w].payload = work[w].payload /\ work'[w].calls = work[w].calls
  <2>1. /\ DOMAIN work' = Worker
        /\ \A v \in Worker \ {w} : work'[v] = work[v]
        /\ work'[w] = [work[w] EXCEPT !.batch = {}]
        /\ Shape(work[w])
    BY <1>1, <1>2, Workers DEF WorkTyped
  <2> QED BY <2>1 DEF Shape
<1>4. ChainTyped' /\ WorkTyped'
  <2>1. ChainTyped'
    BY <1>1, <1>2 DEF ChainTyped, WorkTyped
  <2>2. \A v \in Worker : Shape(work'[v])
    BY <1>2, <1>3 DEF WorkTyped
  <2>3. \A v \in Request : /\ work'[v].payload \in Seq(DOMAIN Log)
                           /\ work'[v].batch \subseteq Landed'
                           /\ work'[v].calls \in Seq(CallRecord)
    BY <1>2, <1>3, Workers DEF WorkTyped
  <2>4. work'[Backfill].batch = {}
    BY <1>2, <1>3, Workers DEF WorkTyped
  <2>5. WorkTyped'
    BY <1>3, <2>2, <2>3, <2>4 DEF WorkTyped, Shape
  <2> QED BY <2>1, <2>5
<1>5. TablesGrow /\ StaleStays
  BY <1>1 DEF TablesGrow, StaleStays, Stale
<1>6. NothingIsForgotten'
  <2>1. ASSUME NEW n \in Landed \ due', NEW v \in Request, Promised(v, n) PROVE Promised(v, n)'
    <3>1. v # w
      BY <1>1, <2>1 DEF Promised
    <3>2. work'[v] = work[v]
      BY <1>3, <3>1, Workers
    <3> QED BY <1>5, <2>1, <3>2, OthersKeepPromises
  <2>2. ASSUME NEW n \in Landed' \ due'
        PROVE  n \in Landed \ due /\ \A v \in Request : Promised(v, n) => Promised(v, n)'
    BY <1>1, <1>2, <2>1
  <2> QED BY <1>1, <1>5, <2>2, PromisesKept DEF DeliveryInv
<1> QED BY <1>4, <1>6 DEF DeliveryInv

\* The posts of those that die become due again.
LEMMA StopStep == ASSUME DeliveryInv, NEW killed \in SUBSET Worker, Stop(killed) PROVE DeliveryInv'
<1>1. /\ due' = due \union UNION {work[w].batch : w \in killed}
      /\ work' = [w \in Worker |-> IF w \in killed THEN Idle ELSE work[w]]
      /\ UNCHANGED <<now, blockTime, faults, swap_events, epoch_events, carnage_events>>
  BY DEF Stop, database
<1>2. ChainTyped /\ WorkTyped /\ Landed' = Landed
  BY <1>1 DEF DeliveryInv, Landed
<1>3. \A w \in Worker : work[w].batch \subseteq Landed
  BY <1>2, Workers DEF WorkTyped
<1>4. Shape(Idle) /\ Idle.payload = <<>> /\ Idle.batch = {} /\ Idle.calls = <<>>
  BY DEF Shape, Idle
<1>5. \A w \in Worker : work'[w] = Idle \/ work'[w] = work[w]
  BY <1>1
<1>6. ChainTyped' /\ WorkTyped'
  <2>1. ChainTyped'
    BY <1>1, <1>2, <1>3 DEF ChainTyped
  <2>2. <<>> \in Seq(CallRecord) /\ <<>> \in Seq(DOMAIN Log)
    OBVIOUS
  <2>3. \A v \in Worker : Shape(work'[v])
    BY <1>2, <1>4, <1>5 DEF WorkTyped
  <2>4. \A v \in Request : /\ work'[v].payload \in Seq(DOMAIN Log)
                           /\ work'[v].batch \subseteq Landed'
                           /\ work'[v].calls \in Seq(CallRecord)
    BY <1>2, <1>4, <1>5, <2>2, Workers DEF WorkTyped
  <2>5. work'[Backfill].batch = {} /\ DOMAIN work' = Worker
    BY <1>1, <1>2, <1>4, Workers DEF WorkTyped
  <2>6. WorkTyped'
    BY <2>3, <2>4, <2>5 DEF WorkTyped, Shape
  <2> QED BY <2>1, <2>6
<1>7. TablesGrow /\ StaleStays
  BY <1>1 DEF TablesGrow, StaleStays, Stale
<1>8. NothingIsForgotten'
  <2>1. ASSUME NEW n \in Landed \ due', NEW v \in Request, Promised(v, n) PROVE Promised(v, n)'
    <3>1. v \notin killed
      BY <1>1, <2>1 DEF Promised
    <3>2. work'[v] = work[v]
      BY <1>1, <3>1, Workers
    <3> QED BY <1>7, <2>1, <3>2, OthersKeepPromises
  <2>2. ASSUME NEW n \in Landed' \ due'
        PROVE  n \in Landed \ due /\ \A v \in Request : Promised(v, n) => Promised(v, n)'
    BY <1>1, <1>2, <2>1
  <2> QED BY <1>1, <1>7, <2>2, PromisesKept DEF DeliveryInv
<1> QED BY <1>6, <1>8 DEF DeliveryInv

\* A failed call ends the promise, and the types stay.
LEMMA FailStep == ASSUME DeliveryInv, NEW w \in Worker, Fail(w) PROVE DeliveryInv'
<1>1. /\ faults' = faults + 1 /\ work[w].calls # <<>>
      /\ UNCHANGED <<now, blockTime, due>>
      /\ ChainTyped /\ WorkTyped /\ faults \in Nat
  BY DEF Fail, DeliveryInv, ChainTyped
<1>2. NothingIsForgotten'
  BY <1>1 DEF NothingIsForgotten
<1>3. OneWorks(w)
  <2>1. CASE At(w, "upsertCandles") /\ w # Backfill
    <3>1. PICK r \in Next1(w).left :
            IF Next1(w).left = {r} THEN Done(w)
            ELSE work' = [work EXCEPT ![w].calls[1].left = @ \ {r}]
      BY <2>1 DEF Fail
    <3>2. CASE Done(w)
      BY <1>1, <3>2, Dropped DEF Done
    <3>3. CASE work' = [work EXCEPT ![w].calls[1].left = @ \ {r}]
      BY <1>1, <3>3, LessLeft
    <3> QED BY <3>1, <3>2, <3>3
  <2>2. CASE ~(At(w, "upsertCandles") /\ w # Backfill)
    <3>1. work' = [work EXCEPT ![w].calls = <<>>, ![w].prevTarget = "none"]
      BY <2>2 DEF Fail
    <3>2. /\ DOMAIN work' = Worker
          /\ \A v \in Worker \ {w} : work'[v] = work[v]
          /\ work'[w] = [work[w] EXCEPT !.calls = <<>>, !.prevTarget = "none"]
          /\ Shape(work[w])
      BY <1>1, <3>1 DEF WorkTyped
    <3>3. Shape(work'[w]) /\ work'[w].batch = work[w].batch
          /\ work'[w].payload = work[w].payload /\ work'[w].calls = <<>>
      BY <3>2 DEF Shape
    <3>4. <<>> \in Seq(CallRecord)
      OBVIOUS
    <3> QED BY <1>1, <3>2, <3>3, <3>4 DEF OneWorks, WorkTyped
  <2> QED BY <2>1, <2>2
<1>4. ChainTyped' /\ WorkTyped'
  BY <1>1, <1>3, OneWorksTyped
<1> QED BY <1>2, <1>4 DEF DeliveryInv

\* A request that is over has handled what it was sent.
LEMMA AnswerStep == ASSUME DeliveryInv, NEW w \in Worker, Answer(w) PROVE DeliveryInv'
<1>1. /\ work[w].payload = <<>> /\ work[w].calls = <<>>
      /\ work' = [work EXCEPT ![w] = Idle]
      /\ UNCHANGED <<now, blockTime, due, faults, swap_events, epoch_events, carnage_events>>
      /\ work[w].batch # {}
  BY DEF Answer, bounds, database
<1>2. ChainTyped /\ WorkTyped /\ Landed' = Landed /\ w \in Request
  BY <1>1, Workers DEF DeliveryInv, Landed, WorkTyped
<1>3. /\ DOMAIN work' = Worker /\ work'[w] = Idle
      /\ \A v \in Worker \ {w} : work'[v] = work[v]
  BY <1>1, <1>2 DEF WorkTyped
<1>4. Shape(Idle) /\ Idle.payload = <<>> /\ Idle.batch = {} /\ Idle.calls = <<>>
  BY DEF Shape, Idle
<1>5. ChainTyped' /\ WorkTyped'
  <2>1. ChainTyped'
    BY <1>1, <1>2 DEF ChainTyped
  <2>2. <<>> \in Seq(CallRecord) /\ <<>> \in Seq(DOMAIN Log)
    OBVIOUS
  <2>3. \A v \in Worker : Shape(work'[v])
    BY <1>2, <1>3, <1>4 DEF WorkTyped
  <2>4. \A v \in Request : /\ work'[v].payload \in Seq(DOMAIN Log)
                           /\ work'[v].batch \subseteq Landed'
                           /\ work'[v].calls \in Seq(CallRecord)
    BY <1>2, <1>3, <1>4, <2>2, Workers DEF WorkTyped
  <2>5. work'[Backfill].batch = {}
    BY <1>2, <1>3, <1>4, Workers DEF WorkTyped
  <2>6. WorkTyped'
    BY <1>3, <2>3, <2>4, <2>5 DEF WorkTyped, Shape
  <2> QED BY <2>1, <2>6
<1>6. TablesGrow /\ StaleStays
  BY <1>1 DEF TablesGrow, StaleStays, Stale
<1>7. NothingIsForgotten'
  <2>1. ASSUME NEW n \in Landed, NEW v \in Request, Promised(v, n)
        PROVE  Promised(v, n)' \/ Handled(n)
    <3>1. CASE v = w
      <4>1. ToSet(work[w].payload) = {} /\ ToSet(work[w].calls) = {}
        BY <1>1 DEF ToSet
      <4>2. Underway(w, n)
        BY <2>1, <3>1, <4>1 DEF Promised
      <4> QED BY <4>1, <4>2 DEF Underway, ToCome, Handled
    <3>2. CASE v # w
      <4>1. work'[v] = work[v]
        BY <1>3, <3>2, Workers
      <4> QED BY <1>6, <2>1, <4>1, OthersKeepPromises
    <3> QED BY <3>1, <3>2
  <2> QED BY <1>1, <1>2, <1>6, <2>1, PromisesKept DEF DeliveryInv
<1> QED BY <1>5, <1>7 DEF DeliveryInv

LEMMA DeliveryInit == IndexerInit => DeliveryInv
<1> SUFFICES ASSUME IndexerInit PROVE DeliveryInv
  OBVIOUS
<1>1. Len(Log) \in Nat
  <2>1. Log \in Seq(ToSet(Log))
    BY IndexerAssumption
  <2> QED BY <2>1
<1>2. <<>> \in Seq(CallRecord) /\ <<>> \in Seq(DOMAIN Log) /\ <<>> \in Seq(Nat) /\ Len(<<>>) = 0
  OBVIOUS
<1>3. Landed = {}
  BY <1>2 DEF IndexerInit, Landed
<1>4. ChainTyped
  BY <1>1, <1>2 DEF IndexerInit, ChainTyped
<1>5. Shape(Idle) /\ Idle.payload = <<>> /\ Idle.batch = {} /\ Idle.calls = <<>>
  BY DEF Shape, Idle
<1>6. WorkTyped
  BY <1>2, <1>5, Workers DEF IndexerInit, WorkTyped
<1> QED BY <1>3, <1>4, <1>6 DEF DeliveryInv, NothingIsForgotten

LEMMA DeliveryStep == DeliveryInv /\ [IndexerNext]_indexerVars => DeliveryInv'
<1> SUFFICES ASSUME DeliveryInv, [IndexerNext]_indexerVars PROVE DeliveryInv'
  OBVIOUS
<1>1. CASE Land
  BY <1>1, LandStep
<1>2. CASE Tick
  BY <1>2, TickStep
<1>3. CASE StartBackfill
  BY <1>3, StartBackfillStep
<1>4. CASE \E w \in Request : POST(w) \/ Resend(w)
  BY <1>4, PostStep, ResendStep
<1>5. CASE Stop(Request) \/ Stop({Backfill})
  <2>1. Request \in SUBSET Worker /\ {Backfill} \in SUBSET Worker
    BY Workers
  <2> QED BY <1>5, <2>1, StopStep
<1>6. ASSUME NEW w \in Worker, Step(w) \/ Fail(w) PROVE DeliveryInv'
  BY <1>6, TakeUpStep, SwapStep, CandleStep, EpochRowStep, QueryStep, CarnageRowStep,
     AnswerStep, FailStep DEF Step
<1>7. CASE UNCHANGED indexerVars
  <2>1. UNCHANGED <<now, blockTime, due, work, faults, swap_events, epoch_events, carnage_events>>
    BY <1>7 DEF indexerVars, bounds, database
  <2>2. Landed' = Landed /\ TablesGrow /\ StaleStays
    BY <2>1 DEF Landed, TablesGrow, StaleStays, Stale
  <2>3. ChainTyped' /\ WorkTyped'
    BY <2>1, <2>2 DEF DeliveryInv, ChainTyped, WorkTyped, Shape
  <2>4. NothingIsForgotten'
    <3>1. ASSUME NEW n \in Landed, NEW v, Promised(v, n) PROVE Promised(v, n)'
      BY <2>1, <2>2, <3>1, OthersKeepPromises
    <3> QED BY <2>1, <2>2, <3>1, PromisesKept DEF DeliveryInv
  <2> QED BY <2>3, <2>4 DEF DeliveryInv
<1> QED BY <1>1, <1>2, <1>3, <1>4, <1>5, <1>6, <1>7 DEF IndexerNext

\* app/api/webhooks/helius/route.ts: whatever is delivered twice, late, out of
\* order or to a server that is killed on the way, what Helius need not deliver
\* any more has its rows, unless it came too late or the database failed.
THEOREM EventsAlwaysStored == IndexerSpec => []EventsAreStored
<1>1. IndexerInit => DeliveryInv
  BY DeliveryInit
<1>2. DeliveryInv /\ [IndexerNext]_indexerVars => DeliveryInv'
  BY DeliveryStep
<1>3. DeliveryInv => EventsAreStored
  BY QuietStored
<1> QED BY <1>1, <1>2, <1>3, PTL DEF IndexerSpec

--------------------------------------------------------------------------------
(* The indexer: candles are those of the trades.                                *)

\* The parser takes one event after the other.
LEMMA OnlyAppends ==
  ASSUME NEW S, NEW q \in Seq(S), NEW e \in S, NEW types
  PROVE  Only(Append(q, e), types) =
           IF e.type \in types THEN Append(Only(q, types), e) ELSE Only(q, types)
<1> DEFINE part(x) == IF x.type \in types THEN <<x>> ELSE <<>>
           parts == [k \in DOMAIN q |-> part(q[k])]
           more == Append(q, e)
<1>1. /\ Len(q) \in Nat /\ DOMAIN q = 1..Len(q) /\ \A k \in 1..Len(q) : q[k] \in S
      /\ DOMAIN more = 1..(Len(q) + 1) /\ more[Len(q) + 1] = e
      /\ \A k \in 1..Len(q) : more[k] = q[k]
  OBVIOUS
<1>2. ASSUME NEW x \in S PROVE part(x) \in Seq(S)
  <2>1. <<>> \in Seq(S) /\ <<x>> \in Seq(S)
    OBVIOUS
  <2> QED BY <2>1
<1> HIDE DEF part, more
<1>3. parts \in Seq(Seq(S)) /\ DOMAIN parts = 1..Len(q) /\ \A k \in 1..Len(q) : parts[k] = part(q[k])
  BY <1>1, <1>2
<1>4. [k \in DOMAIN more |-> part(more[k])] = Append(parts, part(e))
  <2>1. /\ Len(parts) = Len(q)
        /\ DOMAIN Append(parts, part(e)) = 1..(Len(q) + 1)
        /\ Append(parts, part(e))[Len(q) + 1] = part(e)
        /\ \A k \in 1..Len(q) : Append(parts, part(e))[k] = part(q[k])
    <3> HIDE DEF parts
    <3> QED BY <1>1, <1>2, <1>3
  <2>2. \A k \in 1..(Len(q) + 1) : part(more[k]) = Append(parts, part(e))[k]
    <3>1. \A k \in 1..(Len(q) + 1) : k \in 1..Len(q) \/ k = Len(q) + 1
      BY <1>1
    <3> QED BY <1>1, <2>1, <3>1
  <2>3. Append(parts, part(e)) = [k \in 1..(Len(q) + 1) |-> Append(parts, part(e))[k]]
    <3> HIDE DEF parts
    <3>0. PICK a \in Seq(Seq(S)), x \in Seq(S) : a = parts /\ x = part(e)
      BY <1>2, <1>3
    <3>a. Append(a, x) \in Seq(Seq(S))
      OBVIOUS
    <3>1. PICK s \in Seq(Seq(S)) : s = Append(parts, part(e))
      BY <3>0, <3>a
    <3>2. s = [k \in DOMAIN s |-> s[k]]
      OBVIOUS
    <3>3. DOMAIN s = 1..(Len(q) + 1)
      BY <2>1, <3>1
    <3> QED BY <3>1, <3>2, <3>3
  <2> QED BY <1>1, <2>2, <2>3
<1>5. Only(more, types) = FlattenSeq(Append(parts, part(e)))
  BY <1>4 DEF Only, part
<1>6. Only(q, types) = FlattenSeq(parts)
  BY DEF Only, parts, part
<1> HIDE DEF parts
<1>7. Only(more, types) = Only(q, types) \o part(e)
  BY <1>2, <1>3, <1>5, <1>6, FlattenAppends
<1>8. Only(q, types) \in Seq(S)
  BY OnlySelects
<1>9. CASE e.type \in types
  <2>1. part(e) = <<e>>
    BY <1>9 DEF part
  <2>2. Only(q, types) \o <<e>> = Append(Only(q, types), e)
    BY <1>8
  <2> QED BY <1>7, <1>9, <2>1, <2>2 DEF more
<1>10. CASE e.type \notin types
  <2>1. part(e) = <<>>
    BY <1>10 DEF part
  <2>2. Only(q, types) \o <<>> = Only(q, types)
    BY <1>8
  <2> QED BY <1>7, <1>10, <2>1, <2>2 DEF more
<1> QED BY <1>9, <1>10

\* To select of what was selected is to select of both.
LEMMA OnlyOfOnly ==
  ASSUME NEW S, NEW events \in Seq(S), NEW types, NEW some \in SUBSET types
  PROVE  Only(Only(events, types), some) = Only(events, some)
<1> DEFINE So(q) == Only(Only(q, types), some) = Only(q, some)
           P == {m \in Nat : \A q \in Seq(S) : Len(q) = m => So(q)}
<1>1. 0 \in P
  <2>1. \A q \in Seq(S) : Len(q) = 0 => q = <<>>
    OBVIOUS
  <2>2. \A T : Only(<<>>, T) = <<>>
    BY DEF Only, FlattenSeq
  <2> QED BY <2>1, <2>2
<1>2. ASSUME NEW m \in Nat, m \in P PROVE m + 1 \in P
  <2> SUFFICES ASSUME NEW q \in Seq(S), Len(q) = m + 1 PROVE So(q)
    OBVIOUS
  <2>1. PICK p \in Seq(S), e \in S : Len(p) = m /\ q = Append(p, e)
    <3> DEFINE p == [k \in 1..m |-> q[k]]
               e == q[m + 1]
    <3>1. p \in Seq(S) /\ e \in S /\ Len(p) = m
      OBVIOUS
    <3>2. q = Append(p, e)
      OBVIOUS
    <3> QED BY <3>1, <3>2
  <2>2. So(p)
    BY <1>2, <2>1
  <2> DEFINE a == Only(p, types)
  <2>3. a \in Seq(S)
    BY OnlySelects
  <2>4. Only(q, types) = IF e.type \in types THEN Append(a, e) ELSE a
    BY <2>1, OnlyAppends
  <2>5. Only(q, some) = IF e.type \in some THEN Append(Only(p, some), e) ELSE Only(p, some)
    BY <2>1, OnlyAppends
  <2> HIDE DEF a
  <2>6. Only(Append(a, e), some) = IF e.type \in some THEN Append(Only(a, some), e) ELSE Only(a, some)
    BY <2>3, OnlyAppends
  <2>7. Only(a, some) = Only(p, some)
    BY <2>2 DEF a
  <2> QED BY <2>4, <2>5, <2>6, <2>7
<1>3. Nat \subseteq P
  <2> HIDE DEF P
  <2> QED BY <1>1, <1>2, NatSetInduction
<1>4. Len(events) \in P
  <2>1. Len(events) \in Nat
    OBVIOUS
  <2> HIDE DEF P
  <2> QED BY <1>3, <2>1
<1> QED BY <1>4

\* What counts as a trade is what the tax program logs.
LEMMA TradesAreTaxed ==
  ASSUME NEW n \in DOMAIN Log
  PROVE  Trades(n) = OfType(n, {"TaxedSwap"})
<1>1. Log[n].events \in Seq(ToSet(Log[n].events))
  BY IndexerAssumption
<1>2. SwapTypes \ {"ExemptSwap"} = {"TaxedSwap"} /\ {"TaxedSwap"} \in SUBSET SwapTypes
  BY DEF SwapTypes
<1>3. Only(Only(Log[n].events, SwapTypes), {"TaxedSwap"}) = Only(Log[n].events, {"TaxedSwap"})
  BY <1>1, <1>2, OnlyOfOnly
<1> QED BY <1>2, <1>3 DEF Trades, parseSwapEvents, OfType

\* A trade is a place of the log; those that can be counted have a price; a trade belongs
\* to one candle of every resolution.
Event(t) == Trades(t[1])[t[2]]
Trade ==
  {t \in UNION {{<<n, i>> : i \in DOMAIN Trades(n)} : n \in DOMAIN Log} :
     ~Log[t[1]].failed /\ derivePrice(Event(t)) > 0}
Period(t, r) == <<Event(t).pool, r, truncateToResolution(blockTime[t[1]], r)>>

\* An upsert that is still to be made of a trade at a resolution.
Asks(c, t, r) == c.do = "upsertCandles" /\ c.n = t[1] /\ c.i = t[2] /\ r \in c.left
Askers(t, r) == {w \in Worker : \E c \in ToSet(work[w].calls) : Asks(c, t, r)}

\* Whoever took a trade up and is not about to upsert it has upserted it, or lost it.
Credit(t, r) == attempts[t[1]] - Cardinality(Askers(t, r))

\* What a trade contributes to a candle: to its count, to its volume.  Counted in it.
Share(key) ==
  [t \in Trade |-> IF t[1] \in Landed /\ Period(t, key[2]) = key THEN Credit(t, key[2]) ELSE 0]
Weight(key) == [t \in Trade |-> Share(key)[t] * Volume(Event(t))]
Seen(key) ==
  {t \in Trade : <<t[1], t[2], key[2]>> \in counted /\ Period(t, key[2]) = key}

NoLoss == faults = 0 /\ stops = 0

\* A call is of a landed transaction and of one of its trades; calls of upserts are of
\* different trades.
Sound(c) ==
  /\ c.n \in Landed
  /\ c.do \in {"storeTaxedSwap", "upsertCandles"} => c.i \in DOMAIN Trades(c.n)
  /\ c.do = "upsertCandles" => <<c.n, c.i>> \in Trade
Apart(calls) ==
  \A j, k \in DOMAIN calls :
    j < k /\ calls[j].do = "upsertCandles" /\ calls[k].do = "upsertCandles" =>
      calls[j].i # calls[k].i \/ calls[j].n # calls[k].n

Busy(w) ==
  /\ work[w].payload \in Seq(Landed)
  /\ work[w].calls \in Seq(CallRecord)
  /\ \A c \in ToSet(work[w].calls) : Sound(c)
  /\ Apart(work[w].calls)

\* Time, and the attempts at each landed transaction.
Clock ==
  /\ now \in 0..MaxTime
  /\ blockTime \in Seq(0..MaxTime)
  /\ attempts \in Seq(Nat)
  /\ Len(attempts) = Len(blockTime)
  /\ {resends, faults, stops, backfills} \subseteq Nat

\* The rows of the other tables are of landed transactions.
Rows ==
  /\ \A n \in DOMAIN swap_events : n \in Landed /\ swap_events[n] \in DOMAIN Trades(n)
  /\ \A e \in DOMAIN epoch_events : epoch_events[e].tx \in Landed
  /\ \A e \in DOMAIN carnage_events : carnage_events[e].tx \in Landed

\* A counted trade has credit and a candle, and with nothing lost one with credit is
\* counted.
Credits ==
  /\ \A t \in Trade, r \in RESOLUTION_SECONDS : t[1] \in Landed => Credit(t, r) \in Nat
  /\ \A x \in counted : \E t \in Trade, r \in RESOLUTION_SECONDS :
       /\ x = <<t[1], t[2], r>> /\ t[1] \in Landed
       /\ Period(t, r) \in DOMAIN candles /\ Credit(t, r) > 0
  /\ NoLoss => \A t \in Trade, r \in RESOLUTION_SECONDS :
       t[1] \in Landed /\ Credit(t, r) > 0 => <<t[1], t[2], r>> \in counted

\* A candle has the extremes of the trades counted in it, and at most their total credit;
\* with nothing lost just that.
Columns(key) ==
  /\ \E t \in Trade, r \in RESOLUTION_SECONDS : t[1] \in Landed /\ key = Period(t, r)
  /\ RowOK(candles[key])
  /\ candles[key].high \in PricesIn(Seen(key)) /\ candles[key].low \in PricesIn(Seen(key))
  /\ \A p \in PricesIn(Seen(key)) : candles[key].low <= p /\ p <= candles[key].high
  /\ candles[key].tradeCount <= SumFunction(Share(key))
  /\ candles[key].volume <= SumFunction(Weight(key))
  /\ NoLoss => /\ candles[key].tradeCount = SumFunction(Share(key))
               /\ candles[key].volume = SumFunction(Weight(key))

CandlesInv ==
  /\ Clock
  /\ \A w \in Worker : Busy(w)
  /\ Rows
  /\ Credits
  /\ \A key \in DOMAIN candles : Columns(key)

\* Trades are of transactions that do not fail, and have prices and volumes.
LEMMA TradeFacts ==
  ASSUME NEW t \in Trade
  PROVE  /\ t[1] \in DOMAIN Log /\ t[1] \in Nat /\ ~Log[t[1]].failed
         /\ t[2] \in DOMAIN Trades(t[1]) /\ t[2] \in Nat
         /\ t = <<t[1], t[2]>>
         /\ derivePrice(Event(t)) \in Nat \ {0} /\ Volume(Event(t)) \in Nat
<1>0. PICK n \in DOMAIN Log : t \in {<<n, i>> : i \in DOMAIN Trades(n)}
  BY DEF Trade
<1>1. PICK i \in DOMAIN Trades(n) : t = <<n, i>>
  BY <1>0
<1>2. t[1] = n /\ t[2] = i /\ ~Log[n].failed /\ derivePrice(Event(t)) > 0
  BY <1>1 DEF Trade
<1>3. Log \in Seq(ToSet(Log)) /\ PRICE_SCALE \in Nat
  BY IndexerAssumption
<1> DEFINE S == ToSet(Log[n].events)
           e == Event(t)
<1>4. Trades(n) \in Seq(S)
  BY EventsAreSequences
<1>5. e \in S /\ e.type = "TaxedSwap"
  <2>1. e = Trades(n)[i] /\ e \in ToSet(Trades(n))
    BY <1>2 DEF Event, ToSet
  <2>2. e \in ToSet(OfType(n, {"TaxedSwap"}))
    BY <2>1, TradesAreTaxed
  <2> HIDE DEF e
  <2>3. \A types, x : x \in ToSet(OfType(n, types)) <=> x \in S /\ x.type \in types
    BY EventsAreSequences
  <2> HIDE DEF S
  <2> QED BY <2>2, <2>3
<1>6. e.inputAmount \in Nat /\ e.outputAmount \in Nat /\ e.taxAmount \in Nat
  BY <1>5, IndexerAssumption
<1> HIDE DEF S, e
<1>7. Volume(e) \in Nat
  BY <1>6 DEF Volume
<1>8. derivePrice(e) \in Int
  <2> DEFINE paid == IF e.direction = "buy" THEN e.inputAmount - e.taxAmount
                                            ELSE e.outputAmount + e.taxAmount
             received == IF e.direction = "buy" THEN e.outputAmount ELSE e.inputAmount
  <2>1. paid \in Int /\ received \in Nat
    BY <1>6
  <2>2. derivePrice(e) = IF received > 0 THEN (paid * PRICE_SCALE) \div received ELSE 0
    BY DEF derivePrice
  <2> HIDE DEF paid, received
  <2>3. paid * PRICE_SCALE \in Int
    BY <1>3, <2>1
  <2>4. received > 0 => (paid * PRICE_SCALE) \div received \in Int
    BY <2>1, <2>3, DivInt
  <2> QED BY <2>2, <2>4
<1>9. n \in Nat /\ i \in Nat
  BY <1>3, <1>4
<1> QED BY <1>1, <1>2, <1>7, <1>8, <1>9 DEF e

\* The log has finitely many trades.
LEMMA TradesFinite == IsFiniteSet(Trade)
<1> DEFINE of == [n \in DOMAIN Log |-> {<<n, i>> : i \in DOMAIN Trades(n)}]
<1>1. Log \in Seq(ToSet(Log))
  BY IndexerAssumption
<1>2. IsFiniteSet(DOMAIN Log)
  <2>1. DOMAIN Log = 1..Len(Log) /\ Len(Log) \in Nat
    BY <1>1
  <2> QED BY <2>1, FS_Interval
<1>3. ASSUME NEW n \in DOMAIN Log PROVE IsFiniteSet(of[n])
  <2>1. Trades(n) \in Seq(ToSet(Log[n].events))
    BY EventsAreSequences
  <2>2. DOMAIN Trades(n) = 1..Len(Trades(n)) /\ Len(Trades(n)) \in Nat
    BY <2>1
  <2>3. IsFiniteSet(DOMAIN Trades(n))
    BY <2>2, FS_Interval
  <2>4. PICK f : f = [i \in DOMAIN Trades(n) |-> <<n, i>>]
    OBVIOUS
  <2>5. f = [i \in DOMAIN Trades(n) |-> f[i]] /\ of[n] = {f[i] : i \in DOMAIN Trades(n)}
    BY <2>4
  <2> QED BY <2>3, <2>5, ImageFinite
<1>4. IsFiniteSet({of[n] : n \in DOMAIN Log})
  <2>1. of = [n \in DOMAIN Log |-> of[n]]
    OBVIOUS
  <2> HIDE DEF of
  <2> QED BY <1>2, <2>1, ImageFinite
<1>5. IsFiniteSet(UNION {of[n] : n \in DOMAIN Log})
  <2>1. \A T \in {of[n] : n \in DOMAIN Log} : IsFiniteSet(T)
    BY <1>3
  <2> HIDE DEF of
  <2> QED BY <1>4, <2>1, FS_UNION
<1>6. Trade \subseteq UNION {of[n] : n \in DOMAIN Log}
  BY DEF Trade
<1> HIDE DEF of
<1> QED BY <1>5, <1>6, FS_Subset

\* What a worker calls for a transaction it took up.
LEMMA CallsOf ==
  ASSUME NEW w, NEW n \in DOMAIN Log, ~Log[n].failed
  PROVE  LET calls == Calls(w, n)
         IN  /\ calls \in Seq(CallRecord)
             /\ \A c \in ToSet(calls) :
                  /\ c.n = n /\ c.left = RESOLUTION_SECONDS
                  /\ c.do \in {"storeTaxedSwap", "upsertCandles"} => c.i \in DOMAIN Trades(n)
                  /\ c.do = "upsertCandles" => <<n, c.i>> \in Trade
             /\ \A t \in Trade : t[1] = n => Call("upsertCandles", n, t[2]) \in ToSet(calls)
             /\ Apart(calls)
<1> DEFINE trade(i) == TradeCalls(w, n, i)
           trades == [i \in DOMAIN Trades(n) |-> trade(i)]
           carnage(i) == CarnageCalls(n, i)
           carnages == [i \in DOMAIN parseCarnageEvents(n) |-> carnage(i)]
           epoch == IF parseEpochEvents(n) = <<>> THEN <<>> ELSE <<Call("storeEpochEvents", n, 1)>>
           rest == IF w = Backfill THEN <<>> ELSE epoch \o FlattenSeq(carnages)
           IsTrade(c) == /\ c.n = n /\ c.left = RESOLUTION_SECONDS
                         /\ c.do \in {"storeTaxedSwap", "upsertCandles"}
                         /\ c.i \in DOMAIN Trades(n)
                         /\ c.do = "upsertCandles" => <<n, c.i>> \in Trade
           IsOther(c) == /\ c.n = n /\ c.left = RESOLUTION_SECONDS
                         /\ c.do \notin {"storeTaxedSwap", "upsertCandles"}
<1>1. /\ Len(Trades(n)) \in Nat /\ DOMAIN Trades(n) = 1..Len(Trades(n))
      /\ Len(parseCarnageEvents(n)) \in Nat
      /\ DOMAIN parseCarnageEvents(n) = 1..Len(parseCarnageEvents(n))
  <2> DEFINE S == ToSet(Log[n].events)
  <2>1. Trades(n) \in Seq(S) /\ parseCarnageEvents(n) \in Seq(S)
    BY EventsAreSequences
  <2> HIDE DEF S
  <2> QED BY <2>1
<1>2. ASSUME NEW do \in CallNames, NEW i \in Nat
      PROVE  Call(do, n, i) \in CallRecord
  BY DEF Call, CallRecord
<1>3. ASSUME NEW i \in DOMAIN Trades(n)
      PROVE  /\ trade(i) \in Seq(CallRecord) /\ Len(trade(i)) \in 0..2
             /\ \A k \in 1..Len(trade(i)) : IsTrade(trade(i)[k]) /\ trade(i)[k].i = i
             /\ \A k \in 1..Len(trade(i)) : trade(i)[k].do = "upsertCandles" => k = 2
             /\ <<n, i>> \in Trade => Call("upsertCandles", n, i) \in ToSet(trade(i))
  <2> DEFINE a == Call("storeTaxedSwap", n, i)
             b == Call("upsertCandles", n, i)
  <2>1. a \in CallRecord /\ b \in CallRecord
    BY <1>1, <1>2 DEF CallNames
  <2>2. <<n, i>> \in Trade <=> derivePrice(Trades(n)[i]) > 0
    BY DEF Trade, Event
  <2>3. a.do = "storeTaxedSwap" /\ IsTrade(a) /\ a.i = i
    BY DEF Call
  <2>4. b.do = "upsertCandles" /\ (<<n, i>> \in Trade => IsTrade(b)) /\ b.i = i
    BY DEF Call
  <2>5. CASE <<n, i>> \in Trade
    <3>1. trade(i) = <<a, b>>
      BY <2>2, <2>5 DEF TradeCalls
    <3> HIDE DEF a, trade, IsTrade
    <3>2. PICK s : s = <<a, b>>
      OBVIOUS
    <3> DEFINE bb == b
    <3> HIDE DEF bb
    <3>3. s = <<a, bb>> /\ bb \in CallRecord
      BY <2>1, <3>2 DEF bb
    <3>4. s \in Seq(CallRecord) /\ Len(s) = 2 /\ s[1] = a /\ s[2] = b /\ DOMAIN s = 1..2
      BY <2>1, <3>3 DEF bb
    <3>5. b \in ToSet(s)
      BY <3>4 DEF ToSet
    <3>6. \A k \in 1..2 : k = 1 \/ k = 2
      OBVIOUS
    <3>7. \A k \in 1..2 : IsTrade(s[k]) /\ s[k].i = i /\ (s[k].do = "upsertCandles" => k = 2)
      BY <2>3, <2>4, <2>5, <3>4, <3>6
    <3> QED BY <3>1, <3>2, <3>4, <3>5, <3>7
  <2>6. CASE <<n, i>> \notin Trade
    <3>1. trade(i) = <<a>> \/ trade(i) = <<>>
      BY <2>2, <2>6 DEF TradeCalls
    <3> HIDE DEF a, trade, IsTrade
    <3>2. <<a>> \in Seq(CallRecord) /\ Len(<<a>>) = 1 /\ <<a>>[1] = a
      BY <2>1
    <3>3. <<>> \in Seq(CallRecord) /\ Len(<<>>) = 0
      OBVIOUS
    <3>4. CASE trade(i) = <<a>>
      <4>1. \A k \in 1..1 : k = 1
        OBVIOUS
      <4>2. \A k \in 1..Len(trade(i)) : trade(i)[k] = a
        BY <3>2, <3>4, <4>1
      <4>3. trade(i) \in Seq(CallRecord) /\ Len(trade(i)) \in 0..2
        BY <3>2, <3>4
      <4>4. a.do # "upsertCandles"
        BY <2>3
      <4> QED BY <2>3, <2>6, <4>2, <4>3, <4>4
    <3>5. CASE trade(i) = <<>>
      BY <2>6, <3>3, <3>5
    <3> QED BY <3>1, <3>4, <3>5
  <2> QED BY <2>5, <2>6
<1>4. ASSUME NEW i \in DOMAIN parseCarnageEvents(n)
      PROVE  carnage(i) \in Seq(CallRecord) /\ \A c \in ToSet(carnage(i)) : IsOther(c)
  <2> DEFINE a == Call("queryHeld", n, i)
             b == Call("storeCarnageEvent", n, i)
  <2>1. a \in CallRecord /\ b \in CallRecord
    BY <1>1, <1>2 DEF CallNames
  <2>2. carnage(i) = <<a, b>> \/ carnage(i) = <<b>>
    BY DEF CarnageCalls
  <2>3. IsOther(a) /\ IsOther(b)
    BY DEF Call
  <2> HIDE DEF a, b, carnage, IsOther
  <2>4. <<a, b>> \in Seq(CallRecord) /\ ToSet(<<a, b>>) = {a, b}
    BY <2>1 DEF ToSet
  <2>5. <<b>> \in Seq(CallRecord) /\ ToSet(<<b>>) = {b}
    BY <2>1 DEF ToSet
  <2> QED BY <2>2, <2>3, <2>4, <2>5
<1>5. epoch \in Seq(CallRecord) /\ \A c \in ToSet(epoch) : IsOther(c)
  <2> DEFINE a == Call("storeEpochEvents", n, 1)
  <2>1. a \in CallRecord
    BY <1>2 DEF CallNames
  <2>2. IsOther(a)
    BY DEF Call
  <2>3. epoch = <<>> \/ epoch = <<a>>
    OBVIOUS
  <2> HIDE DEF a, epoch, IsOther
  <2>4. <<a>> \in Seq(CallRecord) /\ ToSet(<<a>>) = {a}
    BY <2>1 DEF ToSet
  <2>5. <<>> \in Seq(CallRecord) /\ ToSet(<<>>) = {}
    BY DEF ToSet
  <2> QED BY <2>2, <2>3, <2>4, <2>5
<1>6. Calls(w, n) = FlattenSeq(trades) \o rest
  BY DEF Calls
<1> HIDE DEF trade, carnage, epoch, IsTrade, IsOther
<1>a. ASSUME NEW i \in DOMAIN Trades(n)
      PROVE  /\ trade(i) \in Seq(CallRecord)
             /\ \A c \in ToSet(trade(i)) : IsTrade(c)
  <2>1. trade(i) \in Seq(CallRecord) /\ \A k \in 1..Len(trade(i)) : IsTrade(trade(i)[k])
    BY <1>3
  <2>2. DOMAIN trade(i) = 1..Len(trade(i))
    BY <2>1
  <2> QED BY <2>1, <2>2, Zenon DEF ToSet
<1>7. /\ trades \in Seq(Seq(CallRecord)) /\ DOMAIN trades = DOMAIN Trades(n)
      /\ \A i \in DOMAIN Trades(n) : trades[i] = trade(i)
  BY <1>1, <1>a
<1>8. /\ carnages \in Seq(Seq(CallRecord)) /\ DOMAIN carnages = DOMAIN parseCarnageEvents(n)
      /\ \A i \in DOMAIN parseCarnageEvents(n) : carnages[i] = carnage(i)
  BY <1>1, <1>4
<1> HIDE DEF trades, carnages
<1>9. /\ Gathers(CallRecord, trades, FlattenSeq(trades))
      /\ Gathers(CallRecord, carnages, FlattenSeq(carnages))
  BY <1>7, <1>8, FlattenGathers, Zenon
<1>10. /\ FlattenSeq(trades) \in Seq(CallRecord)
       /\ \A c \in ToSet(FlattenSeq(trades)) : IsTrade(c)
       /\ \A i \in DOMAIN Trades(n) : ToSet(trade(i)) \subseteq ToSet(FlattenSeq(trades))
  BY <1>7, <1>9, <1>a DEF Gathers
<1>11. FlattenSeq(carnages) \in Seq(CallRecord) /\ \A c \in ToSet(FlattenSeq(carnages)) : IsOther(c)
  <2> QED BY <1>4, <1>8, <1>9 DEF Gathers
<1>12. rest \in Seq(CallRecord) /\ \A c \in ToSet(rest) : IsOther(c)
  <2>1. <<>> \in Seq(CallRecord) /\ ToSet(<<>>) = {}
    BY DEF ToSet
  <2> DEFINE some == epoch \o FlattenSeq(carnages)
  <2>2. some \in Seq(CallRecord) /\ \A c \in ToSet(some) : IsOther(c)
    BY <1>5, <1>11, JoinToSet, Zenon
  <2>3. rest = IF w = Backfill THEN <<>> ELSE some
    OBVIOUS
  <2> HIDE DEF rest, some
  <2> QED BY <2>1, <2>2, <2>3
<1> HIDE DEF rest
<1>13. /\ Calls(w, n) \in Seq(CallRecord)
       /\ \A c : c \in ToSet(Calls(w, n)) <=> c \in ToSet(FlattenSeq(trades)) \/ c \in ToSet(rest)
  BY <1>6, <1>10, <1>12, JoinToSet, Zenon
<1>14. ASSUME NEW c \in ToSet(Calls(w, n))
       PROVE  /\ c.n = n /\ c.left = RESOLUTION_SECONDS
              /\ c.do \in {"storeTaxedSwap", "upsertCandles"} => c.i \in DOMAIN Trades(n)
              /\ c.do = "upsertCandles" => <<n, c.i>> \in Trade
  <2>1. IsTrade(c) \/ IsOther(c)
    BY <1>10, <1>12, <1>13
  <2> QED BY <2>1 DEF IsTrade, IsOther
<1>15. ASSUME NEW t \in Trade, t[1] = n PROVE Call("upsertCandles", n, t[2]) \in ToSet(Calls(w, n))
  <2>1. t = <<n, t[2]>> /\ t[2] \in DOMAIN Trades(n)
    BY <1>15, TradeFacts
  <2>2. Call("upsertCandles", n, t[2]) \in ToSet(trade(t[2]))
    BY <1>3, <2>1
  <2> QED BY <1>10, <1>13, <2>1, <2>2
<1>16. Apart(FlattenSeq(trades))
  <2> DEFINE Rises(q, m) ==
               /\ q \in Seq(CallRecord)
               /\ \A k \in 1..Len(q) : q[k].do = "upsertCandles" =>
                    /\ q[k].i <= m
                    /\ \A j \in 1..Len(q) :
                         j < k /\ q[j].do = "upsertCandles" => q[j].i < q[k].i
             len == Len(Trades(n))
  <2>1. /\ Len(trades) = len /\ len \in Nat
        /\ \A i \in 1..len : trades[i] = trade(i)
    BY <1>1, <1>7
  <2>2. ASSUME NEW m \in Nat, m + 1 \in 1..len, NEW q, Rises(q, m)
        PROVE  Rises(q \o trade(m + 1), m + 1)
    <3> DEFINE p == trade(m + 1)
               s == q \o p
    <3>1. /\ p \in Seq(CallRecord) /\ Len(p) \in 0..2
          /\ \A k \in 1..Len(p) : p[k].i = m + 1 /\ (p[k].do = "upsertCandles" => k = 2)
      BY <1>1, <1>3, <2>2
    <3>2. Join(CallRecord, q, p, s)
      <4>1. q \in Seq(CallRecord)
        BY <2>2
      <4> HIDE DEF p
      <4> QED BY <3>1, <4>1, Joined, Zenon
    <3> HIDE DEF s, p
    <3>3. /\ s \in Seq(CallRecord) /\ Len(q) \in Nat /\ Len(s) = Len(q) + Len(p)
          /\ \A k \in 1..Len(q) : s[k] = q[k] /\ q[k].i \in Nat
          /\ \A k \in 1..Len(p) : s[Len(q) + k] = p[k]
      BY <3>2 DEF Join, CallRecord
    <3>4. ASSUME NEW k \in 1..Len(s), s[k].do = "upsertCandles"
          PROVE  \/ k \in 1..Len(q) /\ s[k] = q[k]
                 \/ k = Len(q) + 2 /\ s[k].i = m + 1
      <4>1. CASE k <= Len(q)
        BY <3>3, <4>1
      <4>2. CASE k > Len(q)
        <5>1. k - Len(q) \in 1..Len(p) /\ k = Len(q) + (k - Len(q))
          BY <3>1, <3>3, <4>2
        <5>2. s[k] = p[k - Len(q)]
          BY <3>3, <5>1
        <5>3. k - Len(q) = 2 /\ s[k].i = m + 1
          BY <3>1, <3>4, <5>1, <5>2
        <5> QED BY <3>3, <5>3
      <4> QED BY <3>3, <4>1, <4>2
    <3>5. ASSUME NEW k \in 1..Len(s), s[k].do = "upsertCandles"
          PROVE  /\ s[k].i <= m + 1
                 /\ \A j \in 1..Len(s) : j < k /\ s[j].do = "upsertCandles" => s[j].i < s[k].i
      <4>1. CASE k \in 1..Len(q) /\ s[k] = q[k]
        <5>1. q[k].i <= m
          BY <2>2, <3>5, <4>1
        <5>2. ASSUME NEW j \in 1..Len(s), j < k, s[j].do = "upsertCandles" PROVE s[j].i < s[k].i
          <6>1. j \in 1..Len(q) /\ s[j] = q[j]
            BY <3>3, <4>1, <5>2
          <6> QED BY <2>2, <3>5, <4>1, <5>2, <6>1
        <5> QED BY <3>3, <4>1, <5>1, <5>2
      <4>2. CASE k = Len(q) + 2 /\ s[k].i = m + 1
        <5>1. ASSUME NEW j \in 1..Len(s), j < k, s[j].do = "upsertCandles" PROVE s[j].i < s[k].i
          <6>1. j \in 1..Len(q) /\ s[j] = q[j]
            BY <3>3, <3>4, <4>2, <5>1
          <6>2. q[j].i <= m /\ q[j].i \in Nat
            BY <2>2, <3>3, <5>1, <6>1
          <6> QED BY <4>2, <6>1, <6>2
        <5> QED BY <4>2, <5>1
      <4> QED BY <3>4, <3>5, <4>1, <4>2
    <3> QED BY <3>3, <3>5 DEF s, p
  <2>3. CASE len = 0
    <3>1. trades = <<>>
      BY <1>7, <2>1, <2>3
    <3>2. FlattenSeq(trades) = <<>>
      BY <3>1 DEF FlattenSeq
    <3> QED BY <3>2 DEF Apart
  <2>4. CASE len # 0
    <3>1. PICK run : FlattenRun(trades, run)
      BY <2>1, <2>4, FlattenRuns
    <3> DEFINE P == {m \in Nat : m + 1 <= len => Rises(run[m + 1], m + 1)}
    <3>2. 0 \in P
      <4>1. run[1] = trade(1) /\ 1 \in 1..len
        BY <2>1, <2>4, <3>1 DEF FlattenRun
      <4>2. <<>> \in Seq(CallRecord) /\ Len(<<>>) = 0
        OBVIOUS
      <4>3. Rises(<<>>, 0)
        BY <4>2
      <4>4. trade(1) \in Seq(CallRecord)
        BY <1>1, <1>3, <4>1
      <4>5. <<>> \o trade(1) = trade(1)
        BY <4>4
      <4> HIDE DEF Rises
      <4>6. 0 + 1 = 1
        OBVIOUS
      <4>7. Rises(<<>> \o trade(0 + 1), 0 + 1)
        BY <2>2, <4>1, <4>3, <4>6
      <4> QED BY <4>1, <4>5, <4>6, <4>7
    <3>3. ASSUME NEW m \in Nat, m \in P PROVE m + 1 \in P
      <4> SUFFICES ASSUME (m + 1) + 1 <= len PROVE Rises(run[(m + 1) + 1], (m + 1) + 1)
        OBVIOUS
      <4>1. m + 1 \in Nat /\ (m + 1) + 1 \in 1..len /\ (m + 1) + 1 \in 2..Len(trades)
            /\ ((m + 1) + 1) - 1 = m + 1 /\ m + 1 <= len
        BY <2>1
      <4>2. run[(m + 1) + 1] = run[m + 1] \o trade((m + 1) + 1)
        BY <2>1, <3>1, <4>1 DEF FlattenRun
      <4>3. Rises(run[m + 1], m + 1)
        BY <3>3, <4>1
      <4> HIDE DEF Rises
      <4>4. PICK k \in Nat : k = m + 1
        BY <4>1
      <4>5. Rises(run[k] \o trade(k + 1), k + 1)
        BY <2>2, <4>1, <4>3, <4>4
      <4> QED BY <4>2, <4>4, <4>5
    <3>4. Nat \subseteq P
      <4> HIDE DEF P
      <4> QED BY <3>2, <3>3, NatSetInduction
    <3>5. Rises(run[len], len)
      <4>1. PICK m \in Nat : m + 1 = len
        <5>1. len - 1 \in Nat /\ (len - 1) + 1 = len
          BY <2>1, <2>4
        <5> QED BY <5>1
      <4>2. m \in P
        <5> HIDE DEF P
        <5> QED BY <3>4
      <4> HIDE DEF Rises
      <4>3. Rises(run[m + 1], m + 1)
        BY <2>1, <4>1, <4>2
      <4> QED BY <4>1, <4>3
    <3>6. FlattenSeq(trades) = run[len]
      BY <2>1, <3>1 DEF FlattenRun
    <3>7. PICK q : q = run[len]
      OBVIOUS
    <3>8. Rises(q, len)
      <4> HIDE DEF Rises
      <4> QED BY <3>5, <3>7
    <3>9. q \in Seq(CallRecord) /\ DOMAIN q = 1..Len(q) /\ \A k \in 1..Len(q) : q[k].i \in Nat
      <4>1. q \in Seq(CallRecord)
        BY <3>8
      <4>2. DOMAIN q = 1..Len(q) /\ \A k \in 1..Len(q) : q[k] \in CallRecord
        BY <4>1
      <4> QED BY <4>1, <4>2 DEF CallRecord
    <3>10. Apart(q)
      <4> SUFFICES ASSUME NEW j \in 1..Len(q), NEW k \in 1..Len(q), j < k,
                          q[j].do = "upsertCandles", q[k].do = "upsertCandles"
                   PROVE  q[j].i # q[k].i
        BY <3>9 DEF Apart
      <4>1. q[j].i < q[k].i
        BY <3>8
      <4> QED BY <3>9, <4>1
    <3> QED BY <3>6, <3>7, <3>10
  <2> QED BY <2>3, <2>4
<1>17. Apart(Calls(w, n))
  <2>1. Join(CallRecord, FlattenSeq(trades), rest, Calls(w, n))
    BY <1>6, <1>10, <1>12, Joined, Zenon
  <2> DEFINE s == FlattenSeq(trades)
             a == Calls(w, n)
  <2> SUFFICES ASSUME NEW j \in DOMAIN a, NEW k \in DOMAIN a, j < k,
                      a[j].do = "upsertCandles", a[k].do = "upsertCandles"
               PROVE  a[j].i # a[k].i \/ a[j].n # a[k].n
    BY DEF Apart
  <2>2. /\ Len(s) \in Nat /\ Len(rest) \in Nat /\ DOMAIN a = 1..(Len(s) + Len(rest))
        /\ DOMAIN s = 1..Len(s) /\ DOMAIN rest = 1..Len(rest)
        /\ \A m \in 1..Len(s) : a[m] = s[m]
        /\ \A m \in 1..Len(rest) : a[Len(s) + m] = rest[m]
    <3>1. a \in Seq(CallRecord) /\ Len(a) = Len(s) + Len(rest)
      BY <2>1 DEF Join
    <3>2. DOMAIN a = 1..Len(a)
      BY <3>1
    <3>3. s \in Seq(CallRecord) /\ rest \in Seq(CallRecord)
      BY <1>10, <1>12
    <3> QED BY <2>1, <3>1, <3>2, <3>3 DEF Join
  <2> HIDE DEF s, a
  <2>3. ASSUME NEW m \in DOMAIN a, a[m].do = "upsertCandles" PROVE m \in 1..Len(s)
    <3> SUFFICES ASSUME m > Len(s) PROVE FALSE
      BY <2>2
    <3>1. m - Len(s) \in 1..Len(rest) /\ m = Len(s) + (m - Len(s))
      BY <2>2
    <3>2. a[m] = rest[m - Len(s)]
      BY <2>2, <3>1
    <3>3. a[m] \in ToSet(rest)
      BY <2>2, <3>1, <3>2 DEF ToSet
    <3>4. IsOther(a[m])
      BY <1>12, <3>3
    <3> QED BY <2>3, <3>4 DEF IsOther
  <2>4. j \in 1..Len(s) /\ k \in 1..Len(s) /\ a[j] = s[j] /\ a[k] = s[k]
    BY <2>2, <2>3
  <2>5. Apart(s)
    BY <1>16 DEF s
  <2> QED BY <2>2, <2>4, <2>5 DEF Apart
<1> QED BY <1>13, <1>14, <1>15, <1>17

\* Sets of workers are finite.
LEMMA AskersFinite ==
  ASSUME NEW A \in SUBSET Worker
  PROVE  IsFiniteSet(A) /\ Cardinality(A) \in Nat
<1>1. IsFiniteSet(Request \union {Backfill})
  BY IndexerAssumption, FS_AddElement
<1>2. IsFiniteSet(A)
  BY <1>1, FS_Subset DEF Worker
<1> QED BY <1>2, FS_CardinalityType

\* What trades contribute to a candle are natural numbers.
LEMMA SharesTyped ==
  ASSUME Credits, NEW key, key[2] \in RESOLUTION_SECONDS
  PROVE  Share(key) \in [Trade -> Nat] /\ Weight(key) \in [Trade -> Nat]
<1>1. \A t \in Trade : t[1] \in Landed => Credit(t, key[2]) \in Nat
  BY DEF Credits
<1>2. Share(key) \in [Trade -> Nat]
  BY <1>1 DEF Share
<1>3. \A t \in Trade : Volume(Event(t)) \in Nat
  BY TradeFacts
<1>4. \A t \in Trade : Share(key)[t] * Volume(Event(t)) \in Nat
  BY <1>2, <1>3, ProductNat
<1> QED BY <1>2, <1>4 DEF Weight

\* What a step does to credits when no candle changes.
Keeps ==
  \A t \in Trade, r \in RESOLUTION_SECONDS : t[1] \in Landed =>
    /\ Credit(t, r)' \in Nat /\ Credit(t, r) <= Credit(t, r)'
    /\ NoLoss' => Credit(t, r)' = Credit(t, r)

\* The totals grow with the credits.
LEMMA SharesGrow ==
  ASSUME Credits, Credits', Landed' = Landed, blockTime' = blockTime, Keeps,
         NEW key, key[2] \in RESOLUTION_SECONDS
  PROVE  /\ SumFunction(Share(key)) <= SumFunction(Share(key)')
         /\ SumFunction(Weight(key)) <= SumFunction(Weight(key)')
         /\ NoLoss' => Share(key)' = Share(key) /\ Weight(key)' = Weight(key)
         /\ SumFunction(Share(key)) \in Nat /\ SumFunction(Share(key)') \in Nat
         /\ SumFunction(Weight(key)) \in Nat /\ SumFunction(Weight(key)') \in Nat
<1>1. Share(key) \in [Trade -> Nat] /\ Weight(key) \in [Trade -> Nat]
  BY SharesTyped
<1>2. Share(key)' \in [Trade -> Nat] /\ Weight(key)' \in [Trade -> Nat]
  <2>1. \A t \in Trade : t[1] \in Landed' => Credit(t, key[2])' \in Nat
    BY DEF Credits
  <2>2. Share(key)' \in [Trade -> Nat]
    BY <2>1 DEF Share
  <2>3. \A t \in Trade : Share(key)'[t] * Volume(Event(t)) \in Nat
    BY <2>2, TradeFacts, ProductNat
  <2> QED BY <2>2, <2>3 DEF Weight
<1>3. \A t \in Trade : Period(t, key[2])' = Period(t, key[2])
  BY DEF Period
<1>4. ASSUME NEW t \in Trade PROVE Share(key)[t] <= Share(key)'[t]
  BY <1>3 DEF Share, Keeps
<1>5. ASSUME NEW t \in Trade PROVE Weight(key)[t] <= Weight(key)'[t]
  <2>1. Weight(key)[t] = Share(key)[t] * Volume(Event(t))
        /\ Weight(key)'[t] = Share(key)'[t] * Volume(Event(t))
    BY DEF Weight
  <2>2. Share(key)[t] \in Nat /\ Share(key)'[t] \in Nat /\ Volume(Event(t)) \in Nat
    BY <1>1, <1>2, TradeFacts
  <2> QED BY <1>4, <2>1, <2>2, ProductMonotone
<1>6. NoLoss' => Share(key)' = Share(key)
  BY <1>3 DEF Share, Keeps
<1>7. NoLoss' => Weight(key)' = Weight(key)
  BY <1>6 DEF Weight
<1>8. PICK a, b, c, d : a = Share(key) /\ b = Share(key)' /\ c = Weight(key) /\ d = Weight(key)'
  OBVIOUS
<1>9. /\ a \in [Trade -> Nat] /\ b \in [Trade -> Nat] /\ c \in [Trade -> Nat] /\ d \in [Trade -> Nat]
      /\ \A t \in Trade : a[t] <= b[t]
      /\ \A t \in Trade : c[t] <= d[t]
  BY <1>1, <1>2, <1>4, <1>5, <1>8
<1>10. SumFunction(a) <= SumFunction(b) /\ SumFunction(c) <= SumFunction(d)
  BY <1>9, TradesFinite, SumMonotone
<1>11. SumFunction(a) \in Nat /\ SumFunction(b) \in Nat /\ SumFunction(c) \in Nat /\ SumFunction(d) \in Nat
  BY <1>9, TradesFinite, SumNat
<1> QED BY <1>6, <1>7, <1>8, <1>10, <1>11

\* A step that changes no candle.
LEMMA CandlesStay ==
  ASSUME Credits, \A key \in DOMAIN candles : Columns(key),
         UNCHANGED <<blockTime, candles, counted>>, NoLoss' => NoLoss, Keeps
  PROVE  Credits' /\ \A key \in DOMAIN candles' : Columns(key)'
<1>1. Landed' = Landed /\ \A t, r : Period(t, r)' = Period(t, r)
  BY DEF Landed, Period
<1>2. Credits'
  <2>1. \A t \in Trade, r \in RESOLUTION_SECONDS : t[1] \in Landed' => Credit(t, r)' \in Nat
    BY <1>1 DEF Keeps
  <2>2. ASSUME NEW x \in counted'
        PROVE  \E t \in Trade, r \in RESOLUTION_SECONDS :
                 /\ x = <<t[1], t[2], r>> /\ t[1] \in Landed'
                 /\ Period(t, r)' \in DOMAIN candles' /\ Credit(t, r)' > 0
    <3>1. PICK t \in Trade, r \in RESOLUTION_SECONDS :
            /\ x = <<t[1], t[2], r>> /\ t[1] \in Landed
            /\ Period(t, r) \in DOMAIN candles /\ Credit(t, r) > 0
      BY <2>2 DEF Credits
    <3>2. Credit(t, r)' \in Nat /\ Credit(t, r) <= Credit(t, r)' /\ Credit(t, r) \in Nat
      BY <3>1 DEF Keeps, Credits
    <3>3. Credit(t, r)' > 0
      BY <3>1, <3>2
    <3> QED BY <1>1, <3>1, <3>3
  <2>3. ASSUME NoLoss', NEW t \in Trade, NEW r \in RESOLUTION_SECONDS, t[1] \in Landed',
               Credit(t, r)' > 0
        PROVE  <<t[1], t[2], r>> \in counted'
    <3>1. Credit(t, r) > 0 /\ NoLoss /\ t[1] \in Landed
      BY <1>1, <2>3 DEF Keeps
    <3> QED BY <3>1 DEF Credits
  <2> QED BY <2>1, <2>2, <2>3 DEF Credits
<1>3. ASSUME NEW key \in DOMAIN candles' PROVE Columns(key)'
  <2>1. key \in DOMAIN candles /\ Columns(key) /\ candles' = candles
    BY <1>3
  <2>2. PICK t \in Trade, r \in RESOLUTION_SECONDS : t[1] \in Landed /\ key = Period(t, r)
    BY <2>1 DEF Columns
  <2>3. key[2] \in RESOLUTION_SECONDS
    BY <2>2 DEF Period
  <2>4. Seen(key)' = Seen(key)
    BY <1>1 DEF Seen
  <2>5. /\ SumFunction(Share(key)) <= SumFunction(Share(key)')
        /\ SumFunction(Weight(key)) <= SumFunction(Weight(key)')
        /\ NoLoss' => Share(key)' = Share(key) /\ Weight(key)' = Weight(key)
        /\ SumFunction(Share(key)) \in Nat /\ SumFunction(Share(key)') \in Nat
        /\ SumFunction(Weight(key)) \in Nat /\ SumFunction(Weight(key)') \in Nat
    BY <1>1, <1>2, <2>3, SharesGrow
  <2>6. candles[key].tradeCount \in Nat /\ candles[key].volume \in Nat
    BY <2>1 DEF Columns, RowOK
  <2>7. /\ \E u \in Trade, s \in RESOLUTION_SECONDS : u[1] \in Landed' /\ key = Period(u, s)'
        /\ RowOK(candles'[key])
        /\ candles'[key].high \in PricesIn(Seen(key)') /\ candles'[key].low \in PricesIn(Seen(key)')
        /\ \A p \in PricesIn(Seen(key)') : candles'[key].low <= p /\ p <= candles'[key].high
    BY <1>1, <2>1, <2>2, <2>4 DEF Columns
  <2>8. /\ candles'[key].tradeCount <= SumFunction(Share(key)')
        /\ candles'[key].volume <= SumFunction(Weight(key)')
    BY <2>1, <2>5, <2>6 DEF Columns
  <2>9. NoLoss' => /\ candles'[key].tradeCount = SumFunction(Share(key)')
                   /\ candles'[key].volume = SumFunction(Weight(key)')
    BY <2>1, <2>5 DEF Columns
  <2> QED BY <2>7, <2>8, <2>9 DEF Columns, RowOK, PricesIn
<1> QED BY <1>2, <1>3

\* Fewer are about to upsert, and nobody lost anything.
LEMMA FewerAsk ==
  ASSUME Clock, Credits, UNCHANGED attempts,
         \A t, r : Askers(t, r)' \subseteq Askers(t, r),
         NoLoss' => \A t, r : Askers(t, r)' = Askers(t, r)
  PROVE  Keeps
<1> SUFFICES ASSUME NEW t \in Trade, NEW r \in RESOLUTION_SECONDS, t[1] \in Landed
             PROVE  /\ Credit(t, r)' \in Nat /\ Credit(t, r) <= Credit(t, r)'
                    /\ NoLoss' => Credit(t, r)' = Credit(t, r)
  BY DEF Keeps
<1>1. Askers(t, r) \in SUBSET Worker /\ Askers(t, r)' \in SUBSET Askers(t, r)
  BY DEF Askers
<1>2. PICK A, B : A = Askers(t, r) /\ B = Askers(t, r)'
  OBVIOUS
<1>3. IsFiniteSet(A) /\ Cardinality(A) \in Nat /\ Cardinality(B) \in Nat
  BY <1>1, <1>2, AskersFinite
<1>4. Cardinality(B) <= Cardinality(A)
  BY <1>1, <1>2, <1>3, FS_Subset
<1>5. attempts[t[1]] \in Nat
  BY DEF Clock, Landed
<1>6. Credit(t, r) = attempts[t[1]] - Cardinality(A) /\ Credit(t, r)' = attempts[t[1]] - Cardinality(B)
  BY <1>2 DEF Credit
<1>7. Credit(t, r) \in Nat
  BY DEF Credits
<1>8. NoLoss' => A = B
  BY <1>2
<1> QED BY <1>3, <1>4, <1>5, <1>6, <1>7, <1>8

--------------------------------------------------------------------------------
(* What workers have to do. *)

\* A worker that does nothing has the same to do.
LEMMA StaysBusy ==
  ASSUME NEW v, work'[v] = work[v], Landed \subseteq Landed', Busy(v)
  PROVE  Busy(v)'
<1>1. work[v].payload \in Seq(Landed')
  <2>1. PICK p \in Seq(Landed) : p = work[v].payload
    BY DEF Busy
  <2>2. p \in Seq(Landed')
    OBVIOUS
  <2> QED BY <2>1, <2>2
<1>2. \A c : Sound(c) => Sound(c)'
  BY DEF Sound
<1> QED BY <1>1, <1>2 DEF Busy

\* One worker steps, the others have the same to do.
LEMMA OneBusy ==
  ASSUME \A v \in Worker : Busy(v), NEW w \in Worker, \A v \in Worker \ {w} : work'[v] = work[v],
         Landed' = Landed, Busy(w)'
  PROVE  \A v \in Worker : Busy(v)'
<1> SUFFICES ASSUME NEW v \in Worker PROVE Busy(v)'
  OBVIOUS
<1>1. CASE v = w
  BY <1>1
<1>2. CASE v # w
  BY <1>2, StaysBusy
<1> QED BY <1>1, <1>2

\* A worker without calls has nothing to call wrongly.
LEMMA NoCalls ==
  ASSUME NEW v, work'[v].payload \in Seq(Landed'), work'[v].calls = <<>>
  PROVE  Busy(v)'
<1>1. <<>> \in Seq(CallRecord) /\ ToSet(<<>>) = {}
  BY DEF ToSet
<1>2. Apart(<<>>)
  BY DEF Apart
<1> QED BY <1>1, <1>2 DEF Busy

\* A worker with the same calls, and another payload.
LEMMA SameCalls ==
  ASSUME NEW v, work'[v].payload \in Seq(Landed'), work'[v].calls = work[v].calls, Busy(v),
         Landed' = Landed
  PROVE  Busy(v)'
<1>1. \A c : Sound(c) => Sound(c)'
  BY DEF Sound
<1> QED BY <1>1 DEF Busy

\* The first call is made and dropped.
LEMMA OneCallLess ==
  ASSUME NEW w, Busy(w), work[w].calls # <<>>, Landed' = Landed,
         work'[w].payload = work[w].payload, work'[w].calls = Tail(work[w].calls)
  PROVE  /\ Busy(w)'
         /\ Next1(w) \in ToSet(work[w].calls) /\ Next1(w) \in CallRecord /\ Sound(Next1(w))
         /\ Next1(w).do = "upsertCandles" => \A c \in ToSet(Tail(work[w].calls)) :
              c.do = "upsertCandles" => c.n # Next1(w).n \/ c.i # Next1(w).i
<1>1. PICK q \in Seq(CallRecord) : q = work[w].calls
  BY DEF Busy
<1>2. /\ q # <<>> /\ Len(q) \in Nat \ {0} /\ DOMAIN q = 1..Len(q) /\ Head(q) = q[1]
      /\ Tail(q) \in Seq(CallRecord) /\ DOMAIN Tail(q) = 1..(Len(q) - 1)
      /\ \A k \in 1..(Len(q) - 1) : Tail(q)[k] = q[k + 1]
      /\ q[1] \in CallRecord
  BY <1>1
<1>3. \A c \in ToSet(Tail(q)) : c \in ToSet(q)
  BY <1>2, HeadTail
<1>4. q[1] \in ToSet(q)
  BY <1>2 DEF ToSet
<1>5. Apart(q) /\ \A c \in ToSet(q) : Sound(c)
  BY <1>1 DEF Busy
<1>6. Apart(Tail(q))
  <2> SUFFICES ASSUME NEW j \in 1..(Len(q) - 1), NEW k \in 1..(Len(q) - 1), j < k,
                      Tail(q)[j].do = "upsertCandles", Tail(q)[k].do = "upsertCandles"
               PROVE  Tail(q)[j].i # Tail(q)[k].i \/ Tail(q)[j].n # Tail(q)[k].n
    BY <1>2 DEF Apart
  <2>1. j + 1 \in 1..Len(q) /\ k + 1 \in 1..Len(q) /\ j + 1 < k + 1
    BY <1>2
  <2> QED BY <1>2, <1>5, <2>1 DEF Apart
<1>7. ASSUME q[1].do = "upsertCandles", NEW c \in ToSet(Tail(q)), c.do = "upsertCandles"
      PROVE  c.n # q[1].n \/ c.i # q[1].i
  <2>1. PICK k \in 1..(Len(q) - 1) : c = Tail(q)[k]
    BY <1>2, <1>7 DEF ToSet
  <2>2. k + 1 \in 1..Len(q) /\ 1 < k + 1 /\ 1 \in 1..Len(q) /\ c = q[k + 1]
    BY <1>2, <2>1
  <2> QED BY <1>2, <1>5, <1>7, <2>2 DEF Apart
<1>8. \A c : Sound(c) => Sound(c)'
  BY DEF Sound
<1>9. Busy(w)'
  BY <1>1, <1>2, <1>3, <1>5, <1>6, <1>8 DEF Busy
<1> QED BY <1>1, <1>2, <1>4, <1>5, <1>7, <1>9 DEF Next1

\* Who is about to upsert does not change with those whose calls do not.
LEMMA OthersAsk ==
  ASSUME NEW w \in Worker, \A v \in Worker \ {w} : work'[v] = work[v], NEW t, NEW r
  PROVE  \A v \in Worker \ {w} : v \in Askers(t, r)' <=> v \in Askers(t, r)
BY DEF Askers

\* The same calls are left, so the same upserts.
LEMMA SameAskers ==
  ASSUME \A v \in Worker : work'[v].calls = work[v].calls
  PROVE  \A t, r : Askers(t, r)' = Askers(t, r)
BY DEF Askers

\* Calls that are dropped ask for nothing.
LEMMA FewerAskers ==
  ASSUME \A v \in Worker : work'[v].calls = work[v].calls \/ work'[v].calls = <<>>
  PROVE  \A t, r : Askers(t, r)' \subseteq Askers(t, r)
<1>1. ToSet(<<>>) = {}
  BY DEF ToSet
<1> QED BY <1>1 DEF Askers

\* What is left of the first call when one of its upserts is made, or fails.
LEMMA LessBusy ==
  ASSUME NEW w, Busy(w), work[w].calls # <<>>, Landed' = Landed, NEW r,
         work'[w].payload = work[w].payload,
         work'[w].calls = [work[w].calls EXCEPT ![1].left = @ \ {r}]
  PROVE  /\ Busy(w)'
         /\ Next1(w) \in ToSet(work[w].calls) /\ Next1(w) \in CallRecord /\ Sound(Next1(w))
         /\ Next1(w).do = "upsertCandles" => \A t, s :
              (\E c \in ToSet(work'[w].calls) : Asks(c, t, s)) <=>
                /\ \E c \in ToSet(work[w].calls) : Asks(c, t, s)
                /\ ~(s = r /\ t[1] = Next1(w).n /\ t[2] = Next1(w).i)
<1>1. PICK q \in Seq(CallRecord) : q = work[w].calls
  BY DEF Busy
<1>2. PICK p : p = [q EXCEPT ![1].left = @ \ {r}]
  OBVIOUS
<1>3. /\ q # <<>> /\ Len(q) \in Nat \ {0} /\ DOMAIN q = 1..Len(q) /\ Head(q) = q[1]
      /\ 1 \in 1..Len(q) /\ \A k \in 1..Len(q) : q[k] \in CallRecord
  BY <1>1
<1>4. /\ DOMAIN p = 1..Len(q)
      /\ \A k \in 1..Len(q) : k # 1 => p[k] = q[k]
      /\ p[1] = [q[1] EXCEPT !.left = @ \ {r}]
  <2>1. DOMAIN p = DOMAIN q
    BY <1>2
  <2>2. p[1] = [q[1] EXCEPT !.left = @ \ {r}]
    BY <1>2, <1>3
  <2>3. \A k \in DOMAIN q : k # 1 => p[k] = q[k]
    BY <1>2
  <2> QED BY <1>3, <2>1, <2>2, <2>3
<1>5. /\ p[1] \in CallRecord /\ p[1].do = q[1].do /\ p[1].n = q[1].n /\ p[1].i = q[1].i
      /\ p[1].left = q[1].left \ {r}
  <2>1. q[1].left \ {r} \in SUBSET RESOLUTION_SECONDS
    BY <1>3 DEF CallRecord
  <2> QED BY <1>3, <1>4, <2>1 DEF CallRecord
<1>6. \A k \in 1..Len(q) : /\ p[k] \in CallRecord /\ p[k].do = q[k].do /\ p[k].n = q[k].n
                           /\ p[k].i = q[k].i
  BY <1>3, <1>4, <1>5
<1>7. p \in Seq(CallRecord)
  <2>1. p = [k \in 1..Len(q) |-> p[k]]
    BY <1>2, <1>3
  <2> QED BY <1>3, <1>6, <2>1
<1>8. Apart(q) /\ \A c \in ToSet(q) : Sound(c)
  BY <1>1 DEF Busy
<1>9. Apart(p)
  BY <1>3, <1>4, <1>6, <1>8 DEF Apart
<1>10. ASSUME NEW c \in ToSet(p) PROVE Sound(c)'
  <2>1. PICK k \in 1..Len(q) : c = p[k]
    BY <1>4 DEF ToSet
  <2>2. q[k] \in ToSet(q)
    BY <1>3 DEF ToSet
  <2>3. Sound(q[k])
    BY <1>8, <2>2
  <2> QED BY <1>6, <2>1, <2>3 DEF Sound
<1>11. Busy(w)'
  BY <1>1, <1>2, <1>7, <1>9, <1>10 DEF Busy
<1>12. q[1] \in ToSet(q)
  BY <1>3 DEF ToSet
<1>13. ASSUME q[1].do = "upsertCandles", NEW t, NEW s
       PROVE  (\E c \in ToSet(p) : Asks(c, t, s)) <=>
                /\ \E c \in ToSet(q) : Asks(c, t, s)
                /\ ~(s = r /\ t[1] = q[1].n /\ t[2] = q[1].i)
  <2>1. (\E c \in ToSet(p) : Asks(c, t, s)) <=> \E k \in 1..Len(q) : Asks(p[k], t, s)
    BY <1>4 DEF ToSet
  <2>2. (\E c \in ToSet(q) : Asks(c, t, s)) <=> \E k \in 1..Len(q) : Asks(q[k], t, s)
    BY <1>3 DEF ToSet
  <2>3. ASSUME NEW k \in 1..Len(q)
        PROVE  Asks(p[k], t, s) <=> /\ Asks(q[k], t, s)
                                    /\ ~(s = r /\ t[1] = q[1].n /\ t[2] = q[1].i)
    <3>1. CASE k = 1
      BY <1>5, <1>13, <3>1 DEF Asks
    <3>2. CASE k # 1
      <4>1. 1 \in 1..Len(q) /\ 1 < k
        BY <1>3, <3>2
      <4>2. q[k].do = "upsertCandles" => q[1].i # q[k].i \/ q[1].n # q[k].n
        BY <1>3, <1>8, <1>13, <4>1 DEF Apart
      <4> QED BY <1>4, <3>2, <4>2 DEF Asks
    <3> QED BY <3>1, <3>2
  <2> QED BY <2>1, <2>2, <2>3
<1> QED BY <1>1, <1>2, <1>3, <1>8, <1>11, <1>12, <1>13 DEF Next1

\* A worker that made the upsert of a trade at a resolution, or failed to, is
\* about to make all it was about to but that.
Upserts(w, t, r) ==
  \A u, s : w \in Askers(u, s)' <=> w \in Askers(u, s) /\ ~(s = r /\ u[1] = t[1] /\ u[2] = t[2])

\* An upsert is made, or fails: its worker is not about to make it any more.
LEMMA UpsertLess ==
  ASSUME DeliveryInv, NEW w \in Worker, Busy(w), At(w, "upsertCandles"),
         NEW r \in Next1(w).left, UNCHANGED <<now, blockTime, due>>,
         IF Next1(w).left = {r} THEN Done(w)
         ELSE work' = [work EXCEPT ![w].calls[1].left = @ \ {r}],
         NEW t, t = <<Next1(w).n, Next1(w).i>>
  PROVE  /\ OneWorks(w) /\ Busy(w)'
         /\ t \in Trade /\ t[1] \in Landed /\ r \in RESOLUTION_SECONDS
         /\ w \in Askers(t, r) /\ Upserts(w, t, r)
<1>1. Landed' = Landed /\ WorkTyped /\ work[w].calls # <<>> /\ Next1(w).do = "upsertCandles"
  BY DEF Landed, DeliveryInv, At
<1>2. OneWorks(w) /\ Busy(w)' /\ Upserts(w, t, r)
      /\ Next1(w) \in ToSet(work[w].calls) /\ Next1(w) \in CallRecord /\ Sound(Next1(w))
  <2>1. CASE Next1(w).left = {r}
    <3>1. work' = [work EXCEPT ![w].calls = Tail(@), ![w].prevTarget = "none"]
      BY <2>1 DEF Done
    <3>2. OneWorks(w) /\ work'[w].payload = work[w].payload /\ work'[w].calls = Tail(work[w].calls)
      BY <1>1, <3>1, Dropped
    <3>3. /\ Busy(w)'
          /\ Next1(w) \in ToSet(work[w].calls) /\ Next1(w) \in CallRecord /\ Sound(Next1(w))
          /\ \A c \in ToSet(Tail(work[w].calls)) :
               c.do = "upsertCandles" => c.n # Next1(w).n \/ c.i # Next1(w).i
      BY <1>1, <3>2, OneCallLess
    <3>4. PICK q \in Seq(CallRecord) : q = work[w].calls
      BY DEF Busy
    <3>5. /\ \A c \in ToSet(q) : c = Next1(w) \/ c \in ToSet(Tail(q))
          /\ \A c \in ToSet(Tail(q)) : c \in ToSet(q)
      BY <1>1, <3>4, HeadTail DEF Next1
    <3>6. ASSUME NEW u, NEW s
          PROVE  (\E c \in ToSet(Tail(q)) : Asks(c, u, s)) <=>
                   /\ \E c \in ToSet(q) : Asks(c, u, s)
                   /\ ~(s = r /\ u[1] = t[1] /\ u[2] = t[2])
      <4>1. t[1] = Next1(w).n /\ t[2] = Next1(w).i
        OBVIOUS
      <4>2. ASSUME NEW c \in ToSet(Tail(q)), Asks(c, u, s) PROVE ~(u[1] = t[1] /\ u[2] = t[2])
        BY <3>3, <3>4, <4>1, <4>2 DEF Asks
      <4>3. Asks(Next1(w), u, s) => s = r /\ u[1] = t[1] /\ u[2] = t[2]
        BY <2>1, <4>1 DEF Asks
      <4> QED BY <3>5, <4>2, <4>3
    <3>7. Upserts(w, t, r)
      BY <3>2, <3>4, <3>6 DEF Upserts, Askers
    <3> QED BY <3>2, <3>3, <3>7
  <2>2. CASE Next1(w).left # {r}
    <3>1. work' = [work EXCEPT ![w].calls[1].left = @ \ {r}]
      BY <2>2
    <3>2. OneWorks(w) /\ work'[w].payload = work[w].payload
          /\ work'[w].calls = [work[w].calls EXCEPT ![1].left = @ \ {r}]
      BY <1>1, <3>1, LessLeft
    <3>3. /\ Busy(w)'
          /\ Next1(w) \in ToSet(work[w].calls) /\ Next1(w) \in CallRecord /\ Sound(Next1(w))
          /\ \A u, s :
              (\E c \in ToSet(work'[w].calls) : Asks(c, u, s)) <=>
                /\ \E c \in ToSet(work[w].calls) : Asks(c, u, s)
                /\ ~(s = r /\ u[1] = Next1(w).n /\ u[2] = Next1(w).i)
      BY <1>1, <3>2, LessBusy
    <3>4. t[1] = Next1(w).n /\ t[2] = Next1(w).i
      OBVIOUS
    <3>5. Upserts(w, t, r)
      BY <3>3, <3>4 DEF Upserts, Askers
    <3> QED BY <3>2, <3>3, <3>5
  <2> QED BY <2>1, <2>2
<1>3. t \in Trade /\ t[1] \in Landed
  BY <1>1, <1>2 DEF Sound
<1>4. r \in RESOLUTION_SECONDS
  BY <1>2 DEF CallRecord
<1>5. w \in Askers(t, r)
  <2>1. Asks(Next1(w), t, r)
    BY <1>1 DEF Asks
  <2> QED BY <1>2, <2>1 DEF Askers
<1> QED BY <1>2, <1>3, <1>4, <1>5

\* A call other than an upsert is made and dropped: nobody is about to upsert more or less.
LEMMA OtherCall ==
  ASSUME DeliveryInv, NEW w \in Worker, \A v \in Worker : Busy(v), work[w].calls # <<>>,
         Next1(w).do # "upsertCandles", UNCHANGED <<now, blockTime, due>>, NEW target,
         work' = [work EXCEPT ![w].calls = Tail(@), ![w].prevTarget = target]
  PROVE  /\ \A v \in Worker : Busy(v)'
         /\ \A t, r : Askers(t, r)' = Askers(t, r)
         /\ Next1(w) \in CallRecord /\ Sound(Next1(w))
<1>1. Landed' = Landed /\ WorkTyped
  BY DEF Landed, DeliveryInv
<1>2. OneWorks(w) /\ work'[w].payload = work[w].payload /\ work'[w].calls = Tail(work[w].calls)
  BY <1>1, Dropped
<1>3. Busy(w)' /\ Next1(w) \in CallRecord /\ Sound(Next1(w))
  BY <1>1, <1>2, OneCallLess
<1>4. \A v \in Worker \ {w} : work'[v] = work[v]
  BY <1>2 DEF OneWorks
<1>5. \A v \in Worker : Busy(v)'
  BY <1>1, <1>3, <1>4, OneBusy
<1>6. PICK q \in Seq(CallRecord) : q = work[w].calls
  BY DEF Busy
<1>7. /\ \A c \in ToSet(q) : c = Next1(w) \/ c \in ToSet(Tail(q))
      /\ \A c \in ToSet(Tail(q)) : c \in ToSet(q)
  BY <1>6, HeadTail DEF Next1
<1>8. \A t, r : w \in Askers(t, r)' <=> w \in Askers(t, r)
  BY <1>2, <1>6, <1>7 DEF Askers, Asks
<1>9. ASSUME NEW t, NEW r PROVE Askers(t, r)' = Askers(t, r)
  <2>1. \A v \in Worker \ {w} : v \in Askers(t, r)' <=> v \in Askers(t, r)
    BY <1>4, OthersAsk
  <2>2. Askers(t, r) \subseteq Worker /\ Askers(t, r)' \subseteq Worker
    BY DEF Askers
  <2>3. PICK A, B : A = Askers(t, r) /\ B = Askers(t, r)'
    OBVIOUS
  <2>4. /\ A \subseteq Worker /\ B \subseteq Worker /\ (w \in B <=> w \in A)
        /\ \A v \in Worker \ {w} : v \in B <=> v \in A
    BY <1>8, <2>1, <2>2, <2>3
  <2>a. \A v : v \in A <=> v \in B
    BY <2>4
  <2>5. A = B
    BY <2>a
  <2> QED BY <2>3, <2>5
<1> QED BY <1>3, <1>5, <1>9

\* The tables without candles are left alone.
LEMMA RowsStay ==
  ASSUME Rows, Landed \subseteq Landed', UNCHANGED <<swap_events, epoch_events, carnage_events>>
  PROVE  Rows'
BY DEF Rows

\* A step that leaves the candles and what was taken up alone.
LEMMA QuietStep ==
  ASSUME CandlesInv, Clock', UNCHANGED <<blockTime, attempts, candles, counted>>,
         \A v \in Worker : Busy(v)', Rows',
         \A t, r : Askers(t, r)' \subseteq Askers(t, r),
         NoLoss' => NoLoss /\ \A t, r : Askers(t, r)' = Askers(t, r)
  PROVE  CandlesInv'
<1>1. Clock /\ Credits /\ \A key \in DOMAIN candles : Columns(key)
  BY DEF CandlesInv
<1>2. Keeps
  BY <1>1, FewerAsk
<1>3. Credits' /\ \A key \in DOMAIN candles' : Columns(key)'
  BY <1>1, <1>2, CandlesStay
<1> QED BY <1>3 DEF CandlesInv

\* Time passes.
LEMMA TickCandles == ASSUME DeliveryInv, CandlesInv, Tick PROVE CandlesInv'
<1>1. /\ now < MaxTime /\ now' = now + 1
      /\ UNCHANGED <<blockTime, due, work, swap_events, epoch_events, carnage_events, candles,
                     counted, attempts, resends, faults, stops, backfills>>
  BY DEF Tick, bounds, database
<1>2. MaxTime \in Nat
  BY IndexerAssumption
<1>3. Clock'
  BY <1>1, <1>2 DEF CandlesInv, Clock
<1>4. Landed' = Landed
  BY <1>1 DEF Landed
<1>5. \A v \in Worker : Busy(v)'
  BY <1>1, <1>4, StaysBusy DEF CandlesInv
<1>6. Rows'
  BY <1>1, <1>4, RowsStay DEF CandlesInv
<1>7. (\A t, r : Askers(t, r)' = Askers(t, r)) /\ (NoLoss' => NoLoss)
  BY <1>1 DEF Askers, NoLoss
<1> QED BY <1>1, <1>3, <1>5, <1>6, <1>7, QuietStep

\* The history is a list of landed transactions.
LEMMA StartBackfillCandles == ASSUME DeliveryInv, CandlesInv, StartBackfill PROVE CandlesInv'
<1> DEFINE place(k) == Len(blockTime) + 1 - k
           part(k) == IF Log[place(k)].failed THEN <<>> ELSE <<place(k)>>
           parts == [k \in Landed |-> part(k)]
<1>1. /\ work[Backfill] = Idle
      /\ work' = [work EXCEPT ![Backfill].payload = FlattenSeq(parts)]
      /\ backfills' = backfills + 1
      /\ UNCHANGED <<now, blockTime, due, swap_events, epoch_events, carnage_events, candles,
                     counted, attempts, resends, faults, stops>>
  BY DEF StartBackfill, database
<1>2. /\ Landed = 1..Len(blockTime) /\ Len(blockTime) \in Nat /\ Landed' = Landed
      /\ WorkTyped /\ ChainTyped
  BY <1>1, LandedTxs DEF DeliveryInv, Landed
<1>3. FlattenSeq(parts) \in Seq(Landed)
  <2>1. ASSUME NEW k \in Landed PROVE part(k) \in Seq(Landed)
    <3>1. place(k) \in Landed
      BY <1>2
    <3> HIDE DEF place
    <3>2. <<place(k)>> \in Seq(Landed) /\ <<>> \in Seq(Landed)
      BY <3>1
    <3> QED BY <3>2
  <2> HIDE DEF part
  <2>2. parts \in Seq(Seq(Landed))
    BY <1>2, <2>1
  <2>3. Gathers(Landed, parts, FlattenSeq(parts))
    <3> HIDE DEF parts
    <3> QED BY <2>2, FlattenGathers, Zenon
  <2> QED BY <2>3 DEF Gathers
<1> HIDE DEF parts
<1>4. /\ \A v \in Worker \ {Backfill} : work'[v] = work[v]
      /\ work'[Backfill].payload = FlattenSeq(parts) /\ work'[Backfill].calls = work[Backfill].calls
  <2>1. /\ \A v \in Worker \ {Backfill} : work'[v] = work[v]
        /\ work'[Backfill] = [work[Backfill] EXCEPT !.payload = FlattenSeq(parts)]
        /\ Shape(work[Backfill])
    BY <1>1, <1>2, Workers DEF WorkTyped
  <2> QED BY <2>1 DEF Shape
<1>5. \A v \in Worker : work'[v].calls = work[v].calls
  BY <1>4
<1>6. Busy(Backfill)'
  BY <1>2, <1>3, <1>4, Workers, SameCalls DEF CandlesInv
<1>7. \A v \in Worker : Busy(v)'
  BY <1>2, <1>4, <1>6, Workers, OneBusy DEF CandlesInv
<1>8. Clock'
  BY <1>1 DEF CandlesInv, Clock
<1>9. Rows'
  BY <1>1, <1>2, RowsStay DEF CandlesInv
<1>10. \A t, r : Askers(t, r)' = Askers(t, r)
  BY <1>5, SameAskers
<1>11. NoLoss' => NoLoss
  BY <1>1 DEF NoLoss
<1> QED BY <1>1, <1>7, <1>8, <1>9, <1>10, <1>11, QuietStep

\* A post is a list of landed transactions.
LEMMA PostCandles == ASSUME DeliveryInv, CandlesInv, NEW w \in Request, POST(w) PROVE CandlesInv'
<1>0. PICK batch \in SUBSET due : \E payload \in SetToSeqs(batch) :
        work' = [work EXCEPT ![w].payload = payload, ![w].batch = batch]
  BY DEF POST
<1>1. PICK payload \in SetToSeqs(batch) :
        work' = [work EXCEPT ![w].payload = payload, ![w].batch = batch]
  BY <1>0
<1>2. UNCHANGED <<now, blockTime, swap_events, epoch_events, carnage_events, candles,
                  counted, attempts, resends, faults, stops, backfills>>
  BY DEF POST, bounds, database
<1>3. /\ ChainTyped /\ WorkTyped /\ due \subseteq Landed /\ Landed' = Landed
      /\ IsFiniteSet(Landed) /\ w \in Worker
  BY <1>2, LandedTxs, Workers DEF DeliveryInv, ChainTyped, Landed
<1>4. payload \in Seq(Landed)
  <2>1. IsFiniteSet(batch)
    BY <1>3, FS_Subset
  <2>2. payload \in Seq(batch)
    BY <2>1, ListsAreComplete
  <2> QED BY <1>3, <2>2
<1>5. /\ \A v \in Worker \ {w} : work'[v] = work[v]
      /\ work'[w].payload = payload /\ work'[w].calls = work[w].calls
  <2>1. /\ \A v \in Worker \ {w} : work'[v] = work[v]
        /\ work'[w] = [work[w] EXCEPT !.payload = payload, !.batch = batch]
        /\ Shape(work[w])
    BY <1>1, <1>3 DEF WorkTyped
  <2> QED BY <2>1 DEF Shape
<1>6. Busy(w)'
  BY <1>3, <1>4, <1>5, SameCalls DEF CandlesInv
<1>7. \A v \in Worker : Busy(v)'
  BY <1>3, <1>5, <1>6, OneBusy DEF CandlesInv
<1>8. Clock'
  BY <1>2 DEF CandlesInv, Clock
<1>9. Rows'
  BY <1>2, <1>3, RowsStay DEF CandlesInv
<1>10. \A t, r : Askers(t, r)' = Askers(t, r)
  BY <1>5, SameAskers
<1>11. NoLoss' => NoLoss
  BY <1>2 DEF NoLoss
<1> QED BY <1>2, <1>7, <1>8, <1>9, <1>10, <1>11, QuietStep

\* Helius gives up on a post, which the request does not notice.
LEMMA ResendCandles == ASSUME DeliveryInv, CandlesInv, NEW w \in Request, Resend(w) PROVE CandlesInv'
<1>1. /\ work' = [work EXCEPT ![w].batch = {}] /\ resends' = resends + 1
      /\ UNCHANGED <<now, blockTime, swap_events, epoch_events, carnage_events, candles,
                     counted, attempts, faults, stops, backfills>>
  BY DEF Resend, database
<1>2. WorkTyped /\ Landed' = Landed /\ w \in Worker
  BY <1>1, Workers DEF DeliveryInv, Landed
<1>3. /\ \A v \in Worker \ {w} : work'[v] = work[v]
      /\ work'[w].payload = work[w].payload /\ work'[w].calls = work[w].calls
  <2>1. /\ \A v \in Worker \ {w} : work'[v] = work[v]
        /\ work'[w] = [work[w] EXCEPT !.batch = {}]
        /\ Shape(work[w])
    BY <1>1, <1>2 DEF WorkTyped
  <2> QED BY <2>1 DEF Shape
<1>4. Busy(w)'
  <2>1. work[w].payload \in Seq(Landed')
    BY <1>2 DEF CandlesInv, Busy
  <2> QED BY <1>2, <1>3, <2>1, SameCalls DEF CandlesInv
<1>5. \A v \in Worker : Busy(v)'
  BY <1>2, <1>3, <1>4, OneBusy DEF CandlesInv
<1>6. Clock'
  BY <1>1 DEF CandlesInv, Clock
<1>7. Rows'
  BY <1>1, <1>2, RowsStay DEF CandlesInv
<1>8. \A t, r : Askers(t, r)' = Askers(t, r)
  BY <1>3, SameAskers
<1>9. NoLoss' => NoLoss
  BY <1>1 DEF NoLoss
<1> QED BY <1>1, <1>5, <1>6, <1>7, <1>8, <1>9, QuietStep

\* What dies loses what it had to do.
LEMMA StopCandles ==
  ASSUME DeliveryInv, CandlesInv, NEW killed \in SUBSET Worker, Stop(killed)
  PROVE  CandlesInv'
<1>1. /\ work' = [w \in Worker |-> IF w \in killed THEN Idle ELSE work[w]]
      /\ stops' = stops + 1
      /\ UNCHANGED <<now, blockTime, swap_events, epoch_events, carnage_events, candles,
                     counted, attempts, resends, faults, backfills>>
  BY DEF Stop, database
<1>2. Landed' = Landed /\ stops \in Nat
  BY <1>1 DEF Landed, CandlesInv, Clock
<1>3. Idle.payload = <<>> /\ Idle.calls = <<>> /\ <<>> \in Seq(Landed')
  BY DEF Idle
<1>4. ASSUME NEW v \in Worker PROVE Busy(v)'
  <2>1. CASE v \in killed
    <3>1. work'[v] = Idle
      BY <1>1, <2>1
    <3> QED BY <1>3, <3>1, NoCalls
  <2>2. CASE v \notin killed
    <3>1. work'[v] = work[v]
      BY <1>1, <2>2
    <3> QED BY <1>2, <3>1, StaysBusy DEF CandlesInv
  <2> QED BY <2>1, <2>2
<1>5. \A t, r : Askers(t, r)' \subseteq Askers(t, r)
  <2>1. \A v \in Worker : work'[v].calls = work[v].calls \/ work'[v].calls = <<>>
    BY <1>1, <1>3
  <2> QED BY <2>1, FewerAskers
<1>6. Clock'
  BY <1>1 DEF CandlesInv, Clock
<1>7. Rows'
  BY <1>1, <1>2, RowsStay DEF CandlesInv
<1>8. ~NoLoss'
  BY <1>1, <1>2 DEF NoLoss
<1> QED BY <1>1, <1>4, <1>5, <1>6, <1>7, <1>8, QuietStep

\* A request is over.
LEMMA AnswerCandles == ASSUME DeliveryInv, CandlesInv, NEW w \in Worker, Answer(w) PROVE CandlesInv'
<1>1. /\ work[w].calls = <<>> /\ work' = [work EXCEPT ![w] = Idle]
      /\ UNCHANGED <<now, blockTime, swap_events, epoch_events, carnage_events, candles,
                     counted, attempts, resends, faults, stops, backfills>>
  BY DEF Answer, bounds, database
<1>2. WorkTyped /\ Landed' = Landed
  BY <1>1 DEF DeliveryInv, Landed
<1>3. Idle.payload = <<>> /\ Idle.calls = <<>> /\ <<>> \in Seq(Landed')
  BY DEF Idle
<1>4. work'[w] = Idle /\ \A v \in Worker \ {w} : work'[v] = work[v]
  BY <1>1, <1>2 DEF WorkTyped
<1>5. Busy(w)'
  BY <1>3, <1>4, NoCalls
<1>6. \A v \in Worker : Busy(v)'
  BY <1>2, <1>4, <1>5, OneBusy DEF CandlesInv
<1>7. Clock'
  BY <1>1 DEF CandlesInv, Clock
<1>8. Rows'
  BY <1>1, <1>2, RowsStay DEF CandlesInv
<1>9. \A t, r : Askers(t, r)' = Askers(t, r)
  <2>1. \A v \in Worker : work'[v].calls = work[v].calls
    BY <1>1, <1>3, <1>4
  <2> QED BY <2>1, SameAskers
<1>10. NoLoss' => NoLoss
  BY <1>1 DEF NoLoss
<1> QED BY <1>1, <1>6, <1>7, <1>8, <1>9, <1>10, QuietStep

\* A call fails: an upsert, or all that was to come.
LEMMA FailCandles == ASSUME DeliveryInv, CandlesInv, NEW w \in Worker, Fail(w) PROVE CandlesInv'
<1>1. /\ faults' = faults + 1 /\ work[w].calls # <<>>
      /\ UNCHANGED <<now, blockTime, due, swap_events, epoch_events, carnage_events, candles,
                     counted, attempts, resends, stops, backfills>>
  BY DEF Fail, database
<1>2. WorkTyped /\ Landed' = Landed /\ faults \in Nat /\ Busy(w)
  BY <1>1 DEF DeliveryInv, Landed, CandlesInv, Clock
<1>3. /\ \A v \in Worker \ {w} : work'[v] = work[v]
      /\ Busy(w)'
      /\ \A t, r : w \in Askers(t, r)' => w \in Askers(t, r)
  <2>1. CASE At(w, "upsertCandles") /\ w # Backfill
    <3>1. PICK r \in Next1(w).left :
            IF Next1(w).left = {r} THEN Done(w)
            ELSE work' = [work EXCEPT ![w].calls[1].left = @ \ {r}]
      BY <2>1 DEF Fail
    <3>2. PICK t : t = <<Next1(w).n, Next1(w).i>>
      OBVIOUS
    <3>3. OneWorks(w) /\ Busy(w)' /\ Upserts(w, t, r)
      BY <1>1, <1>2, <2>1, <3>1, <3>2, UpsertLess
    <3> QED BY <3>3 DEF OneWorks, Upserts
  <2>2. CASE ~(At(w, "upsertCandles") /\ w # Backfill)
    <3>1. work' = [work EXCEPT ![w].calls = <<>>, ![w].prevTarget = "none"]
      BY <2>2 DEF Fail
    <3>2. /\ \A v \in Worker \ {w} : work'[v] = work[v]
          /\ work'[w] = [work[w] EXCEPT !.calls = <<>>, !.prevTarget = "none"]
          /\ Shape(work[w])
      BY <1>2, <3>1 DEF WorkTyped
    <3>3. work'[w].payload = work[w].payload /\ work'[w].calls = <<>>
      BY <3>2 DEF Shape
    <3>4. Busy(w)'
      BY <1>2, <3>3, NoCalls DEF Busy
    <3>5. ToSet(<<>>) = {}
      BY DEF ToSet
    <3>6. \A t, r : w \notin Askers(t, r)'
      BY <3>3, <3>5 DEF Askers
    <3> QED BY <3>2, <3>4, <3>6
  <2> QED BY <2>1, <2>2
<1>4. \A v \in Worker : Busy(v)'
  BY <1>2, <1>3, OneBusy DEF CandlesInv
<1>5. ASSUME NEW t, NEW r PROVE Askers(t, r)' \subseteq Askers(t, r)
  <2>1. \A v \in Worker \ {w} : v \in Askers(t, r)' <=> v \in Askers(t, r)
    BY <1>3, OthersAsk
  <2>2. Askers(t, r)' \subseteq Worker
    BY DEF Askers
  <2>3. PICK A, B : A = Askers(t, r) /\ B = Askers(t, r)'
    OBVIOUS
  <2>4. B \subseteq Worker /\ (w \in B => w \in A) /\ \A v \in Worker \ {w} : v \in B <=> v \in A
    BY <1>3, <2>1, <2>2, <2>3
  <2>5. B \subseteq A
    BY <2>4
  <2> QED BY <2>3, <2>5
<1>6. Clock'
  BY <1>1 DEF CandlesInv, Clock
<1>7. Rows'
  BY <1>1, <1>2, RowsStay DEF CandlesInv
<1>8. ~NoLoss'
  BY <1>1, <1>2 DEF NoLoss
<1> QED BY <1>1, <1>4, <1>5, <1>6, <1>7, <1>8, QuietStep

\* A row of a table written to is the one written or was there.
LEMMA InsertedIs ==
  ASSUME NEW table, NEW key, NEW row
  PROVE  \A k \in DOMAIN Inserted(table, key, row) :
           \/ k = key /\ Inserted(table, key, row)[k] = row
           \/ k \in DOMAIN table /\ Inserted(table, key, row)[k] = table[k]
BY DEF Inserted, With

\* The row of a trade is of a landed transaction.
LEMMA SwapCandles ==
  ASSUME DeliveryInv, CandlesInv, NEW w \in Worker, storeTaxedSwap(w) PROVE CandlesInv'
<1>1. PICK c : c = Next1(w)
  OBVIOUS
<1>2. /\ swap_events' = Inserted(swap_events, c.n, c.i)
      /\ work[w].calls # <<>> /\ c.do = "storeTaxedSwap"
      /\ work' = [work EXCEPT ![w].calls = Tail(@), ![w].prevTarget = "none"]
      /\ UNCHANGED <<now, blockTime, due, epoch_events, carnage_events, candles,
                     counted, attempts, resends, faults, stops, backfills>>
  BY <1>1 DEF storeTaxedSwap, bounds, At, Done
<1>3. (\A v \in Worker : Busy(v)') /\ (\A t, r : Askers(t, r)' = Askers(t, r)) /\ Sound(c)
  <2>1. Next1(w).do # "upsertCandles"
    BY <1>1, <1>2
  <2>2. /\ \A v \in Worker : Busy(v)'
        /\ \A t, r : Askers(t, r)' = Askers(t, r)
        /\ Sound(Next1(w))
    BY <1>2, <2>1, OtherCall DEF CandlesInv
  <2> QED BY <1>1, <2>2
<1>4. Landed' = Landed /\ Clock' /\ (NoLoss' => NoLoss)
  BY <1>2 DEF CandlesInv, Clock, Landed, NoLoss
<1>5. Rows'
  <2>1. c.n \in Landed /\ c.i \in DOMAIN Trades(c.n)
    BY <1>2, <1>3 DEF Sound
  <2>2. ASSUME NEW n \in DOMAIN swap_events' PROVE n \in Landed' /\ swap_events'[n] \in DOMAIN Trades(n)
    <3>1. \/ n = c.n /\ swap_events'[n] = c.i
          \/ n \in DOMAIN swap_events /\ swap_events'[n] = swap_events[n]
      BY <1>2, <2>2, InsertedIs
    <3> QED BY <1>4, <2>1, <3>1 DEF CandlesInv, Rows
  <2> QED BY <1>2, <1>4, <2>2 DEF CandlesInv, Rows
<1> QED BY <1>2, <1>3, <1>4, <1>5, QuietStep

\* So is the row of an epoch.
LEMMA EpochCandles ==
  ASSUME DeliveryInv, CandlesInv, NEW w \in Worker, storeEpochEvents(w) PROVE CandlesInv'
<1>1. PICK c : c = Next1(w)
  OBVIOUS
<1>2. PICK key : epoch_events' = Inserted(epoch_events, key, EpochRow(c.n))
  BY <1>1 DEF storeEpochEvents
<1>3. /\ work[w].calls # <<>> /\ c.do = "storeEpochEvents"
      /\ work' = [work EXCEPT ![w].calls = Tail(@), ![w].prevTarget = "none"]
      /\ UNCHANGED <<now, blockTime, due, swap_events, carnage_events, candles,
                     counted, attempts, resends, faults, stops, backfills>>
  BY <1>1 DEF storeEpochEvents, bounds, At, Done
<1>4. (\A v \in Worker : Busy(v)') /\ (\A t, r : Askers(t, r)' = Askers(t, r)) /\ Sound(c)
  <2>1. Next1(w).do # "upsertCandles"
    BY <1>1, <1>3
  <2>2. /\ \A v \in Worker : Busy(v)'
        /\ \A t, r : Askers(t, r)' = Askers(t, r)
        /\ Sound(Next1(w))
    BY <1>3, <2>1, OtherCall DEF CandlesInv
  <2> QED BY <1>1, <2>2
<1>5. Landed' = Landed /\ Clock' /\ (NoLoss' => NoLoss)
  BY <1>3 DEF CandlesInv, Clock, Landed, NoLoss
<1>6. Rows'
  <2>1. c.n \in Landed /\ EpochRow(c.n).tx = c.n
    BY <1>4 DEF Sound, EpochRow
  <2>2. ASSUME NEW e \in DOMAIN epoch_events' PROVE epoch_events'[e].tx \in Landed'
    <3>1. \/ epoch_events'[e] = EpochRow(c.n)
          \/ e \in DOMAIN epoch_events /\ epoch_events'[e] = epoch_events[e]
      BY <1>2, <2>2, InsertedIs
    <3> QED BY <1>5, <2>1, <3>1 DEF CandlesInv, Rows
  <2> QED BY <1>3, <1>5, <2>2 DEF CandlesInv, Rows
<1> QED BY <1>3, <1>4, <1>5, <1>6, QuietStep

\* So is the row of a Carnage.
LEMMA CarnageCandles ==
  ASSUME DeliveryInv, CandlesInv, NEW w \in Worker, storeCarnageEvent(w) PROVE CandlesInv'
<1>1. PICK c : c = Next1(w)
  OBVIOUS
<1>2. PICK key, target, burned :
        carnage_events' = Inserted(carnage_events, key,
                                   [tx |-> c.n, target |-> target, burned |-> burned])
  BY <1>1 DEF storeCarnageEvent
<1>3. /\ work[w].calls # <<>> /\ c.do = "storeCarnageEvent"
      /\ work' = [work EXCEPT ![w].calls = Tail(@), ![w].prevTarget = "none"]
      /\ UNCHANGED <<now, blockTime, due, swap_events, epoch_events, candles,
                     counted, attempts, resends, faults, stops, backfills>>
  BY <1>1 DEF storeCarnageEvent, bounds, At, Done
<1>4. (\A v \in Worker : Busy(v)') /\ (\A t, r : Askers(t, r)' = Askers(t, r)) /\ Sound(c)
  <2>1. Next1(w).do # "upsertCandles"
    BY <1>1, <1>3
  <2>2. /\ \A v \in Worker : Busy(v)'
        /\ \A t, r : Askers(t, r)' = Askers(t, r)
        /\ Sound(Next1(w))
    BY <1>3, <2>1, OtherCall DEF CandlesInv
  <2> QED BY <1>1, <2>2
<1>5. Landed' = Landed /\ Clock' /\ (NoLoss' => NoLoss)
  BY <1>3 DEF CandlesInv, Clock, Landed, NoLoss
<1>6. Rows'
  <2>1. c.n \in Landed
    BY <1>4 DEF Sound
  <2>2. ASSUME NEW e \in DOMAIN carnage_events' PROVE carnage_events'[e].tx \in Landed'
    <3>1. \/ carnage_events'[e] = [tx |-> c.n, target |-> target, burned |-> burned]
          \/ e \in DOMAIN carnage_events /\ carnage_events'[e] = carnage_events[e]
      BY <1>2, <2>2, InsertedIs
    <3> QED BY <1>5, <2>1, <3>1 DEF CandlesInv, Rows
  <2> QED BY <1>3, <1>5, <2>2 DEF CandlesInv, Rows
<1> QED BY <1>3, <1>4, <1>5, <1>6, QuietStep

\* The look-up before it changes no row.
LEMMA QueryCandles ==
  ASSUME DeliveryInv, CandlesInv, NEW w \in Worker, queryHeld(w) PROVE CandlesInv'
<1>1. PICK target : work' = [work EXCEPT ![w].calls = Tail(@), ![w].prevTarget = target]
  BY DEF queryHeld
<1>2. /\ work[w].calls # <<>> /\ Next1(w).do # "upsertCandles"
      /\ UNCHANGED <<now, blockTime, due, swap_events, epoch_events, carnage_events, candles,
                     counted, attempts, resends, faults, stops, backfills>>
  BY DEF queryHeld, bounds, database, At
<1>3. (\A v \in Worker : Busy(v)') /\ (\A t, r : Askers(t, r)' = Askers(t, r))
  BY <1>1, <1>2, OtherCall DEF CandlesInv
<1>4. Landed' = Landed /\ Clock' /\ (NoLoss' => NoLoss)
  BY <1>2 DEF CandlesInv, Clock, Landed, NoLoss
<1>5. Rows'
  BY <1>2, <1>4, RowsStay DEF CandlesInv
<1> QED BY <1>2, <1>3, <1>4, <1>5, QuietStep

\* A transaction that is taken up is one attempt more at each of its trades, and
\* one worker more that is about to upsert it at every resolution.
LEMMA TakeUpCandles ==
  ASSUME DeliveryInv, CandlesInv, NEW w \in Worker, TakeUp(w) PROVE CandlesInv'
<1> DEFINE n == Head(work[w].payload)
           skip == Log[n].failed \/ (w # Backfill /\ Stale(n))
           calls == IF skip THEN <<>> ELSE Calls(w, n)
<1>1. /\ work[w].calls = <<>> /\ work[w].payload # <<>>
      /\ work' = [work EXCEPT ![w].payload = Tail(@), ![w].calls = calls]
      /\ attempts' = IF skip THEN attempts ELSE [attempts EXCEPT ![n] = @ + 1]
      /\ UNCHANGED <<now, blockTime, due, swap_events, epoch_events, carnage_events, candles,
                     counted, resends, faults, stops, backfills>>
  BY DEF TakeUp, bounds, database
<1>2. /\ WorkTyped /\ ChainTyped /\ Landed' = Landed /\ Busy(w) /\ Clock /\ Credits
      /\ Landed \subseteq DOMAIN Log /\ Landed = 1..Len(blockTime) /\ Len(blockTime) \in Nat
  BY <1>1, LandedTxs DEF DeliveryInv, CandlesInv, Landed
<1>3. n \in Landed /\ Tail(work[w].payload) \in Seq(Landed)
  BY <1>1, <1>2, HeadTail, Zenon DEF Busy
<1> HIDE DEF calls
<1>4. /\ \A v \in Worker \ {w} : work'[v] = work[v]
      /\ work'[w].payload = Tail(work[w].payload) /\ work'[w].calls = calls
  <2>1. /\ \A v \in Worker \ {w} : work'[v] = work[v]
        /\ work'[w] = [work[w] EXCEPT !.payload = Tail(@), !.calls = calls]
    BY <1>1, <1>2 DEF WorkTyped
  <2>2. Shape(work[w])
    BY <1>2 DEF WorkTyped
  <2>3. work'[w] = [payload |-> Tail(work[w].payload), batch |-> work[w].batch,
                    calls |-> calls, prevTarget |-> work[w].prevTarget]
    BY <2>1, <2>2 DEF Shape
  <2> QED BY <2>1, <2>3
<1> HIDE DEF n, skip
<1>5. ToSet(<<>>) = {}
  BY DEF ToSet
<1>6. \A t, r : w \notin Askers(t, r)
  BY <1>1, <1>5 DEF Askers
<1>7. ASSUME ~skip
      PROVE  /\ Busy(w)'
             /\ \A t \in Trade, r \in RESOLUTION_SECONDS : w \in Askers(t, r)' <=> t[1] = n
  <2>1. calls = Calls(w, n) /\ n \in DOMAIN Log /\ ~Log[n].failed
    BY <1>2, <1>3, <1>7 DEF calls, skip
  <2>2. /\ calls \in Seq(CallRecord)
        /\ \A c \in ToSet(calls) :
             /\ c.n = n /\ c.left = RESOLUTION_SECONDS
             /\ c.do \in {"storeTaxedSwap", "upsertCandles"} => c.i \in DOMAIN Trades(n)
             /\ c.do = "upsertCandles" => <<n, c.i>> \in Trade
        /\ \A t \in Trade : t[1] = n => Call("upsertCandles", n, t[2]) \in ToSet(calls)
        /\ Apart(calls)
    BY <2>1, CallsOf, Zenon
  <2>3. \A c \in ToSet(calls) : Sound(c)'
    BY <1>2, <1>3, <2>2 DEF Sound
  <2>4. Busy(w)'
    BY <1>2, <1>3, <1>4, <2>2, <2>3 DEF Busy
  <2>5. ASSUME NEW t \in Trade, NEW r \in RESOLUTION_SECONDS
        PROVE  w \in Askers(t, r)' <=> t[1] = n
    <3>1. ASSUME t[1] = n PROVE w \in Askers(t, r)'
      <4>1. Asks(Call("upsertCandles", n, t[2]), t, r)
        BY <3>1 DEF Asks, Call
      <4> QED BY <1>4, <2>2, <3>1, <4>1 DEF Askers
    <3>2. ASSUME w \in Askers(t, r)' PROVE t[1] = n
      BY <1>4, <2>2, <3>2 DEF Askers, Asks
    <3> QED BY <3>1, <3>2
  <2> QED BY <2>4, <2>5
<1>8. ASSUME skip
      PROVE  Busy(w)' /\ \A t, r : Askers(t, r)' = Askers(t, r)
  <2>1. calls = <<>>
    BY <1>8 DEF calls
  <2>2. Busy(w)'
    BY <1>2, <1>3, <1>4, <2>1, NoCalls
  <2>3. \A v \in Worker : work'[v].calls = work[v].calls
    BY <1>1, <1>4, <2>1
  <2> QED BY <2>2, <2>3, SameAskers
<1>9. \A v \in Worker : Busy(v)'
  <2>1. Busy(w)'
    BY <1>7, <1>8
  <2> QED BY <1>2, <1>4, <2>1, OneBusy DEF CandlesInv
<1>10. attempts \in Seq(Nat) /\ Len(attempts) = Len(blockTime) /\ attempts[n] \in Nat
  BY <1>2, <1>3 DEF Clock
<1>11. Clock'
  <2>1. attempts' \in Seq(Nat) /\ Len(attempts') = Len(attempts)
    <3>1. CASE skip
      BY <1>1, <1>10, <3>1
    <3>2. CASE ~skip
      <4>1. PICK a \in Seq(Nat) : a = attempts
        BY <1>10
      <4>2. PICK m \in 1..Len(a) : m = n
        BY <1>2, <1>3, <1>10, <4>1
      <4>3. attempts' = [a EXCEPT ![m] = @ + 1]
        BY <1>1, <3>2, <4>1, <4>2
      <4>4. [a EXCEPT ![m] = @ + 1] \in Seq(Nat) /\ Len([a EXCEPT ![m] = @ + 1]) = Len(a)
        OBVIOUS
      <4> QED BY <4>1, <4>3, <4>4
    <3> QED BY <3>1, <3>2
  <2> QED BY <1>1, <1>2, <2>1 DEF Clock
<1>12. Keeps
  <2>1. CASE skip
    <3>1. attempts' = attempts
      BY <1>1, <2>1
    <3> QED BY <1>2, <1>8, <2>1, <3>1, FewerAsk
  <2>2. CASE ~skip
    <3> SUFFICES ASSUME NEW t \in Trade, NEW r \in RESOLUTION_SECONDS, t[1] \in Landed
                 PROVE  Credit(t, r)' = Credit(t, r)
      <4>1. \A t \in Trade, r \in RESOLUTION_SECONDS : t[1] \in Landed => Credit(t, r) \in Nat
        BY <1>2 DEF Credits
      <4> QED BY <4>1 DEF Keeps
    <3>1. PICK A, B : A = Askers(t, r) /\ B = Askers(t, r)'
      OBVIOUS
    <3>2. /\ A \in SUBSET Worker /\ B \in SUBSET Worker /\ w \notin A
          /\ \A v \in Worker \ {w} : v \in B <=> v \in A
          /\ w \in B <=> t[1] = n
      <4>1. \A v \in Worker \ {w} : v \in Askers(t, r)' <=> v \in Askers(t, r)
        BY <1>4, OthersAsk
      <4>2. Askers(t, r) \in SUBSET Worker /\ Askers(t, r)' \in SUBSET Worker
        BY DEF Askers
      <4> QED BY <1>6, <1>7, <2>2, <3>1, <4>1, <4>2
    <3>3. IsFiniteSet(A) /\ Cardinality(A) \in Nat
      BY <3>2, AskersFinite
    <3>4. Credit(t, r) = attempts[t[1]] - Cardinality(A)
          /\ Credit(t, r)' = attempts'[t[1]] - Cardinality(B)
      BY <3>1 DEF Credit
    <3>5. attempts' = [attempts EXCEPT ![n] = @ + 1] /\ DOMAIN attempts = Landed
          /\ attempts[t[1]] \in Nat
      BY <1>1, <1>2, <1>10, <2>2
    <3>6. CASE t[1] = n
      <4>1. \A v : v \in B <=> v \in A \union {w}
        BY <3>2, <3>6
      <4>2. B = A \union {w}
        BY <4>1
      <4>3. Cardinality(B) = Cardinality(A) + 1
        BY <3>2, <3>3, <4>2, FS_AddElement
      <4>4. attempts'[t[1]] = attempts[t[1]] + 1
        BY <3>5, <3>6
      <4> QED BY <3>3, <3>4, <3>5, <4>3, <4>4
    <3>7. CASE t[1] # n
      <4>1. \A v : v \in B <=> v \in A
        BY <3>2, <3>7
      <4>2. B = A
        BY <4>1
      <4>3. attempts'[t[1]] = attempts[t[1]]
        BY <3>5, <3>7
      <4> QED BY <3>4, <4>2, <4>3
    <3> QED BY <3>6, <3>7
  <2> QED BY <2>1, <2>2
<1>13. Credits' /\ \A key \in DOMAIN candles' : Columns(key)'
  <2>1. NoLoss' => NoLoss
    BY <1>1 DEF NoLoss
  <2> QED BY <1>1, <1>12, <2>1, CandlesStay DEF CandlesInv
<1>14. Rows'
  BY <1>1, <1>2, RowsStay DEF CandlesInv
<1> QED BY <1>9, <1>11, <1>13, <1>14 DEF CandlesInv

\* Nobody took the new transaction up: its trades have no credit.
LEMMA LandCandles == ASSUME DeliveryInv, CandlesInv, Land PROVE CandlesInv'
<1> DEFINE new == Len(blockTime) + 1
<1>1. /\ blockTime' = Append(blockTime, now) /\ attempts' = Append(attempts, 0)
      /\ UNCHANGED <<now, work, swap_events, epoch_events, carnage_events, candles,
                     counted, resends, faults, stops, backfills>>
  BY DEF Land, bounds, database
<1>2. /\ blockTime \in Seq(0..MaxTime) /\ attempts \in Seq(Nat) /\ now \in 0..MaxTime
      /\ Len(attempts) = Len(blockTime) /\ Len(blockTime) \in Nat
      /\ Credits /\ Rows
  <2>1. blockTime \in Seq(0..MaxTime) /\ attempts \in Seq(Nat) /\ now \in 0..MaxTime
        /\ Len(attempts) = Len(blockTime) /\ Credits /\ Rows
    BY DEF CandlesInv, Clock
  <2>2. Len(blockTime) \in Nat
    BY <2>1
  <2> QED BY <2>1, <2>2
<1>3. /\ blockTime' \in Seq(0..MaxTime) /\ Len(blockTime') = new
      /\ \A n \in 1..Len(blockTime) : blockTime'[n] = blockTime[n]
  BY <1>1, <1>2
<1>4. /\ attempts' \in Seq(Nat) /\ Len(attempts') = new /\ attempts'[new] = 0
      /\ \A n \in 1..Len(blockTime) : attempts'[n] = attempts[n]
  BY <1>1, <1>2
<1>5. Landed' = Landed \union {new} /\ new \notin Landed
  BY <1>2, <1>3 DEF Landed
<1>6. Clock'
  BY <1>1, <1>3, <1>4 DEF CandlesInv, Clock
<1>7. \A v \in Worker : Busy(v)'
  BY <1>1, <1>5, StaysBusy DEF CandlesInv
<1>8. Rows'
  BY <1>1, <1>2, <1>5, RowsStay
<1>9. \A t, r : t[1] \in Landed => Period(t, r)' = Period(t, r) /\ Credit(t, r)' = Credit(t, r)
  <2>1. \A t, r : Askers(t, r)' = Askers(t, r)
    BY <1>1 DEF Askers
  <2> QED BY <1>3, <1>4, <2>1 DEF Landed, Period, Credit
<1>10. ASSUME NEW t, NEW r, t[1] = new PROVE Credit(t, r)' = 0
  <2>1. ASSUME NEW v \in Worker PROVE v \notin Askers(t, r)'
    <3>1. \A c \in ToSet(work[v].calls) : c.n # new
      BY <1>5 DEF CandlesInv, Busy, Sound
    <3> QED BY <1>1, <1>10, <3>1 DEF Askers, Asks
  <2>2. Askers(t, r)' = {}
    BY <2>1 DEF Askers
  <2> QED BY <1>4, <1>10, <2>2, FS_EmptySet DEF Credit
<1>11. \A x \in counted : \E t \in Trade, r \in RESOLUTION_SECONDS :
         /\ x = <<t[1], t[2], r>> /\ t[1] \in Landed
         /\ Period(t, r) \in DOMAIN candles /\ Credit(t, r) > 0
  BY <1>2 DEF Credits
<1>12. Credits'
  <2>1. ASSUME NEW t \in Trade, NEW r \in RESOLUTION_SECONDS, t[1] \in Landed'
        PROVE  Credit(t, r)' \in Nat
    BY <1>2, <1>5, <1>9, <1>10, <2>1 DEF Credits
  <2>2. ASSUME NEW x \in counted'
        PROVE  \E t \in Trade, r \in RESOLUTION_SECONDS :
                 /\ x = <<t[1], t[2], r>> /\ t[1] \in Landed'
                 /\ Period(t, r)' \in DOMAIN candles' /\ Credit(t, r)' > 0
    <3>1. PICK t \in Trade, r \in RESOLUTION_SECONDS :
            /\ x = <<t[1], t[2], r>> /\ t[1] \in Landed
            /\ Period(t, r) \in DOMAIN candles /\ Credit(t, r) > 0
      BY <1>1, <1>11, <2>2
    <3>2. /\ x = <<t[1], t[2], r>> /\ t[1] \in Landed'
          /\ Period(t, r)' \in DOMAIN candles' /\ Credit(t, r)' > 0
      BY <1>1, <1>5, <1>9, <3>1
    <3> QED BY <3>2
  <2>3. ASSUME NoLoss', NEW t \in Trade, NEW r \in RESOLUTION_SECONDS, t[1] \in Landed',
               Credit(t, r)' > 0
        PROVE  <<t[1], t[2], r>> \in counted'
    <3>1. CASE t[1] = new
      <4>1. Credit(t, r)' = 0
        BY <1>10, <3>1
      <4> QED BY <2>3, <4>1
    <3>2. CASE t[1] # new
      BY <1>1, <1>2, <1>5, <1>9, <2>3, <3>2 DEF Credits, NoLoss
    <3> QED BY <3>1, <3>2
  <2> QED BY <2>1, <2>2, <2>3 DEF Credits
<1>13. ASSUME NEW key \in DOMAIN candles' PROVE Columns(key)'
  <2>1. key \in DOMAIN candles /\ Columns(key) /\ candles' = candles
    BY <1>1, <1>13 DEF CandlesInv
  <2>2. PICK t \in Trade, r \in RESOLUTION_SECONDS : t[1] \in Landed /\ key = Period(t, r)
    BY <2>1 DEF Columns
  <2>3. t[1] \in Landed' /\ key = Period(t, r)'
    BY <1>5, <1>9, <2>2
  <2>4. Seen(key)' = Seen(key)
    <3>1. ASSUME NEW u \in Trade, <<u[1], u[2], key[2]>> \in counted PROVE u[1] \in Landed
      <4>1. PICK x \in Trade, s \in RESOLUTION_SECONDS :
              <<u[1], u[2], key[2]>> = <<x[1], x[2], s>> /\ x[1] \in Landed
        BY <1>11, <3>1
      <4> QED BY <4>1
    <3> QED BY <1>1, <1>9, <3>1 DEF Seen
  <2>5. Share(key)' = Share(key)
    BY <1>5, <1>9, <1>10 DEF Share
  <2>6. Weight(key)' = Weight(key)
    BY <2>5 DEF Weight
  <2>7. NoLoss' => NoLoss
    BY <1>1 DEF NoLoss
  <2>8. \E u \in Trade, s \in RESOLUTION_SECONDS : u[1] \in Landed' /\ key = Period(u, s)'
    BY <2>3
  <2> QED BY <2>1, <2>4, <2>5, <2>6, <2>7, <2>8 DEF Columns, RowOK, PricesIn
<1> QED BY <1>6, <1>7, <1>8, <1>12, <1>13 DEF CandlesInv

\* An upsert made is one credit more of its trade at its resolution, and no other.
LEMMA OneCreditMore ==
  ASSUME Clock, UNCHANGED <<attempts, blockTime>>, NEW w \in Worker, OneWorks(w),
         NEW t \in Trade, NEW r \in RESOLUTION_SECONDS, t[1] \in Landed,
         w \in Askers(t, r), Upserts(w, t, r)
  PROVE  /\ Credit(t, r)' = Credit(t, r) + 1
         /\ \A u \in Trade, s \in RESOLUTION_SECONDS :
              u # t \/ s # r => Credit(u, s)' = Credit(u, s)
<1>1. \A v \in Worker \ {w} : work'[v] = work[v]
  BY DEF OneWorks
<1>2. Credit(t, r)' = Credit(t, r) + 1
  <2>1. PICK A, B : A = Askers(t, r) /\ B = Askers(t, r)'
    OBVIOUS
  <2>2. /\ A \in SUBSET Worker /\ B \in SUBSET Worker /\ w \in A /\ w \notin B
        /\ \A v \in Worker \ {w} : v \in B <=> v \in A
    <3>1. \A v \in Worker \ {w} : v \in Askers(t, r)' <=> v \in Askers(t, r)
      BY <1>1, OthersAsk
    <3>2. Askers(t, r) \in SUBSET Worker /\ Askers(t, r)' \in SUBSET Worker
      BY DEF Askers
    <3>3. w \notin Askers(t, r)'
      BY DEF Upserts
    <3> QED BY <2>1, <3>1, <3>2, <3>3
  <2>3. \A v : v \in B <=> v \in A \ {w}
    BY <2>2
  <2>4. B = A \ {w}
    BY <2>3
  <2>5. IsFiniteSet(A) /\ Cardinality(A) \in Nat
    BY <2>2, AskersFinite
  <2>6. Cardinality(B) = Cardinality(A) - 1
    BY <2>2, <2>4, <2>5, FS_RemoveElement
  <2>7. attempts[t[1]] \in Nat
    BY DEF Clock, Landed
  <2>8. Credit(t, r) = attempts[t[1]] - Cardinality(A) /\ Credit(t, r)' = attempts[t[1]] - Cardinality(B)
    BY <2>1 DEF Credit
  <2> QED BY <2>5, <2>6, <2>7, <2>8
<1>3. ASSUME NEW u \in Trade, NEW s \in RESOLUTION_SECONDS, u # t \/ s # r
      PROVE  Credit(u, s)' = Credit(u, s)
  <2>1. ~(s = r /\ u[1] = t[1] /\ u[2] = t[2])
    <3>1. t = <<t[1], t[2]>> /\ u = <<u[1], u[2]>>
      BY TradeFacts
    <3> QED BY <1>3, <3>1
  <2>2. PICK A, B : A = Askers(u, s) /\ B = Askers(u, s)'
    OBVIOUS
  <2>3. /\ A \in SUBSET Worker /\ B \in SUBSET Worker /\ (w \in B <=> w \in A)
        /\ \A v \in Worker \ {w} : v \in B <=> v \in A
    <3>1. \A v \in Worker \ {w} : v \in Askers(u, s)' <=> v \in Askers(u, s)
      BY <1>1, OthersAsk
    <3>2. Askers(u, s) \in SUBSET Worker /\ Askers(u, s)' \in SUBSET Worker
      BY DEF Askers
    <3>3. w \in Askers(u, s)' <=> w \in Askers(u, s)
      BY <2>1 DEF Upserts
    <3> QED BY <2>2, <3>1, <3>2, <3>3
  <2>4. \A v : v \in A <=> v \in B
    BY <2>3
  <2>5. A = B
    BY <2>4
  <2> QED BY <2>2, <2>5 DEF Credit
<1> QED BY <1>2, <1>3

\* The columns of a candle after a trade.
LEMMA UpdatedIs ==
  ASSUME NEW row, RowOK(row), NEW e, derivePrice(e) \in Nat, Volume(e) \in Nat
  PROVE  LET p == derivePrice(e)
             u == UpdatedCandle(row, e)
         IN  /\ RowOK(u)
             /\ u.high \in {row.high, p} /\ row.high <= u.high /\ p <= u.high
             /\ u.low \in {row.low, p} /\ u.low <= row.low /\ u.low <= p
             /\ u.volume = row.volume + Volume(e)
             /\ u.tradeCount = row.tradeCount + 1
<1> DEFINE p == derivePrice(e)
           v == Volume(e)
           u == UpdatedCandle(row, e)
<1>1. /\ DOMAIN row = {"open", "high", "low", "close", "volume", "tradeCount"}
      /\ \A f \in DOMAIN row : row[f] \in Nat
      /\ row.low <= row.open /\ row.open <= row.high
      /\ row.low <= row.close /\ row.close <= row.high
  BY DEF RowOK
<1>2. p \in Nat /\ v \in Nat
  OBVIOUS
<1> HIDE DEF p, v
<1>3. u = [row EXCEPT !.high = IF p > @ THEN p ELSE @,
                      !.low = IF p < @ THEN p ELSE @,
                      !.close = p,
                      !.volume = @ + v,
                      !.tradeCount = @ + 1]
  BY DEF UpdatedCandle, p, v
<1> HIDE DEF u
<1>4. /\ DOMAIN u = DOMAIN row
      /\ u.open = row.open
      /\ u.high = (IF p > row.high THEN p ELSE row.high)
      /\ u.low = (IF p < row.low THEN p ELSE row.low)
      /\ u.close = p
      /\ u.volume = row.volume + v
      /\ u.tradeCount = row.tradeCount + 1
  BY <1>1, <1>3
<1>5. /\ row.open \in Nat /\ row.high \in Nat /\ row.low \in Nat /\ row.close \in Nat
      /\ row.volume \in Nat /\ row.tradeCount \in Nat
  BY <1>1
<1>6. /\ u.open \in Nat /\ u.high \in Nat /\ u.low \in Nat /\ u.close \in Nat
      /\ u.volume \in Nat /\ u.tradeCount \in Nat
      /\ u.high \in {row.high, p} /\ row.high <= u.high /\ p <= u.high
      /\ u.low \in {row.low, p} /\ u.low <= row.low /\ u.low <= p
      /\ u.low <= u.open /\ u.open <= u.high /\ u.low <= u.close /\ u.close <= u.high
  BY <1>1, <1>2, <1>4, <1>5
<1>7. RowOK(u)
  BY <1>1, <1>4, <1>6 DEF RowOK
<1> QED BY <1>4, <1>6, <1>7 DEF u, p, v

\* The columns of a candle of one trade.
LEMMA NewIs ==
  ASSUME NEW e, derivePrice(e) \in Nat, Volume(e) \in Nat
  PROVE  LET u == NewCandle(e)
         IN  /\ RowOK(u)
             /\ u.high = derivePrice(e) /\ u.low = derivePrice(e)
             /\ u.volume = Volume(e) /\ u.tradeCount = 1
BY DEF NewCandle, RowOK

\* A credit more is one more in the total of its candle, and in no other's.
LEMMA UpsertShares ==
  ASSUME Credits, UNCHANGED blockTime, NEW t \in Trade, NEW r \in RESOLUTION_SECONDS,
         t[1] \in Landed, Credit(t, r)' = Credit(t, r) + 1,
         \A u \in Trade, s \in RESOLUTION_SECONDS :
           u # t \/ s # r => Credit(u, s)' = Credit(u, s),
         NEW key, key = Period(t, r)
  PROVE  /\ SumFunction(Share(key)) \in Nat /\ SumFunction(Weight(key)) \in Nat
         /\ SumFunction(Share(key)') = SumFunction(Share(key)) + 1
         /\ SumFunction(Weight(key)') = SumFunction(Weight(key)) + Volume(Event(t))
         /\ \A k : k # key /\ k[2] \in RESOLUTION_SECONDS =>
              Share(k)' = Share(k) /\ Weight(k)' = Weight(k)
<1>1. key[2] = r /\ Landed' = Landed /\ \A u, s : Period(u, s)' = Period(u, s)
  BY DEF Period, Landed
<1>2. Share(key) \in [Trade -> Nat] /\ Weight(key) \in [Trade -> Nat]
  BY <1>1, SharesTyped
<1>3. PICK f \in [Trade -> Nat], g \in [Trade -> Nat], v \in Nat :
        f = Share(key) /\ g = Weight(key) /\ v = Volume(Event(t))
  BY <1>2, TradeFacts
<1>4. f[t] = Credit(t, r) /\ f[t] \in Nat /\ g[t] = f[t] * v /\ g[t] \in Nat
  <2>1. f[t] = Credit(t, r)
    BY <1>1, <1>3 DEF Share
  <2>2. g[t] = f[t] * v
    BY <1>3 DEF Weight
  <2> QED BY <2>1, <2>2
<1>5. Share(key)' = [f EXCEPT ![t] = f[t] + 1]
  <2>1. ASSUME NEW u \in Trade
        PROVE  (IF u[1] \in Landed /\ Period(u, r) = key THEN Credit(u, r)' ELSE 0)
               = IF u = t THEN f[t] + 1 ELSE f[u]
    <3>1. CASE u = t
      BY <1>4, <3>1
    <3>2. CASE u # t
      BY <1>1, <1>3, <3>2 DEF Share
    <3> QED BY <3>1, <3>2
  <2>2. Share(key)' = [u \in Trade |-> IF u[1] \in Landed /\ Period(u, r) = key
                                       THEN Credit(u, r)' ELSE 0]
    BY <1>1 DEF Share
  <2>3. [f EXCEPT ![t] = f[t] + 1] = [u \in Trade |-> IF u = t THEN f[t] + 1 ELSE f[u]]
    OBVIOUS
  <2> QED BY <2>1, <2>2, <2>3
<1>6. PICK m \in Nat : m = f[t] + 1
  BY <1>4
<1>7. Weight(key)' = [g EXCEPT ![t] = g[t] + v]
  <2>1. PICK h \in [Trade -> Nat] : h = [f EXCEPT ![t] = m] /\ h = Share(key)'
    BY <1>5, <1>6
  <2>2. ASSUME NEW u \in Trade
        PROVE  h[u] * Volume(Event(u)) = IF u = t THEN g[t] + v ELSE g[u]
    <3>1. CASE u = t
      <4>1. h[u] = f[t] + 1
        BY <1>6, <2>1, <3>1
      <4>2. (f[t] + 1) * v = f[t] * v + v
        BY <1>4
      <4> QED BY <1>3, <1>4, <3>1, <4>1, <4>2
    <3>2. CASE u # t
      <4>1. h[u] = f[u]
        BY <2>1, <3>2
      <4> QED BY <1>3, <3>2, <4>1 DEF Weight
    <3> QED BY <3>1, <3>2
  <2>3. Weight(key)' = [u \in Trade |-> h[u] * Volume(Event(u))]
    BY <2>1 DEF Weight
  <2>4. [g EXCEPT ![t] = g[t] + v] = [u \in Trade |-> IF u = t THEN g[t] + v ELSE g[u]]
    OBVIOUS
  <2> QED BY <2>2, <2>3, <2>4
<1>8. PICK l \in Nat : l = g[t] + v
  BY <1>4
<1>9. /\ SumFunction([f EXCEPT ![t] = m]) = SumFunction(f) - f[t] + m
      /\ SumFunction([g EXCEPT ![t] = l]) = SumFunction(g) - g[t] + l
      /\ SumFunction(f) \in Nat /\ SumFunction(g) \in Nat
  BY TradesFinite, SumUpdate, SumNat
<1>10. SumFunction(f) - f[t] + m = SumFunction(f) + 1 /\ SumFunction(g) - g[t] + l = SumFunction(g) + v
  <2>1. PICK a \in Nat, b \in Nat : a = SumFunction(f) /\ b = SumFunction(g)
    BY <1>9
  <2>2. a - f[t] + m = a + 1 /\ b - g[t] + l = b + v
    BY <1>4, <1>6, <1>8
  <2> QED BY <2>1, <2>2
<1>11. ASSUME NEW k, k # key, k[2] \in RESOLUTION_SECONDS
       PROVE  Share(k)' = Share(k) /\ Weight(k)' = Weight(k)
  <2>1. ASSUME NEW u \in Trade, Period(u, k[2]) = k PROVE Credit(u, k[2])' = Credit(u, k[2])
    BY <1>11, <2>1
  <2>2. Share(k)' = Share(k)
    BY <1>1, <2>1 DEF Share
  <2> QED BY <2>2 DEF Weight
<1> QED BY <1>3, <1>5, <1>6, <1>7, <1>8, <1>9, <1>10, <1>11

\* A trade is counted in the candle of its period, and in no other.
LEMMA UpsertCandles ==
  ASSUME DeliveryInv, CandlesInv, NEW w \in Worker, upsertCandles(w) PROVE CandlesInv'
<1>0. PICK c : c = Next1(w)
  OBVIOUS
<1> DEFINE e == Trades(c.n)[c.i]
           t == <<c.n, c.i>>
<1>1. PICK r \in c.left :
        LET key == <<e.pool, r, truncateToResolution(blockTime[c.n], r)>>
        IN /\ candles' = With(candles, key,
                              IF key \in DOMAIN candles
                              THEN UpdatedCandle(candles[key], e) ELSE NewCandle(e))
           /\ counted' = counted \union {<<c.n, c.i, r>>}
           /\ IF c.left = {r} THEN Done(w)
              ELSE work' = [work EXCEPT ![w].calls[1].left = @ \ {r}]
  BY <1>0 DEF upsertCandles
<1>a. PICK key : key = <<e.pool, r, truncateToResolution(blockTime[c.n], r)>>
  OBVIOUS
<1>b. PICK row : row = IF key \in DOMAIN candles THEN UpdatedCandle(candles[key], e) ELSE NewCandle(e)
  OBVIOUS
<1>2. /\ candles' = With(candles, key, row) /\ counted' = counted \union {<<c.n, c.i, r>>}
      /\ At(w, "upsertCandles")
      /\ UNCHANGED <<now, blockTime, due, swap_events, epoch_events, carnage_events,
                     attempts, resends, faults, stops, backfills>>
  BY <1>1, <1>a, <1>b DEF upsertCandles, bounds
<1>3. t[1] = c.n /\ t[2] = c.i /\ e = Event(t) /\ key = Period(t, r) /\ key[2] = r
  BY <1>a DEF Event, Period
<1> HIDE DEF t
<1>4. /\ OneWorks(w) /\ Busy(w)'
      /\ t \in Trade /\ t[1] \in Landed /\ r \in RESOLUTION_SECONDS
      /\ w \in Askers(t, r) /\ Upserts(w, t, r)
  <2>1. r \in Next1(w).left /\ t = <<Next1(w).n, Next1(w).i>> /\ Busy(w)
    BY <1>0 DEF t, CandlesInv
  <2>2. IF Next1(w).left = {r} THEN Done(w)
        ELSE work' = [work EXCEPT ![w].calls[1].left = @ \ {r}]
    BY <1>0, <1>1
  <2> QED BY <1>2, <2>1, <2>2, UpsertLess
<1>5. Landed' = Landed /\ (NoLoss' <=> NoLoss) /\ \A u, s : Period(u, s)' = Period(u, s)
  BY <1>2 DEF Landed, NoLoss, Period
<1>6. Credits /\ Clock /\ Rows /\ \A k \in DOMAIN candles : Columns(k)
  BY DEF CandlesInv
<1>7. /\ Credit(t, r)' = Credit(t, r) + 1
      /\ \A u \in Trade, s \in RESOLUTION_SECONDS :
           u # t \/ s # r => Credit(u, s)' = Credit(u, s)
  BY <1>2, <1>4, <1>6, OneCreditMore
<1>8. /\ SumFunction(Share(key)) \in Nat /\ SumFunction(Weight(key)) \in Nat
      /\ SumFunction(Share(key)') = SumFunction(Share(key)) + 1
      /\ SumFunction(Weight(key)') = SumFunction(Weight(key)) + Volume(Event(t))
      /\ \A k : k # key /\ k[2] \in RESOLUTION_SECONDS =>
           Share(k)' = Share(k) /\ Weight(k)' = Weight(k)
  BY <1>2, <1>3, <1>4, <1>6, <1>7, UpsertShares
<1>9. \A u \in Trade : \A s : <<u[1], u[2], s>> \in counted' <=>
         <<u[1], u[2], s>> \in counted \/ (u = t /\ s = r)
  <2>1. \A u \in Trade : u = <<u[1], u[2]>>
    BY TradeFacts
  <2> QED BY <1>2, <1>3, <1>4, <2>1
<1>10. /\ DOMAIN candles' = DOMAIN candles \union {key} /\ candles'[key] = row
       /\ \A k \in DOMAIN candles : k # key => candles'[k] = candles[k]
  BY <1>2 DEF With
<1>11. Credits'
  <2>1. \A u \in Trade, s \in RESOLUTION_SECONDS : u[1] \in Landed => Credit(u, s) \in Nat
    BY <1>6 DEF Credits
  <2>2. ASSUME NEW u \in Trade, NEW s \in RESOLUTION_SECONDS, u[1] \in Landed
        PROVE  Credit(u, s)' \in Nat /\ Credit(u, s) <= Credit(u, s)'
    <3>1. CASE u = t /\ s = r
      BY <1>7, <2>1, <2>2, <3>1
    <3>2. CASE ~(u = t /\ s = r)
      BY <1>7, <2>1, <2>2, <3>2
    <3> QED BY <3>1, <3>2
  <2>3. ASSUME NEW x \in counted'
        PROVE  \E u \in Trade, s \in RESOLUTION_SECONDS :
                 /\ x = <<u[1], u[2], s>> /\ u[1] \in Landed'
                 /\ Period(u, s)' \in DOMAIN candles' /\ Credit(u, s)' > 0
    <3>1. CASE x \in counted
      <4>1. PICK u \in Trade, s \in RESOLUTION_SECONDS :
              /\ x = <<u[1], u[2], s>> /\ u[1] \in Landed
              /\ Period(u, s) \in DOMAIN candles /\ Credit(u, s) > 0
        BY <1>6, <3>1 DEF Credits
      <4>2. Credit(u, s)' > 0
        BY <2>1, <2>2, <4>1
      <4> QED BY <1>5, <1>10, <4>1, <4>2
    <3>2. CASE x = <<t[1], t[2], r>>
      <4>1. Credit(t, r)' > 0
        BY <1>4, <1>7, <2>1
      <4> QED BY <1>3, <1>4, <1>5, <1>10, <3>2, <4>1
    <3> QED BY <1>2, <1>3, <2>3, <3>1, <3>2
  <2>4. ASSUME NoLoss', NEW u \in Trade, NEW s \in RESOLUTION_SECONDS, u[1] \in Landed',
               Credit(u, s)' > 0
        PROVE  <<u[1], u[2], s>> \in counted'
    <3>1. CASE u = t /\ s = r
      BY <1>9, <3>1
    <3>2. CASE ~(u = t /\ s = r)
      <4>1. Credit(u, s) > 0
        BY <1>7, <2>4, <3>2
      <4>2. <<u[1], u[2], s>> \in counted
        BY <1>5, <1>6, <2>4, <4>1 DEF Credits
      <4> QED BY <1>2, <4>2
    <3> QED BY <3>1, <3>2
  <2>5. \A u \in Trade, s \in RESOLUTION_SECONDS : u[1] \in Landed' => Credit(u, s)' \in Nat
    BY <1>5, <2>2
  <2> QED BY <2>3, <2>4, <2>5 DEF Credits
<1>12. ASSUME NEW k \in DOMAIN candles, k # key PROVE Columns(k)'
  <2>1. Columns(k)
    BY <1>6
  <2>2. PICK u \in Trade, s \in RESOLUTION_SECONDS : u[1] \in Landed /\ k = Period(u, s)
    BY <2>1 DEF Columns
  <2>3. k[2] \in RESOLUTION_SECONDS
    BY <2>2 DEF Period
  <2>4. Share(k)' = Share(k) /\ Weight(k)' = Weight(k) /\ candles'[k] = candles[k]
    BY <1>8, <1>10, <1>12, <2>3
  <2>5. Seen(k)' = Seen(k)
    <3>1. \A x \in Trade : Period(x, k[2]) = k =>
            (<<x[1], x[2], k[2]>> \in counted' <=> <<x[1], x[2], k[2]>> \in counted)
      BY <1>3, <1>9, <1>12
    <3> QED BY <1>5, <3>1 DEF Seen
  <2> QED BY <1>5, <2>1, <2>2, <2>4, <2>5 DEF Columns, RowOK, PricesIn
<1>13. Columns(key)'
  <2> DEFINE p == derivePrice(Event(t))
             v == Volume(Event(t))
  <2>1. p \in Nat /\ v \in Nat
    BY <1>4, TradeFacts
  <2>2. PricesIn(Seen(key)') = PricesIn(Seen(key)) \union {p}
    <3>1. Seen(key)' = Seen(key) \union {t}
      <4>1. \A u : u \in Seen(key)' <=> u \in Seen(key) \/ u = t
        BY <1>3, <1>4, <1>5, <1>9 DEF Seen
      <4>2. PICK A, B : A = Seen(key) /\ B = Seen(key)'
        OBVIOUS
      <4>3. \A u : u \in B <=> u \in A \union {t}
        BY <4>1, <4>2
      <4>4. B = A \union {t}
        BY <4>3
      <4> QED BY <4>2, <4>4
    <3>2. \A A : PricesIn(A \union {t}) = PricesIn(A) \union {p}
      BY DEF PricesIn, Event
    <3> QED BY <3>1, <3>2
  <2>3. /\ RowOK(row)
        /\ row.high \in PricesIn(Seen(key)) \union {p} /\ row.low \in PricesIn(Seen(key)) \union {p}
        /\ \A x \in PricesIn(Seen(key)) \union {p} : row.low <= x /\ x <= row.high
        /\ row.tradeCount <= SumFunction(Share(key)) + 1
        /\ row.volume <= SumFunction(Weight(key)) + v
        /\ NoLoss => /\ row.tradeCount = SumFunction(Share(key)) + 1
                     /\ row.volume = SumFunction(Weight(key)) + v
    <3>1. CASE key \in DOMAIN candles
      <4> DEFINE old == candles[key]
      <4>1. /\ RowOK(old) /\ old.high \in PricesIn(Seen(key)) /\ old.low \in PricesIn(Seen(key))
            /\ \A x \in PricesIn(Seen(key)) : old.low <= x /\ x <= old.high
            /\ old.tradeCount <= SumFunction(Share(key))
            /\ old.volume <= SumFunction(Weight(key))
            /\ NoLoss => /\ old.tradeCount = SumFunction(Share(key))
                         /\ old.volume = SumFunction(Weight(key))
        BY <1>6, <3>1 DEF Columns
      <4>2. row = UpdatedCandle(old, Event(t))
        BY <1>3, <1>b, <3>1
      <4> HIDE DEF old
      <4>3. /\ RowOK(row)
            /\ row.high \in {old.high, p} /\ old.high <= row.high /\ p <= row.high
            /\ row.low \in {old.low, p} /\ row.low <= old.low /\ row.low <= p
            /\ row.volume = old.volume + v
            /\ row.tradeCount = old.tradeCount + 1
        BY <2>1, <4>1, <4>2, UpdatedIs
      <4>4. /\ old.high \in Nat /\ old.low \in Nat /\ old.tradeCount \in Nat /\ old.volume \in Nat
            /\ row.high \in Nat /\ row.low \in Nat
        BY <4>1, <4>3 DEF RowOK
      <4>5. PricesIn(Seen(key)) \subseteq Nat
        BY TradeFacts DEF PricesIn, Seen, Event
      <4>6. \A x \in PricesIn(Seen(key)) : row.low <= x /\ x <= row.high
        BY <4>1, <4>3, <4>4, <4>5
      <4> HIDE DEF p, v
      <4>7. /\ row.tradeCount <= SumFunction(Share(key)) + 1
            /\ row.volume <= SumFunction(Weight(key)) + v
            /\ NoLoss => /\ row.tradeCount = SumFunction(Share(key)) + 1
                         /\ row.volume = SumFunction(Weight(key)) + v
        BY <1>8, <2>1, <4>1, <4>3, <4>4
      <4> QED BY <4>1, <4>3, <4>6, <4>7
    <3>2. CASE key \notin DOMAIN candles
      <4>1. row = NewCandle(Event(t))
        BY <1>3, <1>b, <3>2
      <4>2. /\ RowOK(row) /\ row.high = p /\ row.low = p /\ row.volume = v /\ row.tradeCount = 1
        BY <2>1, <4>1, NewIs
      <4>3. ASSUME NEW u \in Trade, Period(u, r) = key PROVE <<u[1], u[2], r>> \notin counted
        <5> SUFFICES ASSUME <<u[1], u[2], r>> \in counted PROVE FALSE
          OBVIOUS
        <5>1. PICK x \in Trade, s \in RESOLUTION_SECONDS :
                <<u[1], u[2], r>> = <<x[1], x[2], s>> /\ Period(x, s) \in DOMAIN candles
          BY <1>6 DEF Credits
        <5>2. u = <<u[1], u[2]>> /\ x = <<x[1], x[2]>>
          BY TradeFacts
        <5>3. x = u /\ s = r
          BY <5>1, <5>2
        <5> QED BY <3>2, <4>3, <5>1, <5>3
      <4>4. PricesIn(Seen(key)) = {}
        <5>1. Seen(key) = {}
          BY <1>3, <4>3 DEF Seen
        <5> QED BY <5>1 DEF PricesIn
      <4>5. NoLoss => SumFunction(Share(key)) = 0 /\ SumFunction(Weight(key)) = 0
        <5> SUFFICES ASSUME NoLoss PROVE SumFunction(Share(key)) = 0 /\ SumFunction(Weight(key)) = 0
          OBVIOUS
        <5>1. Share(key) \in [Trade -> Nat] /\ Weight(key) \in [Trade -> Nat]
          BY <1>3, <1>4, <1>6, SharesTyped
        <5>2. ASSUME NEW u \in Trade PROVE Share(key)[u] = 0
          <6>1. CASE u[1] \in Landed /\ Period(u, r) = key
            <7>1. <<u[1], u[2], r>> \notin counted
              BY <4>3, <6>1
            <7>2. Credit(u, r) \in Nat /\ ~(Credit(u, r) > 0)
              BY <1>4, <1>6, <6>1, <7>1 DEF Credits
            <7>3. Share(key)[u] = Credit(u, r)
              BY <1>3, <6>1 DEF Share
            <7> QED BY <7>2, <7>3
          <6>2. CASE ~(u[1] \in Landed /\ Period(u, r) = key)
            BY <1>3, <6>2 DEF Share
          <6> QED BY <6>1, <6>2
        <5>3. ASSUME NEW u \in Trade PROVE Weight(key)[u] = 0
          <6>1. Weight(key)[u] = Share(key)[u] * Volume(Event(u)) /\ Volume(Event(u)) \in Nat
            BY TradeFacts DEF Weight
          <6>2. PICK n \in Nat : n = Volume(Event(u))
            BY <6>1
          <6>3. 0 * n = 0
            OBVIOUS
          <6> QED BY <5>2, <6>1, <6>2, <6>3
        <5>4. PICK f \in [Trade -> Nat], g \in [Trade -> Nat] : f = Share(key) /\ g = Weight(key)
          BY <5>1
        <5>5. (\A u \in Trade : f[u] = 0) /\ (\A u \in Trade : g[u] = 0)
          BY <5>2, <5>3, <5>4
        <5>6. SumFunction(f) = 0 /\ SumFunction(g) = 0
          BY <5>5, TradesFinite, SumNat
        <5> QED BY <5>4, <5>6
      <4> HIDE DEF p, v
      <4>6. /\ row.tradeCount <= SumFunction(Share(key)) + 1
            /\ row.volume <= SumFunction(Weight(key)) + v
            /\ NoLoss => /\ row.tradeCount = SumFunction(Share(key)) + 1
                         /\ row.volume = SumFunction(Weight(key)) + v
        BY <1>8, <2>1, <4>2, <4>5
      <4> QED BY <2>1, <4>2, <4>4, <4>6
    <3> QED BY <3>1, <3>2
  <2>4. t[1] \in Landed' /\ key = Period(t, r)'
    BY <1>3, <1>4, <1>5
  <2> HIDE DEF p, v
  <2>5. candles'[key] = row /\ t \in Trade /\ r \in RESOLUTION_SECONDS
    BY <1>4, <1>10
  <2>6. \A q : PricesIn(q)' = PricesIn(q)
    BY DEF PricesIn
  <2>7. \E u \in Trade, s \in RESOLUTION_SECONDS : u[1] \in Landed' /\ key = Period(u, s)'
    BY <2>4, <2>5
  <2>8. /\ SumFunction(Share(key)') = SumFunction(Share(key)) + 1
        /\ SumFunction(Weight(key)') = SumFunction(Weight(key)) + v
    BY <1>8 DEF v
  <2> QED BY <1>5, <2>2, <2>3, <2>5, <2>7, <2>8 DEF Columns, RowOK, PricesIn
<1>14. \A v \in Worker : Busy(v)'
  BY <1>4, <1>5, OneBusy DEF OneWorks, CandlesInv
<1>15. Clock' /\ Rows'
  BY <1>2, <1>5, <1>6, RowsStay DEF Clock
<1> QED BY <1>10, <1>11, <1>12, <1>13, <1>14, <1>15 DEF CandlesInv

\* There are no candles at first.
LEMMA CandlesInit == IndexerInit => CandlesInv
<1> SUFFICES ASSUME IndexerInit PROVE CandlesInv
  OBVIOUS
<1>1. /\ <<>> \in Seq(CallRecord) /\ <<>> \in Seq(Nat) /\ <<>> \in Seq(0..MaxTime)
      /\ <<>> \in Seq(Landed) /\ Len(<<>>) = 0 /\ DOMAIN <<>> = {} /\ ToSet(<<>>) = {}
  BY DEF ToSet
<1>2. Landed = {}
  BY <1>1 DEF IndexerInit, Landed
<1>3. MaxTime \in Nat
  BY IndexerAssumption
<1>4. Clock
  BY <1>1, <1>3 DEF IndexerInit, Clock
<1>5. Apart(<<>>)
  BY DEF Apart
<1>6. \A w \in Worker : work[w] = Idle /\ Idle.payload = <<>> /\ Idle.calls = <<>>
  BY DEF IndexerInit, Idle
<1>7. \A w \in Worker : Busy(w)
  BY <1>1, <1>5, <1>6 DEF Busy
<1>8. Rows
  BY <1>1 DEF IndexerInit, Rows
<1>9. Credits
  BY <1>2 DEF IndexerInit, Credits
<1>10. \A key \in DOMAIN candles : Columns(key)
  BY <1>1 DEF IndexerInit
<1> QED BY <1>4, <1>7, <1>8, <1>9, <1>10 DEF CandlesInv

\* Every step keeps the invariant.
LEMMA CandlesStep == DeliveryInv /\ CandlesInv /\ [IndexerNext]_indexerVars => CandlesInv'
<1> SUFFICES ASSUME DeliveryInv, CandlesInv, [IndexerNext]_indexerVars PROVE CandlesInv'
  OBVIOUS
<1>1. CASE Land
  BY <1>1, LandCandles
<1>2. CASE Tick
  BY <1>2, TickCandles
<1>3. CASE StartBackfill
  BY <1>3, StartBackfillCandles
<1>4. CASE \E w \in Request : POST(w) \/ Resend(w)
  BY <1>4, PostCandles, ResendCandles
<1>5. CASE Stop(Request) \/ Stop({Backfill})
  <2>1. Request \in SUBSET Worker /\ {Backfill} \in SUBSET Worker
    BY Workers
  <2> QED BY <1>5, <2>1, StopCandles
<1>6. ASSUME NEW w \in Worker, Step(w) \/ Fail(w) PROVE CandlesInv'
  BY <1>6, TakeUpCandles, SwapCandles, UpsertCandles, EpochCandles, QueryCandles,
     CarnageCandles, AnswerCandles, FailCandles DEF Step
<1>7. CASE UNCHANGED indexerVars
  <2>1. UNCHANGED <<now, blockTime, due, work, swap_events, epoch_events, carnage_events,
                    candles, counted, attempts, resends, faults, stops, backfills>>
    BY <1>7 DEF indexerVars, bounds, database
  <2>2. Landed' = Landed /\ Clock' /\ (NoLoss' => NoLoss)
    BY <2>1 DEF Landed, CandlesInv, Clock, NoLoss
  <2>3. \A v \in Worker : Busy(v)'
    BY <2>1, <2>2, StaysBusy DEF CandlesInv
  <2>4. Rows'
    BY <2>1, <2>2, RowsStay DEF CandlesInv
  <2>5. \A t, r : Askers(t, r)' = Askers(t, r)
    BY <2>1 DEF Askers
  <2> QED BY <2>1, <2>2, <2>3, <2>4, <2>5, QuietStep
<1> QED BY <1>1, <1>2, <1>3, <1>4, <1>5, <1>6, <1>7 DEF IndexerNext

--------------------------------------------------------------------------------
(* What the invariant says of the candles. *)

\* A time is in the period it is truncated to, and in no other.
LEMMA Truncated ==
  ASSUME NEW x \in Nat, NEW y \in Nat, NEW r \in Nat \ {0}
  PROVE  /\ truncateToResolution(x, r) \in Nat
         /\ truncateToResolution(y, r) <= x /\ x < truncateToResolution(y, r) + r
              <=> truncateToResolution(x, r) = truncateToResolution(y, r)
<1>1. PICK a \in Nat, b \in Nat : a = x \div r /\ b = y \div r
  BY DivNat
<1>2. r * a <= x /\ x < r * a + r
  BY <1>1, DivBounds
<1>3. a * r = r * a /\ b * r = r * b /\ a * r \in Nat /\ b * r \in Nat
  BY ProductNat
<1>4. truncateToResolution(x, r) = r * a /\ truncateToResolution(y, r) = r * b
  BY <1>1, <1>3 DEF truncateToResolution
<1>5. ASSUME r * b <= x, x < r * b + r PROVE a = b
  <2>1. CASE a + 1 <= b
    <3>1. PICK d \in Nat : b = (a + 1) + d
      <4>1. b - (a + 1) \in Nat /\ b = (a + 1) + (b - (a + 1))
        BY <2>1
      <4> QED BY <4>1
    <3>2. r * ((a + 1) + d) = r * a + r + r * d /\ r * d \in Nat
      BY ProductNat
    <3> QED BY <1>2, <1>3, <1>5, <3>1, <3>2
  <2>2. CASE b + 1 <= a
    <3>1. PICK d \in Nat : a = (b + 1) + d
      <4>1. a - (b + 1) \in Nat /\ a = (b + 1) + (a - (b + 1))
        BY <2>2
      <4> QED BY <4>1
    <3>2. r * ((b + 1) + d) = r * b + r + r * d /\ r * d \in Nat
      BY ProductNat
    <3> QED BY <1>2, <1>3, <1>5, <3>1, <3>2
  <2> QED BY <2>1, <2>2
<1> QED BY <1>2, <1>3, <1>4, <1>5

\* The trades of a candle's period are those whose period is the candle's.
LEMMA InPeriodIs ==
  ASSUME DeliveryInv, Clock, NEW key, NEW x \in Trade, NEW r \in RESOLUTION_SECONDS,
         x[1] \in Landed, key = Period(x, r)
  PROVE  InPeriod(key) = {t \in Trade : t[1] \in Landed /\ Period(t, key[2]) = key}
<1>1. Landed \subseteq DOMAIN Log /\ r \in Nat \ {0}
  BY LandedTxs, IndexerAssumption DEF DeliveryInv
<1>2. /\ key[1] = Event(x).pool /\ key[2] = r
      /\ key[3] = truncateToResolution(blockTime[x[1]], r)
  BY DEF Period
<1>3. \A n \in Landed : blockTime[n] \in Nat
  <2>1. MaxTime \in Nat
    BY IndexerAssumption
  <2> QED BY <2>1 DEF Clock, Landed
<1>4. ASSUME NEW t \in Trade, t[1] \in Landed
      PROVE  key[3] <= blockTime[t[1]] /\ blockTime[t[1]] < key[3] + key[2]
               <=> truncateToResolution(blockTime[t[1]], r) = key[3]
  <2>1. PICK a \in Nat, b \in Nat : a = blockTime[t[1]] /\ b = blockTime[x[1]]
    BY <1>3, <1>4
  <2>2. truncateToResolution(b, r) <= a /\ a < truncateToResolution(b, r) + r
          <=> truncateToResolution(a, r) = truncateToResolution(b, r)
    BY <1>1, Truncated
  <2> QED BY <1>2, <2>1, <2>2
<1>5. ASSUME NEW t \in Trade, t[1] \in Landed
      PROVE  Period(t, key[2]) = key <=> /\ Event(t).pool = key[1]
                                         /\ truncateToResolution(blockTime[t[1]], r) = key[3]
  BY <1>2, <1>5 DEF Period
<1> DEFINE all == UNION {{<<n, i>> : i \in DOMAIN OfType(n, {"TaxedSwap"})} : n \in Landed}
           Is(t) == LET e == OfType(t[1], {"TaxedSwap"})[t[2]]
                    IN /\ ~Log[t[1]].failed
                       /\ e.pool = key[1]
                       /\ key[3] <= blockTime[t[1]]
                       /\ blockTime[t[1]] < key[3] + key[2]
                       /\ derivePrice(e) > 0
<1>6. ASSUME NEW t
      PROVE  t \in all /\ Is(t) <=> t \in Trade /\ t[1] \in Landed /\ Period(t, key[2]) = key
  <2>1. ASSUME t \in all, Is(t) PROVE t \in Trade /\ t[1] \in Landed /\ Period(t, key[2]) = key
    <3>1. PICK n \in Landed : t \in {<<n, i>> : i \in DOMAIN OfType(n, {"TaxedSwap"})}
      BY <2>1
    <3>2. PICK i \in DOMAIN OfType(n, {"TaxedSwap"}) : t = <<n, i>>
      BY <3>1
    <3>3. n \in DOMAIN Log /\ Trades(n) = OfType(n, {"TaxedSwap"}) /\ t[1] = n /\ t[2] = i
      BY <1>1, <3>2, TradesAreTaxed
    <3>4. Event(t) = OfType(t[1], {"TaxedSwap"})[t[2]]
      BY <3>3 DEF Event
    <3>5. t \in Trade
      BY <2>1, <3>2, <3>3, <3>4 DEF Trade
    <3>6. t[1] \in Landed
      BY <3>3
    <3> QED BY <1>4, <1>5, <2>1, <3>4, <3>5, <3>6
  <2>2. ASSUME t \in Trade, t[1] \in Landed, Period(t, key[2]) = key PROVE t \in all /\ Is(t)
    <3>1. /\ t[1] \in DOMAIN Log /\ ~Log[t[1]].failed
          /\ t[2] \in DOMAIN Trades(t[1]) /\ t = <<t[1], t[2]>>
          /\ derivePrice(Event(t)) \in Nat \ {0}
      BY <2>2, TradeFacts
    <3>2. Trades(t[1]) = OfType(t[1], {"TaxedSwap"})
      BY <3>1, TradesAreTaxed
    <3>3. Event(t) = OfType(t[1], {"TaxedSwap"})[t[2]]
      BY <3>2 DEF Event
    <3>4. t \in {<<t[1], i>> : i \in DOMAIN OfType(t[1], {"TaxedSwap"})}
      BY <3>1, <3>2
    <3>5. t \in all
      BY <2>2, <3>4
    <3> QED BY <1>4, <1>5, <2>2, <3>1, <3>3, <3>5
  <2> QED BY <2>1, <2>2
<1>7. InPeriod(key) = {t \in all : Is(t)}
  BY DEF InPeriod
<1> HIDE DEF all, Is
<1> QED BY <1>6, <1>7

\* The types of the tables.
LEMMA TypesFollow == DeliveryInv /\ CandlesInv => IndexerTypeOK
<1> SUFFICES ASSUME DeliveryInv, CandlesInv PROVE IndexerTypeOK
  OBVIOUS
<1>1. ASSUME NEW w \in Worker PROVE ToSet(work[w].payload) \union work[w].batch \subseteq Landed
  <2>1. work[w].batch \subseteq Landed
    BY Workers DEF DeliveryInv, WorkTyped
  <2>2. PICK q \in Seq(Landed) : q = work[w].payload
    BY DEF CandlesInv, Busy
  <2>3. ToSet(q) \subseteq Landed
    BY DEF ToSet
  <2> QED BY <2>1, <2>2, <2>3
<1>2. due \subseteq Landed
  BY DEF DeliveryInv, ChainTyped
<1>3. \A key \in DOMAIN candles : RowOK(candles[key])
  BY DEF CandlesInv, Columns
<1> QED BY <1>1, <1>2, <1>3 DEF IndexerTypeOK, CandlesInv, Clock, Rows

\* The counted trades of a candle are landed trades of its period, credited.
LEMMA SeenIsCredited ==
  ASSUME CandlesInv, NEW key, NEW t \in Seen(key)
  PROVE  /\ t \in Trade /\ t[1] \in Landed /\ Period(t, key[2]) = key
         /\ Credit(t, key[2]) > 0 /\ key \in DOMAIN candles
<1>1. t \in Trade /\ <<t[1], t[2], key[2]>> \in counted /\ Period(t, key[2]) = key
  BY DEF Seen
<1>2. PICK x \in Trade, s \in RESOLUTION_SECONDS :
        /\ <<t[1], t[2], key[2]>> = <<x[1], x[2], s>> /\ x[1] \in Landed
        /\ Period(x, s) \in DOMAIN candles /\ Credit(x, s) > 0
  BY <1>1 DEF CandlesInv, Credits
<1>3. t = <<t[1], t[2]>> /\ x = <<x[1], x[2]>>
  BY <1>1, TradeFacts
<1>4. x = t /\ s = key[2]
  BY <1>2, <1>3
<1> QED BY <1>1, <1>2, <1>4

\* Highs and lows.
LEMMA HighLowFollow == DeliveryInv /\ CandlesInv => HighLowTrackTrades
<1> SUFFICES ASSUME DeliveryInv, CandlesInv, NEW key \in DOMAIN candles
             PROVE  LET seen == {t \in InPeriod(key) : <<t[1], t[2], key[2]>> \in counted}
                    IN /\ seen # {}
                       /\ candles[key].high \in PricesIn(seen)
                       /\ candles[key].low \in PricesIn(seen)
                       /\ \A p \in PricesIn(seen) : candles[key].low <= p /\ p <= candles[key].high
  BY DEF HighLowTrackTrades
<1>1. Columns(key) /\ Clock
  BY DEF CandlesInv
<1>2. PICK x \in Trade, r \in RESOLUTION_SECONDS : x[1] \in Landed /\ key = Period(x, r)
  BY <1>1 DEF Columns
<1>3. InPeriod(key) = {t \in Trade : t[1] \in Landed /\ Period(t, key[2]) = key}
  BY <1>1, <1>2, InPeriodIs
<1>4. PICK A : A = {t \in InPeriod(key) : <<t[1], t[2], key[2]>> \in counted}
  OBVIOUS
<1>5. \A t : t \in A <=> t \in Seen(key)
  BY <1>3, <1>4, SeenIsCredited DEF Seen
<1>6. A = Seen(key)
  BY <1>5
<1>7. PricesIn({}) = {}
  BY DEF PricesIn
<1>8. /\ candles[key].high \in PricesIn(A) /\ candles[key].low \in PricesIn(A)
      /\ \A p \in PricesIn(A) : candles[key].low <= p /\ p <= candles[key].high
  BY <1>1, <1>6 DEF Columns
<1> QED BY <1>4, <1>7, <1>8

\* Counts and volumes: no trade has more credit than attempts.
LEMMA CountsFollow == DeliveryInv /\ CandlesInv => CountsAreBounded
<1> SUFFICES ASSUME DeliveryInv, CandlesInv, NEW key \in DOMAIN candles
             PROVE  LET ts == InPeriod(key)
                    IN /\ candles[key].tradeCount <= SumFunction([t \in ts |-> attempts[t[1]]])
                       /\ candles[key].volume <=
                            SumFunction([t \in ts |-> attempts[t[1]] * Volume(Trades(t[1])[t[2]])])
  BY DEF CountsAreBounded
<1>1. Columns(key) /\ Clock /\ Credits
  BY DEF CandlesInv
<1>2. PICK x \in Trade, s \in RESOLUTION_SECONDS : x[1] \in Landed /\ key = Period(x, s)
  BY <1>1 DEF Columns
<1>3. PICK ts : ts = InPeriod(key)
  OBVIOUS
<1>4. ts = {t \in Trade : t[1] \in Landed /\ Period(t, key[2]) = key}
  BY <1>1, <1>2, <1>3, InPeriodIs
<1>5. key[2] \in RESOLUTION_SECONDS
  BY <1>2 DEF Period
<1>6. \A n \in Landed : attempts[n] \in Nat
  BY <1>1 DEF Clock, Landed
<1>7. PICK f, g : /\ f = [t \in ts |-> attempts[t[1]]]
                  /\ g = [t \in ts |-> attempts[t[1]] * Volume(Event(t))]
  OBVIOUS
<1>8. \A t \in Trade : Volume(Event(t)) \in Nat
  BY TradeFacts
<1>9. f \in [ts -> Nat] /\ g \in [ts -> Nat]
  <2>1. \A t \in ts : attempts[t[1]] \in Nat
    BY <1>4, <1>6
  <2>2. \A t \in ts : attempts[t[1]] * Volume(Event(t)) \in Nat
    BY <1>4, <1>8, <2>1, ProductNat
  <2> QED BY <1>7, <2>1, <2>2
<1>10. PICK ff, gg : /\ ff = [t \in Trade |-> IF t \in ts THEN f[t] ELSE 0]
                     /\ gg = [t \in Trade |-> IF t \in ts THEN g[t] ELSE 0]
  OBVIOUS
<1>11. /\ ff \in [Trade -> Nat] /\ gg \in [Trade -> Nat] /\ ts \in SUBSET Trade
       /\ \A t \in Trade : ff[t] = IF t \in ts THEN f[t] ELSE 0
       /\ \A t \in Trade : gg[t] = IF t \in ts THEN g[t] ELSE 0
  BY <1>4, <1>9, <1>10
<1>12. SumFunction(f) = SumFunction(ff)
  BY <1>9, <1>11, TradesFinite, SumExtends
<1>13. SumFunction(g) = SumFunction(gg)
  BY <1>9, <1>11, TradesFinite, SumExtends
<1>14. PICK a \in [Trade -> Nat], b \in [Trade -> Nat] : a = Share(key) /\ b = Weight(key)
  BY <1>1, <1>5, SharesTyped
<1>15. ASSUME NEW t \in Trade PROVE a[t] <= ff[t] /\ b[t] <= gg[t]
  <2>1. CASE t \in ts
    <3>1. a[t] = attempts[t[1]] - Cardinality(Askers(t, key[2]))
      BY <1>4, <1>14, <2>1 DEF Share, Credit
    <3>2. Cardinality(Askers(t, key[2])) \in Nat
      <4>1. Askers(t, key[2]) \in SUBSET Worker
        BY DEF Askers
      <4> QED BY <4>1, AskersFinite
    <3>3. PICK m \in Nat, v \in Nat : m = attempts[t[1]] /\ v = Volume(Event(t))
      BY <1>4, <1>6, <1>8, <2>1
    <3>4. a[t] \in Nat /\ a[t] <= m
      BY <1>14, <3>1, <3>2, <3>3
    <3>5. b[t] = a[t] * v
      BY <1>14, <3>3 DEF Weight
    <3>6. ff[t] = m /\ gg[t] = m * v
      BY <1>7, <1>11, <2>1, <3>3
    <3>7. PICK d \in Nat : d = a[t]
      BY <3>4
    <3>8. d * v <= m * v
      BY <3>4, <3>7, ProductMonotone
    <3> QED BY <3>4, <3>5, <3>6, <3>7, <3>8
  <2>2. CASE t \notin ts
    <3>1. a[t] = 0
      BY <1>4, <1>14, <2>2 DEF Share
    <3>2. PICK v \in Nat : v = Volume(Event(t))
      BY <1>8
    <3>3. b[t] = a[t] * v
      BY <1>14, <3>2 DEF Weight
    <3>4. 0 * v = 0
      OBVIOUS
    <3> QED BY <1>11, <2>2, <3>1, <3>3, <3>4
  <2> QED BY <2>1, <2>2
<1>16. SumFunction(a) <= SumFunction(ff)
  BY <1>11, <1>14, <1>15, TradesFinite, SumMonotone
<1>17. SumFunction(b) <= SumFunction(gg)
  BY <1>11, <1>14, <1>15, TradesFinite, SumMonotone
<1>18. /\ SumFunction(a) \in Nat /\ SumFunction(b) \in Nat
       /\ SumFunction(ff) \in Nat /\ SumFunction(gg) \in Nat
  BY <1>11, <1>14, TradesFinite, SumNat
<1>19. /\ candles[key].tradeCount \in Nat /\ candles[key].volume \in Nat
       /\ candles[key].tradeCount <= SumFunction(a) /\ candles[key].volume <= SumFunction(b)
  BY <1>1, <1>14 DEF Columns, RowOK
<1>20. candles[key].tradeCount <= SumFunction(f) /\ candles[key].volume <= SumFunction(g)
  BY <1>12, <1>13, <1>16, <1>17, <1>18, <1>19
<1> QED BY <1>3, <1>7, <1>20 DEF Event

\* A period is within a longer one as its times are, when its length divides the other's.
LEMMA Nested ==
  ASSUME NEW x \in Nat, NEW y \in Nat, NEW r \in Nat \ {0}, NEW l \in Nat \ {0}
  PROVE  l % r = 0 =>
           (truncateToResolution(x, l) = truncateToResolution(y, l) <=>
              truncateToResolution(x, r) \in
                truncateToResolution(y, l)..(truncateToResolution(y, l) + l - 1))
<1>0. /\ truncateToResolution(x, l) \in Nat
      /\ truncateToResolution(y, l) <= x /\ x < truncateToResolution(y, l) + l
           <=> truncateToResolution(x, l) = truncateToResolution(y, l)
  BY Truncated
<1> SUFFICES ASSUME l % r = 0
             PROVE  truncateToResolution(x, l) = truncateToResolution(y, l) <=>
                      truncateToResolution(x, r) \in
                        truncateToResolution(y, l)..(truncateToResolution(y, l) + l - 1)
  OBVIOUS
<1>1. PICK m \in Nat : l = r * m
  <2>1. l = r * (l \div r)
    OBVIOUS
  <2>2. l \div r \in Nat
    BY DivNat
  <2> QED BY <2>1, <2>2
<1>2. PICK a \in Nat, c \in Nat : a = x \div r /\ c = y \div l
  BY DivNat
<1>3. r * a <= x /\ x < r * a + r /\ r * a \in Nat
  BY <1>2, DivBounds, ProductNat
<1>4. PICK u \in Nat : u = m * c
  BY ProductNat
<1>5. /\ truncateToResolution(x, r) = r * a /\ truncateToResolution(y, l) = r * u
      /\ r * u \in Nat
  <2>1. a * r = r * a
    OBVIOUS
  <2>2. c * (r * m) = r * (m * c)
    OBVIOUS
  <2>3. c * l = r * u
    BY <1>1, <1>4, <2>2
  <2> QED BY <1>2, <2>1, <2>3, ProductNat DEF truncateToResolution
<1>6. r * (u + m) = r * u + l /\ \A d \in Nat : r * d \in Nat
  <2>1. r * (u + m) = r * u + r * m
    OBVIOUS
  <2> QED BY <1>1, <2>1, ProductNat
<1>7. r * u <= x /\ x < r * u + l <=>
        truncateToResolution(x, l) = truncateToResolution(y, l)
  BY <1>0, <1>5
<1>8. ASSUME r * u <= x, x < r * u + l PROVE r * a \in (r * u)..(r * u + l - 1)
  <2>1. u <= a
    <3> SUFFICES ASSUME a + 1 <= u PROVE FALSE
      OBVIOUS
    <3>1. PICK d \in Nat : u = (a + 1) + d
      <4>1. u - (a + 1) \in Nat /\ u = (a + 1) + (u - (a + 1))
        OBVIOUS
      <4> QED BY <4>1
    <3>2. r * ((a + 1) + d) = r * a + r + r * d
      OBVIOUS
    <3>3. r * d \in Nat
      BY <1>6
    <3> QED BY <1>3, <1>8, <3>1, <3>2, <3>3
  <2>2. PICK d \in Nat : a = u + d
    <3>1. a - u \in Nat /\ a = u + (a - u)
      BY <2>1
    <3> QED BY <3>1
  <2>3. r * (u + d) = r * u + r * d /\ r * d \in Nat
    BY <1>6
  <2> QED BY <1>3, <1>5, <1>8, <2>2, <2>3
<1>9. ASSUME r * a \in (r * u)..(r * u + l - 1) PROVE r * u <= x /\ x < r * u + l
  <2>1. r * u <= r * a /\ r * a < r * u + l
    BY <1>3, <1>5, <1>9
  <2>2. a + 1 <= u + m
    <3> SUFFICES ASSUME u + m <= a PROVE FALSE
      OBVIOUS
    <3>1. PICK d \in Nat : a = (u + m) + d
      <4>1. a - (u + m) \in Nat /\ a = (u + m) + (a - (u + m))
        OBVIOUS
      <4> QED BY <4>1
    <3>2. r * ((u + m) + d) = r * (u + m) + r * d
      OBVIOUS
    <3>3. r * d \in Nat
      BY <1>6
    <3> QED BY <1>3, <1>5, <1>6, <2>1, <3>1, <3>2, <3>3
  <2>3. PICK d \in Nat : u + m = (a + 1) + d
    <3>1. (u + m) - (a + 1) \in Nat /\ u + m = (a + 1) + ((u + m) - (a + 1))
      BY <2>2
    <3> QED BY <3>1
  <2>4. r * ((a + 1) + d) = r * a + r + r * d
    OBVIOUS
  <2>5. r * d \in Nat
    BY <1>6
  <2>6. r * a + r <= r * u + l
    BY <1>3, <1>5, <1>6, <2>3, <2>4, <2>5
  <2> QED BY <1>3, <1>5, <2>1, <2>6
<1> QED BY <1>5, <1>7, <1>8, <1>9

\* Of a quiet server that lost nothing, every trade taken up is counted, at every
\* resolution, as often as it was taken up.
LEMMA AllCounted ==
  ASSUME DeliveryInv, CandlesInv, Lossless, NEW t \in Trade, t[1] \in Landed,
         NEW r \in RESOLUTION_SECONDS
  PROVE  /\ Credit(t, r) = attempts[t[1]] /\ attempts[t[1]] \in Nat
         /\ attempts[t[1]] > 0 => /\ t \in Seen(Period(t, r))
                                  /\ Period(t, r) \in DOMAIN candles
<1>1. NoLoss /\ Credits /\ Clock
  BY DEF Lossless, NoLoss, CandlesInv
<1>2. Askers(t, r) = {}
  <2>1. \A w \in Worker : work[w].calls = <<>>
    BY DEF Lossless, Quiet, Idle
  <2>2. ToSet(<<>>) = {}
    BY DEF ToSet
  <2> QED BY <2>1, <2>2 DEF Askers
<1>3. attempts[t[1]] \in Nat
  BY <1>1 DEF Clock, Landed
<1>4. Credit(t, r) = attempts[t[1]]
  BY <1>2, <1>3, FS_EmptySet DEF Credit
<1>5. ASSUME attempts[t[1]] > 0
      PROVE  t \in Seen(Period(t, r)) /\ Period(t, r) \in DOMAIN candles
  <2>1. <<t[1], t[2], r>> \in counted
    BY <1>1, <1>4, <1>5 DEF Credits
  <2>2. Period(t, r)[2] = r
    BY DEF Period
  <2>3. t \in Seen(Period(t, r))
    BY <2>1, <2>2 DEF Seen
  <2> QED BY <2>3, SeenIsCredited
<1> QED BY <1>3, <1>4, <1>5

\* The trades of a candle are those of the shorter candles in its period.
LEMMA PartsShare ==
  ASSUME DeliveryInv, CandlesInv, Lossless, NEW key \in DOMAIN candles,
         NEW r \in RESOLUTION_SECONDS, key[2] % r = 0,
         NEW parts,
         parts = {k \in DOMAIN candles : /\ k[1] = key[1] /\ k[2] = r
                                         /\ k[3] \in key[3]..(key[3] + key[2] - 1)}
  PROVE  /\ key[2] \in RESOLUTION_SECONDS
         /\ \A t \in Trade : t[1] \in Landed /\ attempts[t[1]] > 0 =>
              (Period(t, key[2]) = key <=> Period(t, r) \in parts)
         /\ \A k \in parts : \A t \in Trade :
              t[1] \in Landed /\ Period(t, r) = k => Period(t, key[2]) = key
<1>1. Columns(key) /\ Clock
  BY DEF CandlesInv
<1>2. PICK x \in Trade, l \in RESOLUTION_SECONDS : x[1] \in Landed /\ key = Period(x, l)
  BY <1>1 DEF Columns
<1>3. /\ key[1] = Event(x).pool /\ key[2] = l
      /\ key[3] = truncateToResolution(blockTime[x[1]], l)
      /\ key = <<key[1], key[2], key[3]>>
  BY <1>2 DEF Period
<1>4. l \in Nat \ {0} /\ r \in Nat \ {0}
  BY IndexerAssumption
<1>5. \A n \in Landed : blockTime[n] \in Nat
  <2>1. MaxTime \in Nat
    BY IndexerAssumption
  <2> QED BY <1>1, <2>1 DEF Clock, Landed
<1>6. ASSUME NEW t \in Trade, t[1] \in Landed
      PROVE  Period(t, l) = key <=>
               /\ Event(t).pool = key[1]
               /\ truncateToResolution(blockTime[t[1]], r) \in key[3]..(key[3] + key[2] - 1)
  <2>1. PICK a \in Nat, b \in Nat : a = blockTime[t[1]] /\ b = blockTime[x[1]]
    BY <1>2, <1>5, <1>6
  <2>2. truncateToResolution(a, l) = truncateToResolution(b, l) <=>
           truncateToResolution(a, r) \in
             truncateToResolution(b, l)..(truncateToResolution(b, l) + l - 1)
    BY <1>3, <1>4, Nested
  <2>3. Period(t, l) = key <=> Event(t).pool = key[1]
                               /\ truncateToResolution(a, l) = truncateToResolution(b, l)
    BY <1>3, <2>1 DEF Period
  <2> QED BY <1>3, <2>1, <2>2, <2>3
<1>7. ASSUME NEW t \in Trade, t[1] \in Landed, attempts[t[1]] > 0
      PROVE  Period(t, r) \in DOMAIN candles
  BY <1>7, AllCounted
<1>8. \A t : /\ Period(t, r)[1] = Event(t).pool /\ Period(t, r)[2] = r
             /\ Period(t, r)[3] = truncateToResolution(blockTime[t[1]], r)
  BY DEF Period
<1>9. ASSUME NEW t \in Trade, t[1] \in Landed, attempts[t[1]] > 0
      PROVE  Period(t, l) = key <=> Period(t, r) \in parts
  <2>1. PICK k : k = Period(t, r)
    OBVIOUS
  <2>2. /\ k \in DOMAIN candles /\ k[1] = Event(t).pool /\ k[2] = r
        /\ k[3] = truncateToResolution(blockTime[t[1]], r)
    BY <1>7, <1>8, <1>9, <2>1
  <2>3. k \in parts <=> k[1] = key[1] /\ k[3] \in key[3]..(key[3] + key[2] - 1)
    BY <2>2
  <2>4. Period(t, l) = key <=> k[1] = key[1] /\ k[3] \in key[3]..(key[3] + key[2] - 1)
    BY <1>6, <1>9, <2>2
  <2> QED BY <2>1, <2>3, <2>4
<1>10. ASSUME NEW k \in parts, NEW t \in Trade, t[1] \in Landed, Period(t, r) = k
       PROVE  Period(t, l) = key
  BY <1>6, <1>8, <1>10
<1> QED BY <1>2, <1>3, <1>9, <1>10

\* Totals of a period are those of its parts, part by part.
LEMMA ResolutionsFollow == DeliveryInv /\ CandlesInv => ResolutionsAgree
<1> SUFFICES ASSUME DeliveryInv, CandlesInv, Lossless, NEW key \in DOMAIN candles,
                    NEW r \in RESOLUTION_SECONDS, key[2] % r = 0
             PROVE  LET parts == {k \in DOMAIN candles :
                                    /\ k[1] = key[1] /\ k[2] = r
                                    /\ k[3] \in key[3]..(key[3] + key[2] - 1)}
                        Of(field) == [k \in parts |-> candles[k][field]]
                    IN /\ candles[key].volume = SumFunction(Of("volume"))
                       /\ candles[key].tradeCount = SumFunction(Of("tradeCount"))
                       /\ candles[key].high = Max({candles[k].high : k \in parts})
                       /\ candles[key].low = Min({candles[k].low : k \in parts})
  BY DEF ResolutionsAgree
<1>1. PICK parts : parts = {k \in DOMAIN candles : /\ k[1] = key[1] /\ k[2] = r
                                                   /\ k[3] \in key[3]..(key[3] + key[2] - 1)}
  OBVIOUS
<1>2. /\ key[2] \in RESOLUTION_SECONDS
      /\ \A t \in Trade : t[1] \in Landed /\ attempts[t[1]] > 0 =>
           (Period(t, key[2]) = key <=> Period(t, r) \in parts)
      /\ \A k \in parts : \A t \in Trade :
           t[1] \in Landed /\ Period(t, r) = k => Period(t, key[2]) = key
  BY <1>1, PartsShare
<1>3. /\ NoLoss /\ Credits /\ parts \subseteq DOMAIN candles
      /\ \A k \in DOMAIN candles : Columns(k) /\ RowOK(candles[k])
      /\ \A k \in parts : k[2] = r
  BY <1>1 DEF Lossless, NoLoss, CandlesInv, Columns
<1>4. ASSUME NEW t \in Trade, t[1] \in Landed, NEW s \in RESOLUTION_SECONDS
      PROVE  /\ Credit(t, s) = attempts[t[1]] /\ attempts[t[1]] \in Nat
             /\ attempts[t[1]] > 0 => t \in Seen(Period(t, s))
  BY <1>4, AllCounted
<1> DEFINE place == [t \in Trade |-> Period(t, r)]
<1>5. IsFiniteSet(parts)
  <2>1. parts \subseteq {place[t] : t \in Trade}
    <3> SUFFICES ASSUME NEW k \in parts PROVE \E t \in Trade : k = place[t]
      OBVIOUS
    <3>1. PICK t \in Trade, s \in RESOLUTION_SECONDS : k = Period(t, s)
      BY <1>3 DEF Columns
    <3>2. s = r
      BY <1>3, <3>1 DEF Period
    <3> QED BY <3>1, <3>2
  <2>2. IsFiniteSet({place[t] : t \in Trade})
    <3>1. place = [t \in Trade |-> place[t]]
      OBVIOUS
    <3> HIDE DEF place
    <3> QED BY <3>1, TradesFinite, ImageFinite
  <2> QED BY <2>1, <2>2, FS_Subset
<1>6. /\ Share(key) \in [Trade -> Nat] /\ Weight(key) \in [Trade -> Nat]
  BY <1>2, <1>3, SharesTyped
<1>7. ASSUME NEW t \in Trade, Share(key)[t] # 0 PROVE place[t] \in parts
  <2>1. t[1] \in Landed /\ Period(t, key[2]) = key /\ Share(key)[t] = Credit(t, key[2])
    BY <1>7 DEF Share
  <2>2. attempts[t[1]] \in Nat /\ attempts[t[1]] # 0
    BY <1>2, <1>4, <1>7, <2>1
  <2> QED BY <1>2, <2>1, <2>2
<1>8. ASSUME NEW t \in Trade, Weight(key)[t] # 0 PROVE place[t] \in parts
  <2>1. Weight(key)[t] = Share(key)[t] * Volume(Event(t)) /\ Volume(Event(t)) \in Nat
    BY TradeFacts DEF Weight
  <2>2. \A v \in Nat : 0 * v = 0
    OBVIOUS
  <2>3. Share(key)[t] # 0
    BY <1>8, <2>1, <2>2
  <2> QED BY <1>7, <2>3
<1>9. ASSUME NEW k \in parts, NEW t \in Trade
      PROVE  /\ Share(k)[t] = (IF place[t] = k THEN Share(key)[t] ELSE 0)
             /\ Weight(k)[t] = (IF place[t] = k THEN Weight(key)[t] ELSE 0)
  <2>1. k[2] = r
    BY <1>3
  <2>2. Share(k)[t] = (IF place[t] = k THEN Share(key)[t] ELSE 0)
    <3>1. CASE t[1] \in Landed /\ Period(t, r) = k
      <4>1. Period(t, key[2]) = key
        BY <1>2, <3>1
      <4>2. Share(k)[t] = Credit(t, r) /\ Share(key)[t] = Credit(t, key[2])
        BY <2>1, <3>1, <4>1 DEF Share
      <4>3. Credit(t, r) = Credit(t, key[2])
        BY <1>2, <1>4, <3>1
      <4> QED BY <3>1, <4>2, <4>3
    <3>2. CASE ~(t[1] \in Landed /\ Period(t, r) = k)
      BY <2>1, <3>2 DEF Share
    <3> QED BY <3>1, <3>2
  <2>3. Weight(k)[t] = Share(k)[t] * Volume(Event(t)) /\ Weight(key)[t] = Share(key)[t] * Volume(Event(t))
    BY DEF Weight
  <2>4. PICK v \in Nat : v = Volume(Event(t))
    BY TradeFacts
  <2>5. 0 * v = 0
    OBVIOUS
  <2> HIDE DEF place
  <2> QED BY <2>2, <2>3, <2>4, <2>5
<1>10. ASSUME NEW k \in parts
       PROVE  /\ Share(k) = [t \in Trade |-> IF place[t] = k THEN Share(key)[t] ELSE 0]
              /\ Weight(k) = [t \in Trade |-> IF place[t] = k THEN Weight(key)[t] ELSE 0]
  <2>1. Share(k) = [t \in Trade |-> Share(k)[t]] /\ Weight(k) = [t \in Trade |-> Weight(k)[t]]
    BY DEF Share, Weight
  <2> HIDE DEF place
  <2> QED BY <1>9, <2>1
<1>11. \A k \in DOMAIN candles : /\ candles[k].tradeCount = SumFunction(Share(k))
                                 /\ candles[k].volume = SumFunction(Weight(k))
                                 /\ candles[k].tradeCount \in Nat /\ candles[k].volume \in Nat
                                 /\ candles[k].high \in Nat /\ candles[k].low \in Nat
  BY <1>3 DEF Columns, RowOK
<1>12. PICK f \in [Trade -> Nat], g \in [Trade -> Nat] : f = Share(key) /\ g = Weight(key)
  BY <1>6
<1>13. PICK of : of = place
  OBVIOUS
<1>14. SumFunction(f) = SumFunction([k \in parts |-> candles[k].tradeCount])
  <2>1. PICK c \in [parts -> Nat] : c = [k \in parts |-> candles[k].tradeCount]
    BY <1>3, <1>11
  <2>2. \A k \in parts : c[k] = SumFunction([t \in Trade |-> IF of[t] = k THEN f[t] ELSE 0])
    BY <1>3, <1>10, <1>11, <1>12, <1>13, <2>1
  <2>3. \A t \in Trade : f[t] # 0 => of[t] \in parts
    BY <1>7, <1>12, <1>13
  <2>4. SumFunction(f) = SumFunction(c)
    <3> HIDE DEF place
    <3> QED BY <1>5, <2>2, <2>3, TradesFinite, SumByParts, SMTT(60)
  <2> QED BY <2>1, <2>4
<1>15. SumFunction(g) = SumFunction([k \in parts |-> candles[k].volume])
  <2>1. PICK c \in [parts -> Nat] : c = [k \in parts |-> candles[k].volume]
    BY <1>3, <1>11
  <2>2. \A k \in parts : c[k] = SumFunction([t \in Trade |-> IF of[t] = k THEN g[t] ELSE 0])
    BY <1>3, <1>10, <1>11, <1>12, <1>13, <2>1
  <2>3. \A t \in Trade : g[t] # 0 => of[t] \in parts
    BY <1>8, <1>12, <1>13
  <2>4. SumFunction(g) = SumFunction(c)
    <3> HIDE DEF place
    <3> QED BY <1>5, <2>2, <2>3, TradesFinite, SumByParts
  <2> QED BY <2>1, <2>4
<1> HIDE DEF place
<1>16. ASSUME NEW k \in DOMAIN candles, NEW p \in PricesIn(Seen(k))
       PROVE  p \in Nat /\ candles[k].low <= p /\ p <= candles[k].high
  <2>1. p \in Nat
    BY TradeFacts DEF PricesIn, Seen, Event
  <2> QED BY <1>3, <2>1 DEF Columns
<1>17. ASSUME NEW p \in PricesIn(Seen(key)) PROVE \E k \in parts : p \in PricesIn(Seen(k))
  <2>1. PICK t \in Seen(key) : p = derivePrice(Event(t))
    BY <1>17 DEF PricesIn, Event
  <2>2. t \in Trade /\ t[1] \in Landed /\ Period(t, key[2]) = key /\ Credit(t, key[2]) > 0
    BY SeenIsCredited
  <2>3. attempts[t[1]] > 0
    BY <1>2, <1>4, <2>2
  <2>4. Period(t, r) \in parts /\ t \in Seen(Period(t, r))
    BY <1>2, <1>4, <2>2, <2>3
  <2>5. p \in PricesIn(Seen(Period(t, r)))
    BY <2>1, <2>4 DEF PricesIn, Event
  <2> QED BY <2>4, <2>5
<1>18. ASSUME NEW k \in parts, NEW p \in PricesIn(Seen(k)) PROVE p \in PricesIn(Seen(key))
  <2>1. PICK t \in Seen(k) : p = derivePrice(Event(t))
    BY <1>18 DEF PricesIn, Event
  <2>2. t \in Trade /\ t[1] \in Landed /\ Period(t, r) = k /\ Credit(t, r) > 0
    BY <1>3, SeenIsCredited
  <2>3. attempts[t[1]] > 0 /\ Period(t, key[2]) = key
    BY <1>2, <1>4, <2>2
  <2>4. t \in Seen(key)
    BY <1>2, <1>4, <2>2, <2>3
  <2> QED BY <2>1, <2>4 DEF PricesIn, Event
<1>19. \A k \in DOMAIN candles : candles[k].high \in PricesIn(Seen(k)) /\ candles[k].low \in PricesIn(Seen(k))
  BY <1>3 DEF Columns
<1>20. candles[key].high = Max({candles[k].high : k \in parts})
  <2>1. PICK T, m : T = {candles[k].high : k \in parts} /\ m = candles[key].high
    OBVIOUS
  <2>2. \A x \in T : x \in Nat /\ x <= m
    BY <1>3, <1>11, <1>16, <1>18, <1>19, <2>1
  <2>3. PICK k \in parts : m \in PricesIn(Seen(k))
    BY <1>17, <1>19, <2>1
  <2>4. m <= candles[k].high /\ m \in Nat /\ candles[k].high \in T
    BY <1>3, <1>16, <2>1, <2>3
  <2>5. candles[k].high = m
    BY <2>2, <2>4
  <2>6. T \in SUBSET Int /\ m \in T
    BY <2>2, <2>4, <2>5
  <2>7. Max(T) = m
    BY <2>2, <2>6, MaxIs
  <2> QED BY <2>1, <2>7
<1>21. candles[key].low = Min({candles[k].low : k \in parts})
  <2>1. PICK T, m : T = {candles[k].low : k \in parts} /\ m = candles[key].low
    OBVIOUS
  <2>2. \A x \in T : x \in Nat /\ m <= x
    BY <1>3, <1>11, <1>16, <1>18, <1>19, <2>1
  <2>3. PICK k \in parts : m \in PricesIn(Seen(k))
    BY <1>17, <1>19, <2>1
  <2>4. candles[k].low <= m /\ m \in Nat /\ candles[k].low \in T
    BY <1>3, <1>16, <2>1, <2>3
  <2>5. candles[k].low = m
    BY <2>2, <2>4
  <2>6. T \in SUBSET Int /\ m \in T
    BY <2>2, <2>4, <2>5
  <2>7. Min(T) = m
    BY <2>2, <2>6, MinIs
  <2> QED BY <2>1, <2>7
<1> QED BY <1>1, <1>11, <1>12, <1>14, <1>15, <1>20, <1>21

\* db/candle-aggregator.ts: in whatever order and however often transactions are
\* delivered, requests are killed and database calls fail, candles have the highs and
\* lows of the trades they count, count none oftener than it was taken up, and agree
\* with those of every other resolution if nothing was lost.
THEOREM CandlesAlwaysTrackTrades == IndexerSpec => []IndexerInv
<1>1. IndexerInit => DeliveryInv /\ CandlesInv
  BY DeliveryInit, CandlesInit
<1>2. (DeliveryInv /\ CandlesInv) /\ [IndexerNext]_indexerVars => (DeliveryInv /\ CandlesInv)'
  BY DeliveryStep, CandlesStep
<1>3. DeliveryInv /\ CandlesInv => IndexerInv
  BY TypesFollow, HighLowFollow, CountsFollow, ResolutionsFollow DEF IndexerInv
<1> QED BY <1>1, <1>2, <1>3, PTL DEF IndexerSpec
================================================================================
