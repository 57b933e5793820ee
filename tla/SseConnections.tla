----------------------------- MODULE SseConnections -----------------------------
(***************************************************************************)
(* The slots of the server's event streams (lib/sse-connections.ts) and    *)
(* the two routes that take them (app/api/sse/protocol/route.ts and        *)
(* app/api/sse/candles/route.ts).  A stream holds a slot of its address    *)
(* and of the server; it gives it back when it ends, or after five minutes *)
(* (the proxy does not always forward a client's disconnection), in which  *)
(* case it streams on.  A refused client asks again.                       *)
(*                                                                         *)
(* A definition named X_Something, just before X, is X with a mistake the  *)
(* properties are meant to catch; nothing uses it.                         *)
(***************************************************************************)
EXTENDS Integers, FiniteSets

CONSTANTS
  Ip,          \* addresses of clients
  Stream,      \* streams the clients may have at a time
  clientIp,    \* the address a stream is requested from
  MAX_PER_IP,
  MAX_GLOBAL,
  MaxResets    \* bound of the model: resets by the operator

ASSUME SseAssumption ==
  /\ IsFiniteSet(Stream)
  /\ clientIp \in [Stream -> Ip]
  /\ MAX_PER_IP \in Nat \ {0}
  /\ MAX_GLOBAL \in Nat \ {0}
  /\ MaxResets \in Nat

VARIABLES
  connections,  \* slots in use, by address
  globalCount,  \* slots in use
  stream,       \* of a stream: "none", "open", or "ghost" when its client left unnoticed
  timer,        \* streams whose auto-release is yet to fire
  resets

sseVars == <<connections, globalCount, stream, timer, resets>>

--------------------------------------------------------------------------------
(* lib/sse-connections.ts *)

acquirable(ip) == globalCount < MAX_GLOBAL /\ connections[ip] < MAX_PER_IP

acquireConnection(ip) ==
  /\ connections' = [connections EXCEPT ![ip] = @ + 1]
  /\ globalCount' = globalCount + 1

Floored(n) == IF n > 0 THEN n ELSE 0

releaseConnections_NoFloor(ip, n) ==
  /\ connections' = [connections EXCEPT ![ip] = @ - n]
  /\ globalCount' = globalCount - n

\* n calls of releaseConnection.
releaseConnections(ip, n) ==
  /\ connections' = [connections EXCEPT ![ip] = Floored(@ - n)]
  /\ globalCount' = Floored(globalCount - n)

--------------------------------------------------------------------------------
(* The routes. *)

\* A stream is admitted and its auto-release scheduled.
GET(s) ==
  /\ stream[s] = "none"
  /\ acquirable(clientIp[s])
  /\ acquireConnection(clientIp[s])
  /\ stream' = [stream EXCEPT ![s] = "open"]
  /\ timer' = timer \union {s}
  /\ UNCHANGED resets

\* The client leaves, and the server is not told, or not yet.
Leave(s) ==
  /\ stream[s] = "open"
  /\ stream' = [stream EXCEPT ![s] = "ghost"]
  /\ UNCHANGED <<connections, globalCount, timer, resets>>

release_TimerOnly(s) ==
  /\ stream[s] # "none"
  /\ UNCHANGED <<connections, globalCount, resets>>
  /\ timer' = timer \ {s}
  /\ stream' = [stream EXCEPT ![s] = "none"]

\* abort or cancel, whichever is first: the slot is released.
release(s) ==
  /\ stream[s] # "none"
  /\ releaseConnections(clientIp[s], 1)
  /\ timer' = timer \ {s}
  /\ stream' = [stream EXCEPT ![s] = "none"]
  /\ UNCHANGED resets

\* scheduleAutoRelease: the timer fires; the stream is not closed.  The end of a
\* ghost may be noticed later, or never.
AutoRelease(s) ==
  /\ s \in timer
  /\ releaseConnections(clientIp[s], 1)
  /\ timer' = timer \ {s}
  /\ \/ UNCHANGED stream
     \/ stream[s] = "ghost" /\ stream' = [stream EXCEPT ![s] = "none"]
  /\ UNCHANGED resets

\* app/api/debug/sse-reset: the operator flushes the slots of an address.
Reset(ip) ==
  /\ resets < MaxResets
  /\ releaseConnections(ip, connections[ip])
  /\ resets' = resets + 1
  /\ UNCHANGED <<stream, timer>>

--------------------------------------------------------------------------------
SseInit ==
  /\ connections = [ip \in Ip |-> 0]
  /\ globalCount = 0
  /\ stream = [s \in Stream |-> "none"]
  /\ timer = {}
  /\ resets = 0

SseNext ==
  \/ \E s \in Stream : GET(s) \/ Leave(s) \/ release(s) \/ AutoRelease(s)
  \/ \E ip \in Ip : Reset(ip)

SseSpec == SseInit /\ [][SseNext]_sseVars

--------------------------------------------------------------------------------
(* Properties. *)

Holders(ip) == {s \in timer : clientIp[s] = ip}

SseTypeOK ==
  /\ connections \in [Ip -> 0..MAX_PER_IP]
  /\ globalCount \in 0..MAX_GLOBAL
  /\ stream \in [Stream -> {"none", "open", "ghost"}]
  /\ timer \subseteq {s \in Stream : stream[s] # "none"}
  /\ resets \in 0..MaxResets

\* No slot is in use without a stream that will give it back, however abort,
\* timer and reset interleave: neither an address nor the server is closed to
\* clients by streams that are over.
NoSlotLeaks ==
  /\ \A ip \in Ip : connections[ip] <= Cardinality(Holders(ip))
  /\ globalCount <= Cardinality(timer)

\* The counts: typed, and without leaks.
SlotsInv == SseTypeOK /\ NoSlotLeaks
================================================================================
