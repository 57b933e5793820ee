------------------------------- MODULE LiveState -------------------------------
(***************************************************************************)
(* The live protocol state of the web application: accounts on the chain,  *)
(* the server's in-memory store of them (lib/protocol-store.ts), fed by a  *)
(* seed, WebSocket subscriptions, a poll (lib/ws-subscriber.ts) and the    *)
(* enhanced webhook (app/api/webhooks/helius/route.ts), and the browser    *)
(* tabs that follow it over one stream each                                *)
(* (app/api/sse/protocol/route.ts, providers/ProtocolStateProvider.tsx).   *)
(*                                                                         *)
(* An account's content is the slot of its last change.  Subscriptions     *)
(* deliver in order until they drop, webhooks in any order and more than   *)
(* once, polls as of when they were asked.  The server runs with its       *)
(* subscriber enabled.  Left out: slot, supply and staker figures (they    *)
(* reach a tab as accounts do; the slot is what keeps the stream of a      *)
(* seeded server from looking silent), decoding errors, rate limits, the   *)
(* streams' slots (module SseConnections), and posts without a slot, which *)
(* would pass the watermark and leave it alone: Helius sends none.         *)
(*                                                                         *)
(* A definition named X_Something, just before X, is X with a mistake the  *)
(* properties are meant to catch; nothing uses it.                         *)
(***************************************************************************)
EXTENDS Integers, Sequences

CONSTANTS
  Account,        \* accounts decoded with Anchor
  SystemAccount,  \* accounts of which the lamports are kept: the Carnage vault
  Tab             \* browser tabs

\* Bounds of the model: changes on the chain; mishaps, which are lost streams
\* and subscriptions, failed calls, replayed webhooks and deaths of the server;
\* times a user hides a tab.
CONSTANTS MaxSlot, MaxFailures, MaxHides

ASSUME LiveAssumption ==
  /\ Account \intersect SystemAccount = {}
  /\ {MaxSlot, MaxFailures, MaxHides} \subseteq Nat

Monitored == Account \union SystemAccount

None   == -1  \* no state
Polled == -2  \* a tab's undecoded metadata from its own poll
Delta  == -3  \* a balance change in the place of a balance

Slots  == 0..MaxSlot
States == [Monitored -> Slots \union {None, Polled, Delta}]

VARIABLES
  slot,       \* the chain's latest change
  chain,      \* of an account: the slot of its last change
  phase,      \* of the server
  store,      \* protocolStore: accounts
  baseline,   \* protocolStore: lastSerialized
  watermark,  \* protocolStore: lastSlots
  ws,         \* subscriptions: whether they are up, and what they have yet to deliver
  poll,       \* the answer to the server's poll, or an empty set
  posts,      \* webhooks under way: <<account, slot>>
  tab,        \* the tabs
  seeded,     \* what the server read at its start; for the properties
  mishaps, hides

chainVars  == <<slot, chain>>
storeVars  == <<store, baseline, watermark>>
serverVars == <<phase, storeVars, ws, poll, seeded>>
liveVars   == <<chainVars, serverVars, posts, tab, mishaps, hides>>

Nothing == [a \in Monitored |-> None]
NoFeed  == [a \in Monitored |-> <<>>]
NoWs    == [up |-> FALSE, feed |-> NoFeed]

\* stream: of the tab's EventSource; feed: events sent on it and not received;
\* view: accounts; polling: pollingIntervalRef; asked: its poll is under way.
NewTab == [visible |-> TRUE, stream |-> "waiting", feed |-> <<>>, view |-> Nothing,
           polling |-> FALSE, asked |-> FALSE]

Subscribed == phase = "subscribed"
Serving    == phase \in {"subscribed", "degraded"}

Mishap == mishaps < MaxFailures /\ mishaps' = mishaps + 1

--------------------------------------------------------------------------------
(* The store. *)

\* setAccountState for an account at a time: stored, and sent to every open
\* stream unless it is what was sent last.
Set_NoBaseline(states) ==
  LET changed == {a \in DOMAIN states : states[a] # baseline[a]}
  IN /\ store' = [a \in Monitored |-> IF a \in DOMAIN states THEN states[a] ELSE store[a]]
     /\ baseline' = baseline
     /\ tab' = [t \in Tab |->
                  IF tab[t].stream = "open" /\ changed # {}
                  THEN [tab[t] EXCEPT !.feed = Append(@, [a \in changed |-> states[a]])]
                  ELSE tab[t]]

Set(states) ==
  LET changed == {a \in DOMAIN states : states[a] # baseline[a]}
  IN /\ store' = [a \in Monitored |-> IF a \in DOMAIN states THEN states[a] ELSE store[a]]
     /\ baseline' = store'
     /\ tab' = [t \in Tab |->
                  IF tab[t].stream = "open" /\ changed # {}
                  THEN [tab[t] EXCEPT !.feed = Append(@, [a \in changed |-> states[a]])]
                  ELSE tab[t]]

--------------------------------------------------------------------------------
(* The chain. *)

Change(a) ==
  /\ slot < MaxSlot
  /\ slot' = slot + 1
  /\ chain' = [chain EXCEPT ![a] = slot + 1]
  /\ ws' = IF ws.up THEN [ws EXCEPT !.feed[a] = Append(@, slot + 1)] ELSE ws
  /\ posts' = posts \union {<<a, slot + 1>>}
  /\ UNCHANGED <<phase, storeVars, poll, seeded, tab, mishaps, hides>>

--------------------------------------------------------------------------------
(* The server's start, and its death. *)

\* batchSeed: the accounts first, without a broadcast, ...
SeedAccounts ==
  /\ phase = "down"
  /\ store' = chain
  /\ baseline' = chain
  /\ seeded' = chain
  /\ phase' = "seeding"
  /\ UNCHANGED <<chainVars, watermark, ws, poll, posts, tab, mishaps, hides>>

SeedSlot_NoWatermark ==
  /\ phase = "seeding"
  /\ phase' = "seeded"
  /\ UNCHANGED <<chainVars, storeVars, ws, poll, seeded, posts, tab, mishaps, hides>>

\* ... then the slot, which becomes the watermark of them all, ...
SeedSlot ==
  /\ phase = "seeding"
  /\ watermark' = [a \in Monitored |-> slot]
  /\ phase' = "seeded"
  /\ UNCHANGED <<chainVars, store, baseline, ws, poll, seeded, posts, tab, mishaps, hides>>

\* ... then the subscriptions and timers; requests are served from here on.
Subscribe ==
  /\ phase = "seeded"
  /\ phase' = "subscribed"
  /\ ws' = [NoWs EXCEPT !.up = TRUE]
  /\ UNCHANGED <<chainVars, storeVars, poll, seeded, posts, tab, mishaps, hides>>

\* instrumentation.ts: a call of the seed fails, and the server serves without.
SeedFails ==
  /\ Mishap
  /\ phase \in {"down", "seeding", "seeded"}
  /\ phase' = "degraded"
  /\ UNCHANGED <<chainVars, storeVars, ws, poll, seeded, posts, tab, hides>>

Waiting_KeepsFeed(t) == [t EXCEPT !.stream = IF @ = "open" THEN "waiting" ELSE @]

\* Streams that end make their tabs wait to reconnect (onerror).
Waiting(t) == [t EXCEPT !.stream = IF @ = "open" THEN "waiting" ELSE @, !.feed = <<>>]

Crash ==
  /\ Mishap
  /\ Serving
  /\ phase' = "down"
  /\ store' = Nothing
  /\ baseline' = Nothing
  /\ watermark' = [a \in Monitored |-> 0]
  /\ seeded' = Nothing
  /\ ws' = NoWs
  /\ poll' = {}
  /\ tab' = [t \in Tab |-> Waiting(tab[t])]
  /\ UNCHANGED <<chainVars, posts, hides>>

--------------------------------------------------------------------------------
(* What feeds the store. *)

\* onAccountChange.
HandleChange(a) ==
  /\ ws.feed[a] # <<>>
  /\ Set([b \in {a} |-> Head(ws.feed[a])])
  /\ ws' = [ws EXCEPT !.feed[a] = Tail(@)]
  /\ UNCHANGED <<chainVars, phase, watermark, poll, seeded, posts, mishaps, hides>>

\* The socket drops with what it had to deliver; web3.js opens it again.
DropWs ==
  /\ Mishap
  /\ ws.up
  /\ ws' = NoWs
  /\ UNCHANGED <<chainVars, phase, storeVars, poll, seeded, posts, tab, hides>>

ReopenWs ==
  /\ Subscribed
  /\ ~ws.up
  /\ ws' = [ws EXCEPT !.up = TRUE]
  /\ UNCHANGED <<chainVars, phase, storeVars, poll, seeded, posts, tab, mishaps, hides>>

\* pollAccounts, on its timer: asked ...
PollAccounts ==
  /\ Subscribed
  /\ poll = {}
  /\ poll' = {chain}
  /\ UNCHANGED <<chainVars, phase, storeVars, ws, seeded, posts, tab, mishaps, hides>>

\* ... and answered, or failed.
PollAnswered ==
  /\ \E states \in poll : Set(states)
  /\ poll' = {}
  /\ UNCHANGED <<chainVars, phase, watermark, ws, seeded, posts, mishaps, hides>>

PollFails ==
  /\ Mishap
  /\ poll # {}
  /\ poll' = {}
  /\ UNCHANGED <<chainVars, phase, storeVars, ws, seeded, posts, tab, hides>>

\* handleAccountChanges: one older than the last accepted is a replay.
handleAccountChanges(p) ==
  /\ Serving
  /\ p \in posts
  /\ IF p[2] < watermark[p[1]] THEN UNCHANGED <<storeVars, tab>>
     ELSE /\ Set([a \in {p[1]} |-> IF a \in SystemAccount THEN Delta ELSE p[2]])
          /\ watermark' = [watermark EXCEPT ![p[1]] = p[2]]
  /\ \/ posts' = posts \ {p} /\ UNCHANGED mishaps
     \/ Mishap /\ UNCHANGED posts  \* it will be delivered again
  /\ UNCHANGED <<chainVars, phase, ws, poll, seeded, hides>>

--------------------------------------------------------------------------------
(* A tab. *)

Connect_Late(t) ==
  /\ tab[t].visible
  /\ tab[t].stream = "waiting"
  /\ Serving
  /\ tab' = [tab EXCEPT ![t].stream = "open"]
  /\ UNCHANGED <<chainVars, serverVars, posts, mishaps, hides>>

\* connect, and the stream's start: a snapshot, and updates from here on.
Connect(t) ==
  /\ tab[t].visible
  /\ tab[t].stream = "waiting"
  /\ Serving
  /\ tab' = [tab EXCEPT ![t].stream = "open", ![t].feed = <<store>>]
  /\ UNCHANGED <<chainVars, serverVars, posts, mishaps, hides>>

Merged(view, states) == [a \in Monitored |-> IF a \in DOMAIN states THEN states[a] ELSE view[a]]

\* initial-state, protocol-update; either stops the polling.
Receive(t) ==
  /\ tab[t].feed # <<>>
  /\ tab' = [tab EXCEPT ![t].feed = Tail(@),
                        ![t].view = Merged(@, Head(tab[t].feed)),
                        ![t].polling = FALSE]
  /\ UNCHANGED <<chainVars, serverVars, posts, mishaps, hides>>

\* The stream breaks.
DropStream(t) ==
  /\ Mishap
  /\ tab[t].stream = "open"
  /\ tab' = [tab EXCEPT ![t] = Waiting(@)]
  /\ UNCHANGED <<chainVars, serverVars, posts, hides>>

\* checkInterval: after thirty silent seconds the tab polls the chain itself.
StartPolling(t) ==
  /\ ~tab[t].polling
  /\ tab[t].stream # "open" \/ ~Subscribed
  /\ tab' = [tab EXCEPT ![t].polling = TRUE]
  /\ UNCHANGED <<chainVars, serverVars, posts, mishaps, hides>>

\* pollViaRpc: asked ...
AskRpc(t) ==
  /\ tab[t].polling
  /\ ~tab[t].asked
  /\ tab' = [tab EXCEPT ![t].asked = TRUE]
  /\ UNCHANGED <<chainVars, serverVars, posts, mishaps, hides>>

\* ... and answered: it leaves alone what a stream has brought.
RpcAnswered(t) ==
  /\ tab[t].asked
  /\ tab' = [tab EXCEPT ![t].asked = FALSE,
                        ![t].view = [a \in Monitored |-> IF @[a] = None THEN Polled ELSE @[a]]]
  /\ UNCHANGED <<chainVars, serverVars, posts, mishaps, hides>>

RpcFails(t) ==
  /\ Mishap
  /\ tab[t].asked
  /\ tab' = [tab EXCEPT ![t].asked = FALSE]
  /\ UNCHANGED <<chainVars, serverVars, posts, hides>>

Hide(t) ==
  /\ hides < MaxHides
  /\ tab[t].visible
  /\ tab' = [tab EXCEPT ![t].visible = FALSE, ![t].stream = "none", ![t].feed = <<>>,
                        ![t].polling = FALSE]
  /\ hides' = hides + 1
  /\ UNCHANGED <<chainVars, serverVars, posts, mishaps>>

Show(t) ==
  /\ ~tab[t].visible
  /\ tab' = [tab EXCEPT ![t].visible = TRUE, ![t].stream = "waiting"]
  /\ UNCHANGED <<chainVars, serverVars, posts, mishaps, hides>>

--------------------------------------------------------------------------------
LiveInit ==
  /\ slot = 0
  /\ chain = [a \in Monitored |-> 0]
  /\ phase = "down"
  /\ store = Nothing
  /\ baseline = Nothing
  /\ watermark = [a \in Monitored |-> 0]
  /\ seeded = Nothing
  /\ ws = NoWs
  /\ poll = {}
  /\ posts = {}
  /\ tab = [t \in Tab |-> NewTab]
  /\ mishaps = 0
  /\ hides = 0

Start == SeedAccounts \/ SeedSlot \/ Subscribe

Follow(t) == Connect(t) \/ Receive(t)

LiveNext ==
  \/ \E a \in Monitored : Change(a) \/ HandleChange(a)
  \/ Start
  \/ SeedFails
  \/ Crash
  \/ DropWs
  \/ ReopenWs
  \/ PollAccounts
  \/ PollAnswered
  \/ PollFails
  \/ \E p \in posts : handleAccountChanges(p)
  \/ \E t \in Tab : \/ Follow(t)
                    \/ DropStream(t)
                    \/ StartPolling(t)
                    \/ AskRpc(t)
                    \/ RpcAnswered(t)
                    \/ RpcFails(t)
                    \/ Hide(t)
                    \/ Show(t)

LiveSpec == LiveInit /\ [][LiveNext]_liveVars

--------------------------------------------------------------------------------
(* Properties. *)

LiveTypeOK ==
  /\ slot \in Slots
  /\ chain \in [Monitored -> Slots]
  /\ phase \in {"down", "seeding", "seeded", "subscribed", "degraded"}
  /\ {store, baseline, seeded} \subseteq States
  /\ watermark \in [Monitored -> Slots]
  /\ ws.up \in BOOLEAN
  /\ \A a \in Monitored : ws.feed[a] \in Seq(Slots)
  /\ poll \subseteq [Monitored -> Slots]
  /\ posts \subseteq Monitored \X Slots
  /\ \A t \in Tab : /\ tab[t].view \in States
                    /\ tab[t].stream \in {"none", "waiting", "open"}
                    /\ tab[t].feed # <<>> => tab[t].stream = "open"

\* What a tab shows of an account once it has received what was sent to it: what
\* the last event that speaks of it says.
Brought(feed, a) == {i \in DOMAIN feed : a \in DOMAIN feed[i]}
Shown(view, feed, a) ==
  IF Brought(feed, a) = {} THEN view[a]
  ELSE feed[CHOOSE i \in Brought(feed, a) : \A j \in Brought(feed, a) : j <= i][a]

\* protocolStore's deduplication and the stream's snapshot: a tab that has
\* received all that was sent on its stream shows the store, whatever the
\* order of seed, updates, polls and reconnections; of an account the store
\* does not have, at most what the tab's own poll said of it.
StreamsCarryTheStore ==
  \A t \in Tab : tab[t].stream = "open" =>
    \A a \in Monitored :
      LET shown == Shown(tab[t].view, tab[t].feed, a)
      IN shown = store[a] \/ (shown = Polled /\ store[a] = None)

\* The slot watermark, seeded at the start: no replay of a webhook takes a
\* decoded account back before what the server read at its start.
NothingBeforeTheSeed ==
  Subscribed => \A a \in Account : store[a] >= seeded[a]

\* The store and the streams: typed, in step with each other and with the seed.
LiveInv ==
  /\ LiveTypeOK
  /\ StreamsCarryTheStore
  /\ NothingBeforeTheSeed

\* The poll is the safety net of the subscriptions: when the chain stops
\* changing, the store of a seeded server is the chain in the end, and so is
\* what every visible tab shows.
TabsCatchUp ==
  <>[](phase # "degraded") =>
    <>[](/\ store = chain
         /\ \A t \in Tab : tab[t].visible => tab[t].view = chain)
================================================================================
