--------------------------------- MODULE MCWeb ---------------------------------
(***************************************************************************)
(* The web application's server for model checking: Indexer, LiveState and *)
(* SseConnections.  They share no variable, so that a step of one changes  *)
(* nothing another's properties speak of, and each is explored by itself:  *)
(* a behaviour is of the one that part names, the rest stay as they were.  *)
(***************************************************************************)
EXTENDS Indexer, LiveState, SseConnections

CONSTANTS home, office, s1, s2, s3, s4

VARIABLE part

webVars == <<part, indexerVars, liveVars, sseVars>>

WebInit ==
  /\ part \in {"indexer", "live", "sse"}
  /\ IndexerInit
  /\ LiveInit
  /\ SseInit

OfIndexer(A) == part = "indexer" /\ A /\ UNCHANGED <<part, liveVars, sseVars>>
OfLive(A)    == part = "live" /\ A /\ UNCHANGED <<part, indexerVars, sseVars>>
OfSse(A)     == part = "sse" /\ A /\ UNCHANGED <<part, indexerVars, liveVars>>

WebNext == OfIndexer(IndexerNext) \/ OfLive(LiveNext) \/ OfSse(SseNext)

\* The supervisor starts the server, timers fire, calls are answered, and a
\* visible tab reconnects; webhooks and subscriptions promise nothing.
LiveFairness ==
  /\ WF_webVars(OfLive(Start))
  /\ WF_webVars(OfLive(PollAccounts))
  /\ WF_webVars(OfLive(PollAnswered))
  /\ \A a \in Monitored : WF_webVars(OfLive(HandleChange(a)))
  /\ \A t \in Tab : /\ WF_webVars(OfLive(Follow(t)))
                    /\ WF_webVars(OfLive(StartPolling(t)))
                    /\ WF_webVars(OfLive(AskRpc(t)))
                    /\ WF_webVars(OfLive(RpcAnswered(t)))

WebSpec == WebInit /\ [][WebNext]_webVars /\ LiveFairness

--------------------------------------------------------------------------------
(* Transactions for the indexer: taxed trades of 10 tokens at a price, and a  *)
(* Carnage's.                                                                 *)

Buy(p)  == [type |-> "TaxedSwap", pool |-> "CRIME_SOL", direction |-> "buy",
            inputAmount |-> 10 * p + 1, outputAmount |-> 10, taxAmount |-> 1]
Sell(p) == [type |-> "TaxedSwap", pool |-> "CRIME_SOL", direction |-> "sell",
            inputAmount |-> 10, outputAmount |-> 10 * p - 1, taxAmount |-> 1]
Exempt  == [type |-> "ExemptSwap", pool |-> "CRIME_SOL", direction |-> "buy",
            inputAmount |-> 90, outputAmount |-> 10, taxAmount |-> 0]
Updated(e) == [type |-> "TaxesUpdated", epoch |-> e, rates |-> "drawn"]
Executed(e, target, burned) ==
  [type |-> "CarnageExecuted", epoch |-> e, target |-> target, tokensBurned |-> burned]

Tx(events) == [failed |-> FALSE, events |-> events]

\* A user's purchase; then another's transaction that consumes the randomness,
\* executes the Carnage and sells.  (Both instructions are open to anybody.)
MixedLog ==
  <<Tx(<<Buy(2)>>), Tx(<<Updated(1), Exempt, Executed(1, "CRIME", 5), Sell(4)>>)>>

\* Three streams of one address and one of another.
ClientIp == [s \in Stream |-> IF s = s4 THEN office ELSE home]

\* TabsCatchUp, of the behaviours that are of the live state: the store of a
\* seeded server, fed by its poll, is the chain in the end, and so is every
\* visible tab.
WebTabsCatchUp == part = "live" => TabsCatchUp
================================================================================
