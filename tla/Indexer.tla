-------------------------------- MODULE Indexer --------------------------------
(***************************************************************************)
(* The indexer of the web application: Helius posts landed transactions to *)
(* app/api/webhooks/helius/route.ts, which stores their events in Postgres *)
(* and aggregates the trades into candles (db/candle-aggregator.ts);       *)
(* scripts/backfill-candles.ts does the same from the chain's history.     *)
(*                                                                         *)
(* Helius delivers at least once: a post it gets no answer to is sent      *)
(* again, later and in any order.  Requests run concurrently, a database   *)
(* call each at a time.  A database call fails without effect.  Prices are *)
(* fixed-point here.  Left out: authentication and payload checks, swaps   *)
(* of pools that no longer exist (UntaxedSwap), the broadcast of a candle  *)
(* to open charts, columns that nothing is computed from.                  *)
(*                                                                         *)
(* A definition named X_Something, just before X, is X with a mistake the  *)
(* properties are meant to catch; nothing uses it.                         *)
(***************************************************************************)
EXTENDS Integers, SequencesExt

CONSTANTS
  Log,                 \* transactions in the order they land: [failed, events]
  RESOLUTION_SECONDS,  \* the sizes of candles
  MAX_TX_AGE_SECONDS,  \* the age from which a delivered transaction is skipped
  PRICE_SCALE,         \* fixed-point scale of prices
  Request,             \* requests the server handles at a time
  Backfill             \* the backfill script

\* Bounds of the model: time; transactions per post; mishaps, which are posts
\* Helius gives up waiting for, failed database calls and killed processes;
\* backfills.
CONSTANTS MaxTime, MaxBatch, MaxMishaps, MaxBackfills

ASSUME IndexerAssumption ==
  /\ Log \in Seq(ToSet(Log))
  /\ \A n \in DOMAIN Log : Log[n].events \in Seq(ToSet(Log[n].events))
  /\ \A n \in DOMAIN Log : \A e \in ToSet(Log[n].events) :
       e.type = "TaxedSwap" => {e.inputAmount, e.outputAmount, e.taxAmount} \subseteq Nat
  /\ RESOLUTION_SECONDS \subseteq Nat \ {0}
  /\ MAX_TX_AGE_SECONDS \in Nat
  /\ PRICE_SCALE \in Nat \ {0}
  /\ IsFiniteSet(Request)
  /\ Backfill \notin Request
  /\ {MaxTime, MaxBatch, MaxMishaps, MaxBackfills} \subseteq Nat

VARIABLES
  now,             \* time in seconds
  blockTime,       \* of the transactions landed so far
  due,             \* transactions Helius has yet to deliver
  work,            \* what each request, and the backfill, has still to do
  swap_events,     \* rows by signature (a transaction's place in Log)
  candles,         \* rows by <<pool, resolution, openTime>>
  epoch_events,    \* rows by epoch
  carnage_events,  \* rows by epoch
  counted,         \* <<transaction, trade, resolution>> in the candles; for the properties
  attempts,        \* times a transaction was taken up; for the properties
  resends, faults, stops, backfills

database    == <<swap_events, candles, epoch_events, carnage_events>>
bounds      == <<resends, faults, stops, backfills>>
indexerVars == <<now, blockTime, due, work, database, counted, attempts, bounds>>

Worker == Request \union {Backfill}
Landed == 1..Len(blockTime)

--------------------------------------------------------------------------------
(* Events of a transaction (lib/event-parser.ts). *)

Only(events, types) ==
  FlattenSeq([k \in DOMAIN events |->
                IF events[k].type \in types THEN <<events[k]>> ELSE <<>>])
OfType(n, types) == Only(Log[n].events, types)

SwapTypes == {"TaxedSwap", "ExemptSwap"}
parseSwapEvents(n)    == OfType(n, SwapTypes)
parseEpochEvents(n)   == OfType(n, {"EpochTransitionTriggered", "TaxesUpdated"})
parseCarnageEvents(n) == OfType(n, {"CarnageExecuted"})

Trades_KeepExempt(n) == parseSwapEvents(n)

\* What a user traded; swaps of the Carnage would be false prices.
Trades(n) == Only(parseSwapEvents(n), SwapTypes \ {"ExemptSwap"})

derivePrice(e) ==
  LET paid     == IF e.direction = "buy" THEN e.inputAmount - e.taxAmount
                                         ELSE e.outputAmount + e.taxAmount
      received == IF e.direction = "buy" THEN e.outputAmount ELSE e.inputAmount
  IN IF received > 0 THEN (paid * PRICE_SCALE) \div received ELSE 0

Volume(e) == IF e.direction = "buy" THEN e.inputAmount ELSE e.outputAmount

truncateToResolution_Rounds(t, r) == ((t + r \div 2) \div r) * r

truncateToResolution(t, r) == (t \div r) * r

--------------------------------------------------------------------------------
(* The database calls a transaction takes, in order. *)

Call(do, n, i) == [do |-> do, n |-> n, i |-> i, left |-> RESOLUTION_SECONDS]

\* A trade: its row, then its candles at every resolution.  The webhook stores
\* a trade without a price all the same, the backfill does not.
TradeCalls(w, n, i) ==
  IF derivePrice(Trades(n)[i]) > 0
  THEN <<Call("storeTaxedSwap", n, i), Call("upsertCandles", n, i)>>
  ELSE IF w = Backfill THEN <<>> ELSE <<Call("storeTaxedSwap", n, i)>>

\* A Carnage: what it burned is looked up before its row is written.
CarnageCalls(n, i) ==
  IF parseCarnageEvents(n)[i].tokensBurned > 0
  THEN <<Call("queryHeld", n, i), Call("storeCarnageEvent", n, i)>>
  ELSE <<Call("storeCarnageEvent", n, i)>>

Calls(w, n) ==
  FlattenSeq([i \in DOMAIN Trades(n) |-> TradeCalls(w, n, i)]) \o
  IF w = Backfill THEN <<>>
  ELSE (IF parseEpochEvents(n) = <<>> THEN <<>> ELSE <<Call("storeEpochEvents", n, 1)>>)
       \o FlattenSeq([i \in DOMAIN parseCarnageEvents(n) |-> CarnageCalls(n, i)])

\* payload: transactions not taken up yet; batch: those Helius waits for an
\* answer to; prevTarget: the bought token of the Carnage looked up.
Idle == [payload |-> <<>>, batch |-> {}, calls |-> <<>>, prevTarget |-> "none"]

Next1(w) == Head(work[w].calls)
At(w, do) == work[w].calls # <<>> /\ Next1(w).do = do

Done(w) == work' = [work EXCEPT ![w].calls = Tail(@), ![w].prevTarget = "none"]

\* A table with a row written; onConflictDoNothing: the first row of a key stays.
With(table, key, row) ==
  [k \in DOMAIN table \union {key} |-> IF k = key THEN row ELSE table[k]]
Inserted(table, key, row) == IF key \in DOMAIN table THEN table ELSE With(table, key, row)

--------------------------------------------------------------------------------
(* The chain and Helius. *)

Land ==
  /\ Len(blockTime) < Len(Log)
  /\ blockTime' = Append(blockTime, now)
  /\ due' = due \union {Len(blockTime) + 1}
  /\ attempts' = Append(attempts, 0)
  /\ UNCHANGED <<now, work, database, counted, bounds>>

Tick ==
  /\ now < MaxTime
  /\ now' = now + 1
  /\ UNCHANGED <<blockTime, due, work, database, counted, attempts, bounds>>

\* POST: some of the due transactions, in any order.
POST_AnswersFirst(w) ==
  /\ work[w] = Idle
  /\ \E batch \in SUBSET due \ {{}} :
       /\ Cardinality(batch) <= MaxBatch
       /\ due' = due \ batch
       /\ \E payload \in SetToSeqs(batch) :
            work' = [work EXCEPT ![w].payload = payload]
  /\ UNCHANGED <<now, blockTime, database, counted, attempts, bounds>>

POST(w) ==
  /\ work[w] = Idle
  /\ \E batch \in SUBSET due \ {{}} :
       /\ Cardinality(batch) <= MaxBatch
       /\ due' = due \ batch
       /\ \E payload \in SetToSeqs(batch) :
            work' = [work EXCEPT ![w].payload = payload, ![w].batch = batch]
  /\ UNCHANGED <<now, blockTime, database, counted, attempts, bounds>>

\* Helius gives up waiting, or the answer is lost; the request runs on.
Resend(w) ==
  /\ resends + faults + stops < MaxMishaps
  /\ work[w].batch # {}
  /\ due' = due \union work[w].batch
  /\ work' = [work EXCEPT ![w].batch = {}]
  /\ resends' = resends + 1
  /\ UNCHANGED <<now, blockTime, database, counted, attempts, faults, stops, backfills>>

\* The server dies with all its requests, or the operator stops the backfill.
Stop(ws) ==
  /\ resends + faults + stops < MaxMishaps
  /\ \E w \in ws : work[w] # Idle
  /\ due' = due \union UNION {work[w].batch : w \in ws}
  /\ work' = [w \in Worker |-> IF w \in ws THEN Idle ELSE work[w]]
  /\ stops' = stops + 1
  /\ UNCHANGED <<now, blockTime, database, counted, attempts, resends, faults, backfills>>

--------------------------------------------------------------------------------
(* A request, and the backfill. *)

\* The whole history, newest first, as getSignaturesForAddress returns it.
StartBackfill ==
  /\ backfills < MaxBackfills
  /\ work[Backfill] = Idle
  /\ work' = [work EXCEPT ![Backfill].payload =
                FlattenSeq([k \in Landed |->
                  LET n == Len(blockTime) + 1 - k
                  IN IF Log[n].failed THEN <<>> ELSE <<n>>])]
  /\ backfills' = backfills + 1
  /\ UNCHANGED <<now, blockTime, due, database, counted, attempts, resends, faults, stops>>

Stale(n) == now - blockTime[n] > MAX_TX_AGE_SECONDS

\* The next transaction of the payload; failed and stale ones are skipped.
TakeUp(w) ==
  /\ work[w].payload # <<>>
  /\ work[w].calls = <<>>
  /\ LET n    == Head(work[w].payload)
         skip == Log[n].failed \/ (w # Backfill /\ Stale(n))
     IN /\ work' = [work EXCEPT ![w].payload = Tail(@),
                                ![w].calls = IF skip THEN <<>> ELSE Calls(w, n)]
        /\ attempts' = IF skip THEN attempts ELSE [attempts EXCEPT ![n] = @ + 1]
  /\ UNCHANGED <<now, blockTime, due, database, counted, bounds>>

storeTaxedSwap(w) ==
  /\ At(w, "storeTaxedSwap")
  /\ swap_events' = Inserted(swap_events, Next1(w).n, Next1(w).i)
  /\ Done(w)
  /\ UNCHANGED <<now, blockTime, due, candles, epoch_events, carnage_events, counted,
                 attempts, bounds>>

NewCandle_NoVolume(e) ==
  LET p == derivePrice(e)
  IN [open |-> p, high |-> p, low |-> p, close |-> p, volume |-> 0, tradeCount |-> 1]

NewCandle(e) ==
  LET p == derivePrice(e)
  IN [open |-> p, high |-> p, low |-> p, close |-> p, volume |-> Volume(e), tradeCount |-> 1]

UpdatedCandle_LastPrice(row, e) ==
  LET p == derivePrice(e)
  IN [row EXCEPT !.high = IF p > @ THEN p ELSE @,
                 !.low = p,
                 !.close = p,
                 !.volume = @ + Volume(e),
                 !.tradeCount = @ + 1]

UpdatedCandle(row, e) ==
  LET p == derivePrice(e)
  IN [row EXCEPT !.high = IF p > @ THEN p ELSE @,
                 !.low = IF p < @ THEN p ELSE @,
                 !.close = p,
                 !.volume = @ + Volume(e),
                 !.tradeCount = @ + 1]

\* The upserts of a trade run in parallel, one for each resolution.
upsertCandles(w) ==
  /\ At(w, "upsertCandles")
  /\ \E r \in Next1(w).left :
       LET c   == Next1(w)
           e   == Trades(c.n)[c.i]
           key == <<e.pool, r, truncateToResolution(blockTime[c.n], r)>>
       IN /\ candles' = With(candles, key,
                              IF key \in DOMAIN candles
                              THEN UpdatedCandle(candles[key], e) ELSE NewCandle(e))
          /\ counted' = counted \union {<<c.n, c.i, r>>}
          /\ IF c.left = {r} THEN Done(w)
             ELSE work' = [work EXCEPT ![w].calls[1].left = @ \ {r}]
  /\ UNCHANGED <<now, blockTime, due, swap_events, epoch_events, carnage_events, attempts,
                 bounds>>

\* The rates of the row: those of a TaxesUpdated among the events, or zero.
EpochRow(n) ==
  LET updates == OfType(n, {"TaxesUpdated"})
  IN [tx |-> n, rates |-> IF updates = <<>> THEN "zero" ELSE updates[1].rates]

storeEpochEvents(w) ==
  /\ At(w, "storeEpochEvents")
  /\ LET n           == Next1(w).n
         transitions == OfType(n, {"EpochTransitionTriggered"})
         updates     == OfType(n, {"TaxesUpdated"})
         epochNumber == Head(transitions \o updates).epoch
     IN epoch_events' = Inserted(epoch_events, epochNumber, EpochRow(n))
  /\ Done(w)
  /\ UNCHANGED <<now, blockTime, due, swap_events, candles, carnage_events, counted, attempts,
                 bounds>>

\* The token bought last, by the rows so far.
queryHeld(w) ==
  /\ At(w, "queryHeld")
  /\ LET epochs == DOMAIN carnage_events
     IN work' = [work EXCEPT
          ![w].calls = Tail(@),
          ![w].prevTarget = IF epochs = {} THEN "none"
                            ELSE carnage_events[CHOOSE e \in epochs :
                                                  \A d \in epochs : d <= e].target]
  /\ UNCHANGED <<now, blockTime, due, database, counted, attempts, bounds>>

storeCarnageEvent(w) ==
  /\ At(w, "storeCarnageEvent")
  /\ LET n == Next1(w).n
         e == parseCarnageEvents(n)[Next1(w).i]
         burned == IF e.tokensBurned = 0 THEN "none"
                   ELSE IF work[w].prevTarget = "FRAUD" THEN "FRAUD" ELSE "CRIME"
     IN carnage_events' = Inserted(carnage_events, e.epoch,
                                   [tx |-> n, target |-> e.target, burned |-> burned])
  /\ Done(w)
  /\ UNCHANGED <<now, blockTime, due, swap_events, candles, epoch_events, counted, attempts,
                 bounds>>

\* A call fails: a request goes on without the candle, and gives up on the
\* transaction for any other row; the backfill gives up on the transaction.
Fail(w) ==
  /\ resends + faults + stops < MaxMishaps
  /\ work[w].calls # <<>>
  /\ IF At(w, "upsertCandles") /\ w # Backfill
     THEN \E r \in Next1(w).left :
            IF Next1(w).left = {r} THEN Done(w)
            ELSE work' = [work EXCEPT ![w].calls[1].left = @ \ {r}]
     ELSE work' = [work EXCEPT ![w].calls = <<>>, ![w].prevTarget = "none"]
  /\ faults' = faults + 1
  /\ UNCHANGED <<now, blockTime, due, database, counted, attempts, resends, stops, backfills>>

\* The request is over and answered with 200.
Answer(w) ==
  /\ work[w].batch # {}
  /\ work[w].payload = <<>>
  /\ work[w].calls = <<>>
  /\ work' = [work EXCEPT ![w] = Idle]
  /\ UNCHANGED <<now, blockTime, due, database, counted, attempts, bounds>>

--------------------------------------------------------------------------------
IndexerInit ==
  /\ now = 0
  /\ blockTime = <<>>
  /\ due = {}
  /\ work = [w \in Worker |-> Idle]
  /\ swap_events = <<>>
  /\ candles = <<>>
  /\ epoch_events = <<>>
  /\ carnage_events = <<>>
  /\ counted = {}
  /\ attempts = <<>>
  /\ resends = 0
  /\ faults = 0
  /\ stops = 0
  /\ backfills = 0

Step(w) ==
  \/ TakeUp(w)
  \/ storeTaxedSwap(w)
  \/ upsertCandles(w)
  \/ storeEpochEvents(w)
  \/ queryHeld(w)
  \/ storeCarnageEvent(w)
  \/ Answer(w)

IndexerNext ==
  \/ Land
  \/ Tick
  \/ StartBackfill
  \/ \E w \in Request : POST(w) \/ Resend(w)
  \/ Stop(Request)
  \/ Stop({Backfill})
  \/ \E w \in Worker : Step(w) \/ Fail(w)

IndexerSpec == IndexerInit /\ [][IndexerNext]_indexerVars

--------------------------------------------------------------------------------
(* Properties. *)

Quiet == \A w \in Worker : work[w] = Idle
Lossless == Quiet /\ faults = 0 /\ stops = 0

\* The landed trades of a candle's pool and period: <<transaction, place>>.
InPeriod(key) ==
  {t \in UNION {{<<n, i>> : i \in DOMAIN OfType(n, {"TaxedSwap"})} : n \in Landed} :
     LET e == OfType(t[1], {"TaxedSwap"})[t[2]]
     IN /\ ~Log[t[1]].failed
        /\ e.pool = key[1]
        /\ key[3] <= blockTime[t[1]]
        /\ blockTime[t[1]] < key[3] + key[2]
        /\ derivePrice(e) > 0}

PricesIn(ts) == {derivePrice(Trades(t[1])[t[2]]) : t \in ts}

RowOK(row) ==
  /\ DOMAIN row = {"open", "high", "low", "close", "volume", "tradeCount"}
  /\ \A f \in DOMAIN row : row[f] \in Nat
  /\ row.low <= row.open /\ row.open <= row.high
  /\ row.low <= row.close /\ row.close <= row.high

\* Types; every row belongs to a landed transaction, and no candle's open or
\* close lies outside its low and high.
IndexerTypeOK ==
  /\ now \in 0..MaxTime
  /\ blockTime \in Seq(0..MaxTime)
  /\ due \subseteq Landed
  /\ \A w \in Worker : ToSet(work[w].payload) \union work[w].batch \subseteq Landed
  /\ DOMAIN swap_events \subseteq Landed
  /\ \A n \in DOMAIN swap_events : swap_events[n] \in DOMAIN Trades(n)
  /\ \A key \in DOMAIN candles : RowOK(candles[key])
  /\ \A e \in DOMAIN epoch_events : epoch_events[e].tx \in Landed
  /\ \A e \in DOMAIN carnage_events : carnage_events[e].tx \in Landed
  /\ {resends, faults, stops, backfills} \subseteq Nat

\* db/candle-aggregator.ts, upsertCandles: in whatever order and however often
\* trades arrive, the high and the low of a candle are those of the trades of
\* its pool and period that were counted, and of no others; a Carnage's own
\* swaps are not among them.
HighLowTrackTrades ==
  \A key \in DOMAIN candles :
    LET seen == {t \in InPeriod(key) : <<t[1], t[2], key[2]>> \in counted}
    IN /\ seen # {}
       /\ candles[key].high \in PricesIn(seen)
       /\ candles[key].low \in PricesIn(seen)
       /\ \A p \in PricesIn(seen) : candles[key].low <= p /\ p <= candles[key].high

\* Two workers in one candle, or one that dies in it, never count a trade more
\* often than its transaction was taken up: a candle's count and volume are at
\* most those of its period's trades, each times the deliveries and backfills of
\* its transaction.  (That a delivery counts once is TradesCountOnce, below, which
\* the code does not keep.)
CountsAreBounded ==
  \A key \in DOMAIN candles :
    LET ts == InPeriod(key)
    IN /\ candles[key].tradeCount <= SumFunction([t \in ts |-> attempts[t[1]]])
       /\ candles[key].volume <=
            SumFunction([t \in ts |-> attempts[t[1]] * Volume(Trades(t[1])[t[2]])])

\* With no call failed and no process killed, candles of one resolution say
\* the same as those of another: a period's volume, count, high and low are
\* those of the shorter periods in it, redelivered trades included.
ResolutionsAgree ==
  Lossless =>
    \A key \in DOMAIN candles : \A r \in RESOLUTION_SECONDS :
      key[2] % r = 0 =>
        LET parts == {k \in DOMAIN candles : /\ k[1] = key[1] /\ k[2] = r
                                             /\ k[3] \in key[3]..(key[3] + key[2] - 1)}
            Of(field) == [k \in parts |-> candles[k][field]]
        IN /\ candles[key].volume = SumFunction(Of("volume"))
           /\ candles[key].tradeCount = SumFunction(Of("tradeCount"))
           /\ candles[key].high = Max({candles[k].high : k \in parts})
           /\ candles[key].low = Min({candles[k].low : k \in parts})

\* The webhook: of what Helius need not deliver any more, every trade's
\* transaction has a row, and every epoch and Carnage too, whatever posts are
\* lost and requests killed, unless it was delivered too late or the database
\* failed.
EventsAreStored ==
  Quiet /\ faults = 0 =>
    \A n \in Landed \ due :
      Log[n].failed \/ Stale(n) \/
        /\ Trades(n) # <<>> => n \in DOMAIN swap_events
        /\ parseEpochEvents(n) # <<>> =>
             \E e \in ToSet(parseEpochEvents(n)) : e.epoch \in DOMAIN epoch_events
        /\ \A e \in ToSet(parseCarnageEvents(n)) : e.epoch \in DOMAIN carnage_events

\* The tables: typed, with candles that are those of the trades.
IndexerInv ==
  /\ IndexerTypeOK
  /\ HighLowTrackTrades
  /\ CountsAreBounded
  /\ ResolutionsAgree

--------------------------------------------------------------------------------
(* What a comment of the webhook says and its code does not do. *)

\* "Idempotency: ... candles: composite unique on (pool, resolution, open_time),
\* upsert logic": a trade delivered again is not counted again, so that no candle
\* counts more trades than landed in its period.  The upsert finds the candle by
\* that key and adds the trade to it, without asking whether its row was there.
TradesCountOnce ==
  \A key \in DOMAIN candles : candles[key].tradeCount <= Cardinality(InPeriod(key))
================================================================================
