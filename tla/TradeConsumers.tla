---------------------------- MODULE TradeConsumers ----------------------------
(***************************************************************************)
(* The batch consumers of the trade topic, candle-aggregator and           *)
(* audit-logger, and the candle query of the API.                          *)
(*                                                                         *)
(* Both workers read a batch, store its effect in one request (a           *)
(* transaction of upserts, an S3 object) and only then advance.  A worker  *)
(* may die between any two steps, a request may fail with or without       *)
(* effect, and batches are cut where the broker pleases, so that a range   *)
(* is read again in other pieces.  One behaviour is about one worker,      *)
(* chosen at the start; the two share nothing but the topic.               *)
(***************************************************************************)
EXTENDS Integers, Sequences, FiniteSets, SequencesExt, FiniteSetsExt

CONSTANTS Minutes,     \* an interval of naturals
          Prices,      \* trade prices, naturals
          Interval,    \* minutes of a bar that is rolled up
          MaxMessages, \* bound: messages of the topic
          MaxCrashes,  \* bound: deaths of the worker
          MaxFailures, \* bound: failing stores
          MaxHour      \* bound: hours that pass

ASSUME TradeConsumersAssumption ==
    /\ Minutes \subseteq Nat /\ Prices \subseteq Nat
    /\ Interval \in Nat \ {0}
    /\ {MaxMessages, MaxCrashes, MaxFailures, MaxHour} \subseteq Nat

\* A message is a trade, or something the worker cannot parse.  Quantities do
\* not matter beyond their sum: every trade has quantity 1.
Trade == [minute : Minutes, price : Prices]
Junk == [minute |-> -1, price |-> 0]
NoCandle == [open |-> 0, high |-> 0, low |-> 0, close |-> 0, volume |-> 0]

VARIABLES
    worker,    \* the worker of this behaviour
    topic,     \* the messages, by offset; a resent event is there twice
    position,  \* next offset to read, 0 while the worker is not in the group
    committed, \* the group's committed offset, 0 if there is none
    batch,     \* last offset of the batch in hand and whether it is stored
    candle,    \* Candle rows of interval M1
    object,    \* S3 objects: hour and first offset to last offset
    hour,
    joined,    \* history: where the worker last joined
    jumped,    \* history: offsets passed over by starting at the end, unstored
    crashes, failures

vars == <<worker, topic, position, committed, batch, candle, object, hour, joined,
          jumped, crashes, failures>>
stores == <<candle, object>>
bounds == <<crashes, failures>>

Workers == {"candle-aggregator", "audit-logger"}
NoBatch == [to |-> 0, stored |-> FALSE]
Offsets == DOMAIN topic

Init ==
    /\ worker \in Workers
    /\ topic = <<>> /\ position = 0 /\ committed = 0 /\ batch = NoBatch
    /\ candle = [m \in Minutes |-> NoCandle]
    /\ object = << >> /\ hour = 0
    /\ joined = 0 /\ jumped = {}
    /\ crashes = 0 /\ failures = 0

-----------------------------------------------------------------------------
(* The topic and the clock.                                                *)

\* audit-logger copies a line whatever it says.
Publish(msg) ==
    /\ Len(topic) < MaxMessages
    /\ worker = "audit-logger" => msg = Junk
    /\ topic' = Append(topic, msg)
    /\ UNCHANGED <<worker, position, committed, batch, stores, hour, joined, jumped, bounds>>

HourPasses ==
    /\ worker = "audit-logger" /\ hour < MaxHour /\ hour' = hour + 1
    /\ UNCHANGED <<worker, topic, position, committed, batch, stores, joined, jumped, bounds>>

-----------------------------------------------------------------------------
(* The stores.                                                             *)

IsTrade(i) == topic[i] # Junk
TradesOf(m, from, to) == {i \in from..to : IsTrade(i) /\ topic[i].minute = m}

\* One bucket of the batch: a fold of its trades in offset order.
Bucket(s) ==
    LET prices == {topic[i].price : i \in s} IN
    [open |-> topic[Min(s)].price, high |-> Max(prices), low |-> Min(prices),
     close |-> topic[Max(s)].price, volume |-> Cardinality(s)]

\* The upsert creates the row with the bucket, or overwrites everything but the
\* open with it.
\* Mutant: the volume is added to what is there.
UpsertAdds(row, b) ==
    IF row = NoCandle THEN b
    ELSE [b EXCEPT !.open = row.open, !.volume = row.volume + @]
Upsert(row, b) == IF row = NoCandle THEN b ELSE [b EXCEPT !.open = row.open]

UpsertAll(from, to) ==
    candle' = [m \in Minutes |-> LET s == TradesOf(m, from, to) IN
                                 IF s = {} THEN candle[m] ELSE Upsert(candle[m], Bucket(s))]

\* The object's key is the hour of the upload and the first offset.
\* Mutant: the lines of earlier batches are still in the buffer.
PutObjectKeepsLines(from, to) ==
    object' = [k \in DOMAIN object \cup {<<hour, joined>>} |->
                  IF k = <<hour, joined>> THEN to ELSE object[k]]
PutObject(from, to) ==
    object' = [k \in DOMAIN object \cup {<<hour, from>>} |->
                  IF k = <<hour, from>> THEN to ELSE object[k]]

Store ==
    CASE worker = "candle-aggregator" -> UpsertAll(position, batch.to) /\ UNCHANGED object
      [] worker = "audit-logger"      -> PutObject(position, batch.to) /\ UNCHANGED candle

-----------------------------------------------------------------------------
(* The worker.                                                             *)

\* Offsets whose effect is lost to the worker when it starts at the end.
Unstored == {i \in Offsets : ~\E k \in DOMAIN object : k[2] <= i /\ i <= object[k]}

\* subscribe with fromBeginning false: at the committed offset, or at the end.
Join ==
    /\ position = 0
    /\ position' = IF committed = 0 THEN Len(topic) + 1 ELSE committed
    /\ joined' = position'
    /\ jumped' = IF committed = 0 THEN jumped \cup Unstored ELSE jumped
    /\ UNCHANGED <<worker, topic, committed, batch, stores, hour, bounds>>

\* A batch is any run of messages from the position on.  A batch that is cut
\* short (isRunning, isStale) is a shorter batch followed by Crash.
Fetch ==
    /\ position # 0 /\ batch = NoBatch
    /\ \E to \in position..Len(topic) : batch' = [to |-> to, stored |-> FALSE]
    /\ UNCHANGED <<worker, topic, position, committed, stores, hour, joined, jumped, bounds>>

StoreBatch ==
    /\ batch # NoBatch /\ ~batch.stored
    /\ Store
    /\ batch' = [batch EXCEPT !.stored = TRUE]
    /\ UNCHANGED <<worker, topic, position, committed, hour, joined, jumped, bounds>>

\* The request fails, with or without effect (a transaction has none): the
\* batch is read again from the position, or the worker leaves the group.
\* Mutant: the failure is swallowed.
StoreFailsSwallowed ==
    /\ batch # NoBatch /\ ~batch.stored
    /\ failures < MaxFailures /\ failures' = failures + 1
    /\ position' = batch.to + 1
    /\ batch' = NoBatch
    /\ UNCHANGED <<worker, topic, committed, stores, hour, joined, jumped, crashes>>
StoreFails ==
    /\ batch # NoBatch /\ ~batch.stored
    /\ failures < MaxFailures /\ failures' = failures + 1
    /\ \/ UNCHANGED stores
       \/ worker = "audit-logger" /\ Store
    /\ position' \in {position, 0}
    /\ batch' = NoBatch
    /\ UNCHANGED <<worker, topic, committed, hour, joined, jumped, crashes>>

\* resolveOffset moves the position; commitOffsetsIfNecessary commits only as
\* the library's interval and threshold say, and neither is configured.
Advance ==
    /\ batch.stored
    /\ position' = batch.to + 1
    /\ committed' \in {committed, batch.to + 1}
    /\ batch' = NoBatch
    /\ UNCHANGED <<worker, topic, stores, hour, joined, jumped, bounds>>

\* The process is stopped at once on a signal, or dies.
Crash ==
    /\ position # 0
    /\ crashes < MaxCrashes /\ crashes' = crashes + 1
    /\ position' = 0 /\ batch' = NoBatch
    /\ UNCHANGED <<worker, topic, committed, stores, hour, joined, jumped, failures>>

Next ==
    \/ \E msg \in Trade \cup {Junk} : Publish(msg)
    \/ HourPasses \/ Join \/ Fetch \/ StoreBatch \/ StoreFails \/ Advance \/ Crash
Spec == Init /\ [][Next]_vars

-----------------------------------------------------------------------------
(* The candle query: bars of Interval minutes from the M1 rows.            *)

BarOf(m) == m \div Interval

\* The rows of the look-back window; time is in half minutes, so that "now" may
\* fall inside a minute.
Rows == {m \in Minutes : candle[m] # NoCandle}
Window(now, take) == {m \in Rows : 2 * m >= now - 2 * take * Interval}

\* A row opens its bar or is merged into it.
Merge(bars, m) ==
    LET c == candle[m]
        b == BarOf(m)
    IN  [d \in DOMAIN bars \cup {b} |->
           IF d # b THEN bars[d]
           ELSE IF b \notin DOMAIN bars THEN c
           ELSE [open   |-> bars[b].open,
                 high   |-> Max({bars[b].high, c.high}),
                 low    |-> Min({bars[b].low, c.low}),
                 close  |-> c.close,
                 volume |-> bars[b].volume + c.volume]]

\* The rows are merged oldest first: the newest one is the last.
\* Mutant: newest first.
BucketsNewestFirst(ms) ==
    MapThenFoldSet(LAMBDA m, bars : Merge(bars, m), << >>, LAMBDA m : m, LAMBDA s : Min(s), ms)
Buckets(ms) ==
    MapThenFoldSet(LAMBDA m, bars : Merge(bars, m), << >>, LAMBDA m : m, LAMBDA s : Max(s), ms)

\* candles: the newest "take" bars of the window.
Candles(now, take) ==
    LET bars   == Buckets(Window(now, take))
        newest == {b \in DOMAIN bars : Cardinality({d \in DOMAIN bars : d > b}) < take}
    IN  [b \in newest |-> bars[b]]

-----------------------------------------------------------------------------
(* Properties.                                                             *)

\* No event is missing from the archive below the position of audit-logger:
\* every message it has passed is in some object, through failed and ambiguous
\* uploads, crashes, replays and objects overwritten by shorter ones, except
\* those it jumped over by joining at the end while the group had no committed
\* offset.
ArchiveIsComplete ==
    worker = "audit-logger" =>
      \A i \in 1..(position - 1) : i \in jumped \/ i \notin Unstored

\* Until a crash or a failed upload, each event is in exactly one object;
\* only a replay, which may start another object or another hour, copies it.
ArchiveOnceUntilReplay ==
    worker = "audit-logger" /\ crashes = 0 /\ failures = 0 =>
      \A k, l \in DOMAIN object : k # l => (k[2]..object[k]) \cap (l[2]..object[l]) = {}

\* A candle never overstates its minute, however its trades were cut into
\* batches and replayed: the volume is at most that of the minute's messages,
\* high and low are prices of the minute, and once the worker is between
\* batches the close is the price of the last trade it has read since it joined.
CandleNeverOverstates ==
    \A m \in Minutes : candle[m] # NoCandle =>
      LET s      == TradesOf(m, 1, Len(topic))
          recent == TradesOf(m, joined, position - 1)
      IN  /\ candle[m].volume <= Cardinality(s)
          /\ {candle[m].open, candle[m].high, candle[m].low, candle[m].close}
                \subseteq {topic[i].price : i \in s}
          /\ candle[m].low <= candle[m].close /\ candle[m].close <= candle[m].high
          /\ batch = NoBatch /\ recent # {} => candle[m].close = topic[Max(recent)].price

\* Every bar the candle query returns is the aggregate of all M1 rows of its
\* span, except the oldest, which the look-back window may cut; and no more
\* bars than asked for are returned.
Aggregate(ms) ==
    [open |-> candle[Min(ms)].open, high |-> Max({candle[m].high : m \in ms}),
     low |-> Min({candle[m].low : m \in ms}), close |-> candle[Max(ms)].close,
     volume |-> MapThenSumSet(LAMBDA m : candle[m].volume, ms)]
BarsAgree(now, take) ==
    LET bars == Candles(now, take) IN
    /\ Cardinality(DOMAIN bars) <= take
    /\ \A b \in DOMAIN bars : (\E d \in DOMAIN bars : d < b) =>
         bars[b] = Aggregate({m \in Rows : BarOf(m) = b})
RollupAgrees ==
    \A take \in 1..2, past \in 0..4 : BarsAgree(2 * Max(Rows \cup {0}) + past, take)

\* What the proofs rest on.  The types:
TypeOK ==
    /\ worker \in Workers /\ topic \in Seq(Trade \cup {Junk})
    /\ {position, committed} \subseteq 0..(Len(topic) + 1) /\ joined \in Nat
    /\ batch \in [to : Nat, stored : BOOLEAN]
    /\ candle \in [Minutes -> [open : Nat, high : Nat, low : Nat, close : Nat, volume : Nat]]
    /\ \A k \in DOMAIN object : k[2] \in Nat /\ object[k] \in Nat
    /\ {hour, crashes, failures} \subseteq Nat

\* A worker in the group is at or beyond the committed offset and the place
\* where it joined; a batch begins at its position and ends within the topic.
WorkerFits ==
    /\ position # 0 => joined \in 1..position /\ committed <= position
    /\ batch # NoBatch => position # 0 /\ batch.to \in position..Len(topic)

\* The last offset whose effect is stored.
StoredTo == IF batch.stored THEN batch.to ELSE position - 1

\* Offsets up to there and below the committed one are archived; the second
\* part is what a worker that comes back relies on.
Archived(i) == i \in jumped \/ i \notin Unstored
ArchiveInv ==
    worker = "audit-logger" =>
        \A i \in Offsets : i <= StoredTo \/ i < committed => Archived(i)

\* Before any replay the objects end where the worker is.
OnceInv ==
    crashes = 0 /\ failures = 0 => \A k \in DOMAIN object : object[k] \in k[2]..StoredTo

\* CandleNeverOverstates with the close kept while a batch is in hand.
CandleFits(m) ==
    LET s      == TradesOf(m, 1, Len(topic))
        recent == TradesOf(m, joined, StoredTo)
    IN  /\ candle[m].volume <= Cardinality(s)
        /\ {candle[m].open, candle[m].high, candle[m].low, candle[m].close}
              \subseteq {topic[i].price : i \in s}
        /\ candle[m].low <= candle[m].close /\ candle[m].close <= candle[m].high
        /\ recent # {} => candle[m].close = topic[Max(recent)].price
CandleInv ==
    \A m \in Minutes : candle[m] # NoCandle => worker = "candle-aggregator" /\ CandleFits(m)

ConsumerInv ==
    TypeOK /\ WorkerFits /\ ArchiveInv /\ OnceInv /\ ArchiveOnceUntilReplay /\ CandleInv
=============================================================================
