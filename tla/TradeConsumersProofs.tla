------------------------ MODULE TradeConsumersProofs ------------------------
(* Proofs about TradeConsumers, for every set of minutes and prices, every *)
(* topic, cutting into batches and bound.  ConsumerInv is the inductive    *)
(* invariant: what is stored, up to where, when a worker has a batch in    *)
(* hand, and what is below the offset it will come back to.  The candle    *)
(* query is a fold over the rows; BucketsAre says what it computes.        *)
EXTENDS TradeConsumers, FiniteSetTheorems, WellFoundedInduction, TLAPS

-----------------------------------------------------------------------------
(* Largest and smallest members.                                           *)

\* Induction over finite sets, as a smallest counterexample.
LEMMA Smallest ==
    ASSUME NEW S, IsFiniteSet(S), NEW T, T \subseteq SUBSET S, T # {}
    PROVE  \E x \in T : \A y \in SUBSET x : y # x => y \notin T
<1>1. IsWellFoundedOn(StrictSubsetOrdering(S), SUBSET S)
  BY FS_StrictSubsetOrderingWellFounded, FS_FiniteSubsetsOfFinite
<1>2. PICK x \in T : \A y \in T : <<y, x>> \notin StrictSubsetOrdering(S)
  BY <1>1, WFMin
<1>3. ASSUME NEW y \in SUBSET x, y # x, y \in T PROVE FALSE
  <2>1. <<y, x>> \in (SUBSET S) \X (SUBSET S)
    OBVIOUS
  <2>2. <<y, x>> \in StrictSubsetOrdering(S)
    BY <2>1, <1>3 DEF StrictSubsetOrdering
  <2> QED BY <2>2, <1>2, <1>3
<1> QED BY <1>3

\* A finite set of numbers has a largest and a smallest member.
LEMMA ExtremesExist ==
    ASSUME NEW S \in SUBSET Int, IsFiniteSet(S), S # {}
    PROVE  /\ \E x \in S : \A y \in S : x >= y
           /\ \E x \in S : \A y \in S : x <= y
<1> DEFINE Good(s) == (\E x \in s : \A y \in s : x >= y) /\ (\E x \in s : \A y \in s : x <= y)
           B == {s \in SUBSET S : s # {} /\ ~Good(s)}
<1>1. SUFFICES ASSUME B # {} PROVE FALSE
  OBVIOUS
<1>2. PICK s \in B : \A t \in SUBSET s : t # s => t \notin B
  <2>1. B \subseteq SUBSET S
    OBVIOUS
  <2> HIDE DEF B
  <2> QED BY <1>1, <2>1, Smallest
<1>3. PICK a \in s : TRUE
  OBVIOUS
<1>4. a \in Int /\ s \ {a} \in SUBSET S /\ s \ {a} # s
  BY <1>3
<1>5. s \ {a} = {} \/ Good(s \ {a})
  BY <1>2, <1>4
<1>6. CASE s \ {a} = {}
  BY <1>6, <1>3, <1>4
<1>7. CASE Good(s \ {a})
  <2>1. PICK h \in s \ {a} : \A y \in s \ {a} : h >= y
    BY <1>7
  <2>2. PICK l \in s \ {a} : \A y \in s \ {a} : l <= y
    BY <1>7
  <2>3. h \in Int /\ l \in Int /\ \A y \in s : y \in Int
    OBVIOUS
  <2>4. \E x \in s : \A y \in s : x >= y
    <3>1. CASE a >= h
      BY <3>1, <2>1, <2>3, <1>3, <1>4
    <3>2. CASE ~(a >= h)
      BY <3>2, <2>1, <2>3, <1>3, <1>4
    <3> QED BY <3>1, <3>2
  <2>5. \E x \in s : \A y \in s : x <= y
    <3>1. CASE a <= l
      BY <3>1, <2>2, <2>3, <1>3, <1>4
    <3>2. CASE ~(a <= l)
      BY <3>2, <2>2, <2>3, <1>3, <1>4
    <3> QED BY <3>1, <3>2
  <2> QED BY <2>4, <2>5
<1> QED BY <1>5, <1>6, <1>7

\* Max and Min of the library are those members.
LEMMA MaxMin ==
    ASSUME NEW S \in SUBSET Int, IsFiniteSet(S), S # {}
    PROVE  /\ Max(S) \in S /\ \A y \in S : y <= Max(S)
           /\ Min(S) \in S /\ \A y \in S : Min(S) <= y
<1>1. \E x \in S : \A y \in S : x >= y
  BY ExtremesExist
<1>2. \E x \in S : \A y \in S : x <= y
  BY ExtremesExist
<1>3. Max(S) \in S /\ \A y \in S : Max(S) >= y
  BY <1>1 DEF Max
<1>4. Min(S) \in S /\ \A y \in S : Min(S) <= y
  BY <1>2 DEF Min
<1> QED BY <1>3, <1>4

\* There is one largest member.
LEMMA MaxIs ==
    ASSUME NEW S \in SUBSET Int, IsFiniteSet(S), NEW x \in S, \A y \in S : y <= x
    PROVE  Max(S) = x
<1>1. Max(S) \in S /\ x <= Max(S)
  BY MaxMin
<1>2. x \in Int /\ Max(S) \in Int /\ Max(S) <= x
  BY <1>1
<1> QED BY <1>1, <1>2

-----------------------------------------------------------------------------
(* The trades of a minute and their bucket.                                *)

\* The trades of a minute in a range within the topic are finitely many, among
\* all of the minute, and have prices.
LEMMA TradesFacts ==
    ASSUME TypeOK, NEW m \in Minutes, NEW from \in Nat \ {0}, NEW to \in Int, to <= Len(topic)
    PROVE  /\ TradesOf(m, from, to) \in SUBSET (from..to)
           /\ TradesOf(m, from, to) \in SUBSET TradesOf(m, 1, Len(topic))
           /\ IsFiniteSet(TradesOf(m, from, to)) /\ IsFiniteSet(TradesOf(m, 1, Len(topic)))
           /\ Cardinality(TradesOf(m, from, to)) <= Cardinality(TradesOf(m, 1, Len(topic)))
           /\ \A i \in TradesOf(m, from, to) : topic[i].price \in Nat
<1>1. Len(topic) \in Nat /\ DOMAIN topic = 1..Len(topic)
  BY DEF TypeOK
<1>2. TradesOf(m, from, to) \in SUBSET (from..to) /\ TradesOf(m, 1, Len(topic)) \in SUBSET (1..Len(topic))
  BY DEF TradesOf
<1>3. TradesOf(m, from, to) \in SUBSET TradesOf(m, 1, Len(topic))
  BY <1>1 DEF TradesOf
<1>4. IsFiniteSet(TradesOf(m, 1, Len(topic)))
  <2>1. IsFiniteSet(1..Len(topic))
    BY <1>1, FS_Interval
  <2> QED BY <1>2, <2>1, FS_Subset
<1>5. /\ IsFiniteSet(TradesOf(m, from, to))
      /\ Cardinality(TradesOf(m, from, to)) <= Cardinality(TradesOf(m, 1, Len(topic)))
  BY <1>3, <1>4, FS_Subset
<1>6. ASSUME NEW i \in TradesOf(m, from, to) PROVE topic[i].price \in Nat
  <2>1. i \in DOMAIN topic
    BY <1>1, <1>2
  <2>2. topic[i] \in Trade \cup {Junk}
    BY <2>1 DEF TypeOK
  <2>3. topic[i] # Junk
    BY DEF TradesOf, IsTrade
  <2>4. topic[i] \in [minute : Minutes, price : Prices]
    BY <2>2, <2>3 DEF Trade
  <2>5. topic[i].price \in Prices
    BY <2>4
  <2> QED BY <2>5, TradeConsumersAssumption
<1> QED BY <1>2, <1>3, <1>4, <1>5, <1>6

\* A bucket is made of prices of its trades, with the close between low and
\* high, and is not the empty row.
LEMMA BucketFacts ==
    ASSUME NEW s \in SUBSET Nat, IsFiniteSet(s), s # {}, \A i \in s : topic[i].price \in Nat
    PROVE  /\ Bucket(s) \in [open : Nat, high : Nat, low : Nat, close : Nat, volume : Nat]
           /\ Bucket(s).volume = Cardinality(s) /\ Bucket(s) # NoCandle
           /\ {Bucket(s).open, Bucket(s).high, Bucket(s).low, Bucket(s).close}
                \subseteq {topic[i].price : i \in s}
           /\ Bucket(s).low <= Bucket(s).close /\ Bucket(s).close <= Bucket(s).high
           /\ Bucket(s).close = topic[Max(s)].price
<1> DEFINE P == {topic[i].price : i \in s}
           f == [i \in s |-> topic[i].price]
<1>1. Max(s) \in s /\ Min(s) \in s
  <2>1. s \in SUBSET Int
    OBVIOUS
  <2> QED BY <2>1, MaxMin
<1>2. IsFiniteSet(P)
  <2>1. f \in Surjection(s, P)
    BY DEF Surjection
  <2> HIDE DEF f, P
  <2> QED BY <2>1, FS_Surjection
<1>3. P \in SUBSET Nat /\ P # {} /\ topic[Max(s)].price \in P /\ topic[Min(s)].price \in P
  BY <1>1
<1>4. /\ Max(P) \in P /\ Min(P) \in P
      /\ Min(P) <= topic[Max(s)].price /\ topic[Max(s)].price <= Max(P)
  <2>1. P \in SUBSET Int
    BY <1>3
  <2> HIDE DEF P
  <2> QED BY <1>2, <1>3, <2>1, MaxMin
<1>5. Cardinality(s) \in Nat /\ Cardinality(s) # 0
  BY FS_CardinalityType, FS_EmptySet
<1>6. Bucket(s) = [open |-> topic[Min(s)].price, high |-> Max(P), low |-> Min(P),
                   close |-> topic[Max(s)].price, volume |-> Cardinality(s)]
  BY DEF Bucket
<1>7. Bucket(s).volume # NoCandle.volume
  BY <1>5, <1>6 DEF NoCandle
<1> HIDE DEF P
<1>8. {Bucket(s).open, Bucket(s).high, Bucket(s).low, Bucket(s).close} \subseteq P
  BY <1>3, <1>4, <1>6
<1>9. /\ Bucket(s) \in [open : Nat, high : Nat, low : Nat, close : Nat, volume : Nat]
      /\ Bucket(s).volume = Cardinality(s)
      /\ Bucket(s).low <= Bucket(s).close /\ Bucket(s).close <= Bucket(s).high
      /\ Bucket(s).close = topic[Max(s)].price
  <2>1. {topic[Min(s)].price, Max(P), Min(P), topic[Max(s)].price} \subseteq Nat
    BY <1>3, <1>4
  <2> QED BY <1>4, <1>5, <1>6, <2>1
<1>10. Bucket(s) # NoCandle
  BY <1>7
<1> QED BY <1>8, <1>9, <1>10 DEF P
-----------------------------------------------------------------------------
(* The inductive invariant, action by action.                              *)

\* An empty topic, nothing stored, the worker not in its group.
LEMMA InitConsumerInv == Init => ConsumerInv
<1> SUFFICES ASSUME Init PROVE ConsumerInv
  OBVIOUS
<1>1. TypeOK
  <2>1. Len(topic) = 0 /\ topic \in Seq(Trade \cup {Junk})
    BY DEF Init
  <2>2. {position, committed} \subseteq 0..(Len(topic) + 1) /\ joined \in Nat
    BY <2>1 DEF Init
  <2>3. candle \in [Minutes -> [open : Nat, high : Nat, low : Nat, close : Nat, volume : Nat]]
    BY DEF Init, NoCandle
  <2>4. \A k \in DOMAIN object : FALSE
    BY DEF Init
  <2>5. batch \in [to : Nat, stored : BOOLEAN] /\ {hour, crashes, failures} \subseteq Nat
    BY DEF Init, NoBatch
  <2> QED BY <2>1, <2>2, <2>3, <2>4, <2>5 DEF TypeOK, Init
<1>2. WorkerFits
  BY DEF Init, WorkerFits
<1>3. Offsets = {} /\ DOMAIN object = {}
  BY DEF Init, Offsets
<1>4. ArchiveInv /\ OnceInv /\ ArchiveOnceUntilReplay
  BY <1>3 DEF ArchiveInv, OnceInv, ArchiveOnceUntilReplay
<1>5. CandleInv
  BY DEF Init, CandleInv
<1> QED BY <1>1, <1>2, <1>4, <1>5 DEF ConsumerInv

\* Where a worker without a batch is, and where one with a batch is.
LEMMA StoredFacts ==
    ASSUME ConsumerInv
    PROVE  /\ Len(topic) \in Nat /\ Offsets = 1..Len(topic) /\ StoredTo \in Int
           /\ position \in Nat /\ committed \in Nat /\ joined \in Nat
           /\ position - 1 <= StoredTo /\ StoredTo <= Len(topic)
           /\ position = 0 => StoredTo = -1 /\ batch = NoBatch
           /\ ~batch.stored => StoredTo = position - 1
<1>1. /\ Len(topic) \in Nat /\ Offsets = 1..Len(topic) /\ batch.to \in Nat
      /\ position \in 0..(Len(topic) + 1) /\ committed \in Nat /\ joined \in Nat
  BY DEF ConsumerInv, TypeOK, Offsets
<1>2. batch # NoBatch => position # 0 /\ batch.to \in position..Len(topic)
  BY DEF ConsumerInv, WorkerFits
<1>3. batch.stored => batch # NoBatch
  BY DEF NoBatch
<1> QED BY <1>1, <1>2, <1>3 DEF StoredTo

\* Nothing is said of the candles but through their rows, the topic, and the
\* trades between joined and StoredTo.
LEMMA CandleFrame ==
    ASSUME ConsumerInv, UNCHANGED <<worker, topic, candle>>, joined' \in Int, StoredTo' \in Int,
           (joined' = joined /\ StoredTo' = StoredTo) \/ joined' > StoredTo'
    PROVE  CandleInv'
<1> SUFFICES ASSUME NEW m \in Minutes, candle[m] # NoCandle
             PROVE  worker = "candle-aggregator" /\ CandleFits(m)'
  BY DEF CandleInv
<1>1. worker = "candle-aggregator" /\ CandleFits(m)
  BY DEF ConsumerInv, CandleInv
<1>2. TradesOf(m, 1, Len(topic))' = TradesOf(m, 1, Len(topic))
  BY DEF TradesOf, IsTrade
<1>3. \/ TradesOf(m, joined, StoredTo)' = TradesOf(m, joined, StoredTo)
      \/ TradesOf(m, joined, StoredTo)' = {}
  <2>1. CASE joined' = joined /\ StoredTo' = StoredTo
    BY <2>1 DEF TradesOf, IsTrade
  <2>2. CASE joined' > StoredTo'
    BY <2>2 DEF TradesOf
  <2> QED BY <2>1, <2>2
<1> QED BY <1>1, <1>2, <1>3 DEF CandleFits

\* A new message is behind everything the worker has done.
LEMMA PublishConsumerInv ==
    ASSUME ConsumerInv, NEW msg \in Trade \cup {Junk}, Publish(msg)
    PROVE  ConsumerInv'
<1>1. /\ topic' = Append(topic, msg) /\ topic \in Seq(Trade \cup {Junk})
      /\ UNCHANGED <<worker, position, committed, batch, candle, object, hour, joined, jumped, crashes, failures>>
  BY DEF Publish, stores, bounds, ConsumerInv, TypeOK
<1>2. /\ Len(topic) \in Nat /\ Len(topic') = Len(topic) + 1 /\ topic' \in Seq(Trade \cup {Junk})
      /\ Offsets = 1..Len(topic) /\ Offsets' = 1..Len(topic')
      /\ \A i \in 1..Len(topic) : topic'[i] = topic[i]
  BY <1>1 DEF Offsets
<1>3. StoredTo' = StoredTo /\ StoredTo \in Int /\ StoredTo <= Len(topic) /\ committed \in Nat
      /\ committed <= Len(topic) + 1
  BY <1>1, StoredFacts DEF StoredTo, ConsumerInv, TypeOK
<1>4. TypeOK'
  <2>1. {position', committed'} \subseteq 0..(Len(topic') + 1)
    BY <1>1, <1>2 DEF ConsumerInv, TypeOK
  <2> QED BY <1>1, <1>2, <2>1 DEF ConsumerInv, TypeOK
<1>5. WorkerFits'
  <2>1. batch.to \in Nat /\ position \in Nat
    BY DEF ConsumerInv, TypeOK
  <2> QED BY <1>1, <1>2, <2>1 DEF ConsumerInv, WorkerFits
<1>6. ArchiveInv'
  <2> SUFFICES ASSUME worker = "audit-logger", NEW i \in Offsets', i <= StoredTo \/ i < committed
               PROVE  Archived(i)'
    BY <1>1, <1>3 DEF ArchiveInv
  <2>1. i \in Offsets
    BY <1>2, <1>3
  <2>2. Archived(i)
    BY <2>1 DEF ConsumerInv, ArchiveInv
  <2> QED BY <1>1, <2>1, <2>2 DEF Archived, Unstored
<1>7. OnceInv' /\ ArchiveOnceUntilReplay'
  BY <1>1, <1>3 DEF ConsumerInv, OnceInv, ArchiveOnceUntilReplay
<1>8. CandleInv'
  <2> SUFFICES ASSUME NEW m \in Minutes, candle[m] # NoCandle
               PROVE  worker = "candle-aggregator" /\ CandleFits(m)'
    BY <1>1 DEF CandleInv
  <2> DEFINE s == TradesOf(m, 1, Len(topic))
             r == TradesOf(m, joined, StoredTo)
  <2>1. worker = "candle-aggregator" /\ CandleFits(m)
    BY DEF ConsumerInv, CandleInv
  <2>2. s \subseteq s' /\ \A i \in s : topic'[i] = topic[i]
    BY <1>2 DEF TradesOf, IsTrade
  <2>3. Cardinality(s) <= Cardinality(s') /\ Cardinality(s) \in Nat /\ Cardinality(s') \in Nat
    <3>1. s' \in SUBSET (1..Len(topic')) /\ IsFiniteSet(1..Len(topic'))
      BY <1>2, FS_Interval DEF TradesOf
    <3>2. IsFiniteSet(s')
      BY <3>1, FS_Subset
    <3>3. s \in SUBSET s'
      BY <2>2
    <3> HIDE DEF s
    <3> QED BY <3>2, <3>3, FS_Subset, FS_CardinalityType
  <2>4. {topic[i].price : i \in s} \subseteq {topic'[i].price : i \in s'}
    BY <2>2
  <2>5. r' = r /\ (r # {} => topic'[Max(r)] = topic[Max(r)])
    <3>1. joined \in Nat
      BY DEF ConsumerInv, TypeOK
    <3>2. CASE joined = 0
      <4>1. position = 0
        BY <3>2 DEF ConsumerInv, WorkerFits, TypeOK
      <4>2. StoredTo = -1
        BY <4>1, StoredFacts
      <4> QED BY <1>1, <1>3, <3>2, <4>2 DEF TradesOf
    <3>3. CASE joined # 0
      <4>1. r' = r
        BY <1>1, <1>2, <1>3, <3>1, <3>3 DEF TradesOf, IsTrade
      <4>2. r \in SUBSET (joined..StoredTo) /\ IsFiniteSet(r)
        BY <1>3, <3>1, <3>3, TradesFacts DEF ConsumerInv
      <4>3. r # {} => Max(r) \in r
        <5>1. r \in SUBSET Int
          BY <4>2
        <5> HIDE DEF r
        <5> QED BY <5>1, <4>2, MaxMin
      <4>4. r # {} => Max(r) \in 1..Len(topic)
        BY <1>2, <1>3, <3>1, <3>3, <4>2, <4>3
      <4> QED BY <1>2, <4>1, <4>4
    <3> QED BY <3>2, <3>3
  <2>6. candle[m].volume \in Nat
    BY DEF ConsumerInv, TypeOK
  <2>7. candle' = candle
    BY <1>1
  <2>8. /\ candle[m].volume <= Cardinality(s)
        /\ {candle[m].open, candle[m].high, candle[m].low, candle[m].close}
             \subseteq {topic[i].price : i \in s}
        /\ candle[m].low <= candle[m].close /\ candle[m].close <= candle[m].high
        /\ r # {} => candle[m].close = topic[Max(r)].price
    BY <2>1 DEF CandleFits
  <2>9. /\ candle'[m].volume <= Cardinality(s')
        /\ {candle'[m].open, candle'[m].high, candle'[m].low, candle'[m].close}
             \subseteq {topic'[i].price : i \in s'}
        /\ candle'[m].low <= candle'[m].close /\ candle'[m].close <= candle'[m].high
        /\ r' # {} => candle'[m].close = topic'[Max(r')].price
    <3> HIDE DEF s, r
    <3>1. candle'[m].volume <= Cardinality(s')
      BY <2>3, <2>6, <2>7, <2>8
    <3>2. {candle[m].open, candle[m].high, candle[m].low, candle[m].close}
            \subseteq {topic'[i].price : i \in s'}
      <4> DEFINE P == {topic[i].price : i \in s}
                 Q == {topic'[i].price : i \in s'}
      <4>1. {candle[m].open, candle[m].high, candle[m].low, candle[m].close} \subseteq P /\ P \subseteq Q
        BY <2>4, <2>8
      <4> HIDE DEF P, Q
      <4>2. {candle[m].open, candle[m].high, candle[m].low, candle[m].close} \subseteq Q
        BY <4>1
      <4> QED BY <4>2 DEF Q
    <3>3. r' # {} => candle'[m].close = topic'[Max(r')].price
      BY <2>5, <2>7, <2>8
    <3> QED BY <3>1, <3>2, <3>3, <2>7, <2>8
  <2> QED BY <2>1, <2>9 DEF CandleFits
<1> QED BY <1>4, <1>5, <1>6, <1>7, <1>8 DEF ConsumerInv
\* Time passes, a batch is fetched, the worker moves on, dies or joins: the
\* rows and objects stay, and at most the offset it is at changes.
LEMMA WorkerConsumerInv ==
    ASSUME ConsumerInv, HourPasses \/ Join \/ Fetch \/ Advance \/ Crash
    PROVE  ConsumerInv'
<1>1. /\ UNCHANGED <<worker, topic, candle, object>>
      /\ hour' \in Nat /\ crashes' \in Nat /\ failures' \in Nat
  BY DEF HourPasses, Join, Fetch, Advance, Crash, stores, bounds, ConsumerInv, TypeOK
<1>2. /\ Len(topic) \in Nat /\ Offsets = 1..Len(topic) /\ StoredTo \in Int
      /\ position \in Nat /\ committed \in Nat /\ joined \in Nat
      /\ position - 1 <= StoredTo /\ StoredTo <= Len(topic)
      /\ position = 0 => StoredTo = -1 /\ batch = NoBatch
      /\ ~batch.stored => StoredTo = position - 1
  BY StoredFacts
<1>3. /\ batch \in [to : Nat, stored : BOOLEAN] /\ position <= Len(topic) + 1
      /\ committed <= Len(topic) + 1 /\ NoBatch.stored = FALSE
      /\ position # 0 => joined \in 1..position /\ committed <= position
      /\ batch # NoBatch => position # 0 /\ batch.to \in position..Len(topic)
  BY DEF ConsumerInv, TypeOK, WorkerFits, NoBatch
\* What the five have in common.
<1>4. ASSUME /\ position' \in 0..(Len(topic) + 1) /\ committed' \in 0..(Len(topic) + 1)
             /\ joined' \in Nat /\ batch' \in [to : Nat, stored : BOOLEAN]
             /\ WorkerFits'
             /\ \A i \in Offsets : i <= StoredTo' \/ i < committed' =>
                   (worker = "audit-logger" => i \in jumped' \/ i \notin Unstored)
             /\ StoredTo' \in Int
             /\ (joined' = joined /\ StoredTo' = StoredTo) \/ joined' > StoredTo'
             /\ crashes' # 0 \/ (StoredTo <= StoredTo' /\ crashes' = crashes /\ failures' = failures)
      PROVE  ConsumerInv'
  <2>1. TypeOK'
    BY <1>1, <1>4 DEF ConsumerInv, TypeOK
  <2>2. ArchiveInv'
    BY <1>1, <1>4 DEF ArchiveInv, Archived, Offsets, Unstored
  <2>3. CandleInv'
    BY <1>1, <1>4, CandleFrame
  <2>4. OnceInv' /\ ArchiveOnceUntilReplay'
    <3>1. SUFFICES ASSUME crashes' = 0, failures' = 0
                   PROVE  OnceInv' /\ ArchiveOnceUntilReplay'
      BY DEF OnceInv, ArchiveOnceUntilReplay
    <3>2. crashes = 0 /\ failures = 0 /\ StoredTo <= StoredTo' /\ StoredTo' \in Int
      BY <1>4, <3>1
    <3>3. \A k \in DOMAIN object : object[k] \in k[2]..StoredTo /\ k[2] \in Nat
      BY <3>2 DEF ConsumerInv, OnceInv, TypeOK
    <3>4. OnceInv'
      BY <1>1, <1>2, <3>2, <3>3 DEF OnceInv
    <3> QED BY <1>1, <3>2, <3>4 DEF ConsumerInv, ArchiveOnceUntilReplay
  <2> QED BY <1>4, <2>1, <2>2, <2>3, <2>4 DEF ConsumerInv
<1>5. \A i \in Offsets : i <= StoredTo \/ i < committed =>
         (worker = "audit-logger" => i \in jumped \/ i \notin Unstored)
  BY DEF ConsumerInv, ArchiveInv, Archived
<1>6. CASE HourPasses
  <2>1. /\ UNCHANGED <<position, committed, batch, joined, jumped, crashes, failures>>
        /\ StoredTo' = StoredTo
    BY <1>6 DEF HourPasses, stores, bounds, StoredTo
  <2>2. WorkerFits'
    BY <1>1, <2>1 DEF ConsumerInv, WorkerFits
  <2> QED BY <1>2, <1>3, <1>4, <1>5, <2>1, <2>2
<1>7. CASE Join
  <2>1. /\ position = 0 /\ batch' = batch /\ committed' = committed /\ joined' = position'
        /\ position' = IF committed = 0 THEN Len(topic) + 1 ELSE committed
        /\ jumped' = IF committed = 0 THEN jumped \cup Unstored ELSE jumped
        /\ UNCHANGED <<crashes, failures>>
    BY <1>7 DEF Join, bounds
  <2>2. /\ position' \in 1..(Len(topic) + 1) /\ committed' <= position' /\ batch = NoBatch
        /\ StoredTo' = position' - 1 /\ StoredTo = -1
    BY <1>2, <1>3, <2>1 DEF StoredTo
  <2>3. WorkerFits'
    BY <2>1, <2>2 DEF WorkerFits
  <2>4. \A i \in Offsets : i <= StoredTo' \/ i < committed' =>
           (worker = "audit-logger" => i \in jumped' \/ i \notin Unstored)
    <3>1. CASE committed = 0
      BY <3>1, <2>1
    <3>2. CASE committed # 0
      BY <3>2, <1>2, <1>5, <2>1, <2>2
    <3> QED BY <3>1, <3>2
  <2>5. position' \in Int /\ joined' > StoredTo' /\ StoredTo' \in Int /\ StoredTo <= StoredTo'
    BY <2>1, <2>2
  <2> QED BY <1>2, <1>3, <1>4, <2>1, <2>2, <2>3, <2>4, <2>5
<1>8. CASE Fetch
  <2>1. PICK to \in position..Len(topic) : batch' = [to |-> to, stored |-> FALSE]
    BY <1>8 DEF Fetch
  <2>2. /\ UNCHANGED <<position, committed, joined, jumped, crashes, failures>>
        /\ position # 0 /\ batch = NoBatch
    BY <1>8 DEF Fetch, bounds
  <2>3. batch' \in [to : Nat, stored : BOOLEAN] /\ batch'.to = to /\ ~batch'.stored /\ to \in Nat
    BY <1>2, <2>1
  <2>4. StoredTo' = StoredTo
    BY <1>3, <2>2, <2>3 DEF StoredTo
  <2>5. WorkerFits'
    BY <1>1, <1>3, <2>1, <2>2, <2>3 DEF WorkerFits
  <2> QED BY <1>2, <1>3, <1>4, <1>5, <2>2, <2>3, <2>4, <2>5
<1>9. CASE Advance
  <2>1. /\ batch.stored /\ position' = batch.to + 1 /\ committed' \in {committed, batch.to + 1}
        /\ batch' = NoBatch /\ UNCHANGED <<joined, jumped, crashes, failures>>
    BY <1>9 DEF Advance, bounds
  <2>2. batch # NoBatch /\ batch.to \in position..Len(topic) /\ position # 0
    BY <1>3, <2>1
  <2>3. StoredTo = batch.to /\ StoredTo' = batch.to
    BY <1>2, <1>3, <2>1, <2>2 DEF StoredTo
  <2>4. /\ position' \in 0..(Len(topic) + 1) /\ committed' \in 0..(Len(topic) + 1)
        /\ committed' <= position' /\ joined \in 1..position'
    BY <1>2, <1>3, <2>1, <2>2
  <2>5. WorkerFits' /\ batch' \in [to : Nat, stored : BOOLEAN]
    BY <2>1, <2>4 DEF WorkerFits, NoBatch
  <2>6. \A i \in Offsets : i <= StoredTo' \/ i < committed' =>
           (worker = "audit-logger" => i \in jumped' \/ i \notin Unstored)
    BY <1>2, <1>5, <2>1, <2>2, <2>3
  <2> QED BY <1>2, <1>4, <2>1, <2>3, <2>4, <2>5, <2>6
<1>10. CASE Crash
  <2>1. /\ position' = 0 /\ batch' = NoBatch /\ crashes' = crashes + 1
        /\ UNCHANGED <<committed, joined, jumped, failures>>
    BY <1>10 DEF Crash
  <2>2. StoredTo' = -1 /\ crashes' # 0 /\ batch' \in [to : Nat, stored : BOOLEAN]
    <3>1. crashes \in Nat
      BY DEF ConsumerInv, TypeOK
    <3> QED BY <1>3, <2>1, <3>1 DEF StoredTo, NoBatch
  <2>3. WorkerFits'
    BY <2>1 DEF WorkerFits
  <2>4. \A i \in Offsets : i <= StoredTo' \/ i < committed' =>
           (worker = "audit-logger" => i \in jumped' \/ i \notin Unstored)
    BY <1>2, <1>5, <2>1, <2>2
  <2> QED BY <1>2, <1>3, <1>4, <2>1, <2>2, <2>3, <2>4
<1> QED BY <1>6, <1>7, <1>8, <1>9, <1>10
-----------------------------------------------------------------------------
(* The stores.                                                             *)

\* A new object covers its batch and takes nothing from the offsets below it,
\* although it may overwrite a longer one with the same name.
LEMMA PutObjectFacts ==
    ASSUME TypeOK, NEW from \in Nat, NEW to \in Nat, PutObject(from, to), topic' = topic
    PROVE  /\ \A i \in Offsets : i \in from..to => i \notin Unstored'
           /\ \A i \in Offsets : i < from /\ i \notin Unstored => i \notin Unstored'
           /\ \A k \in DOMAIN object' : k[2] \in Nat /\ object'[k] \in Nat
           /\ \E n : /\ DOMAIN object' = DOMAIN object \cup {n} /\ object'[n] = to /\ n[2] = from
                     /\ \A k \in DOMAIN object : k # n => object'[k] = object[k]
<1> DEFINE n == <<hour, from>>
<1>1. /\ DOMAIN object' = DOMAIN object \cup {n} /\ object'[n] = to /\ n[2] = from
      /\ \A k \in DOMAIN object : k # n => object'[k] = object[k]
  BY DEF PutObject
<1> HIDE DEF n
<1>2. \A k \in DOMAIN object : k[2] \in Nat /\ object[k] \in Nat
  BY DEF TypeOK
<1>3. Offsets \subseteq Nat /\ Offsets' = Offsets
  BY DEF TypeOK, Offsets
<1>4. ASSUME NEW i \in Offsets, i \in from..to PROVE i \notin Unstored'
  BY <1>1, <1>3, <1>4 DEF Unstored
<1>5. ASSUME NEW i \in Offsets, i < from, i \notin Unstored PROVE i \notin Unstored'
  <2>1. PICK k \in DOMAIN object : k[2] <= i /\ i <= object[k]
    BY <1>5 DEF Unstored
  <2>2. k # n
    BY <1>1, <1>2, <1>3, <1>5, <2>1
  <2> QED BY <1>1, <2>1, <2>2 DEF Unstored
<1> QED BY <1>1, <1>2, <1>4, <1>5

\* The request, whether it is answered or not.
LEMMA StoreKeeps ==
    ASSUME ConsumerInv, batch # NoBatch, Store, UNCHANGED <<worker, topic>>
    PROVE  /\ candle' \in [Minutes -> [open : Nat, high : Nat, low : Nat, close : Nat, volume : Nat]]
           /\ \A k \in DOMAIN object' : k[2] \in Nat /\ object'[k] \in Nat
           /\ worker = "audit-logger" =>
                /\ \A i \in Offsets : i \in position..batch.to => i \notin Unstored'
                /\ \A i \in Offsets : i < position /\ i \notin Unstored => i \notin Unstored'
                /\ candle' = candle
<1>1. /\ position \in Nat \ {0} /\ batch.to \in Nat /\ batch.to <= Len(topic) /\ TypeOK
      /\ position <= batch.to
  BY DEF ConsumerInv, WorkerFits, TypeOK
<1>2. CASE worker = "audit-logger"
  <2>1. PutObject(position, batch.to) /\ candle' = candle
    BY <1>2 DEF Store
  <2> QED BY <1>1, <1>2, <2>1, PutObjectFacts DEF TypeOK
<1>3. CASE worker = "candle-aggregator"
  <2>1. UpsertAll(position, batch.to) /\ object' = object
    BY <1>3 DEF Store
  <2>2. ASSUME NEW m \in Minutes
        PROVE  LET s == TradesOf(m, position, batch.to)
               IN  (IF s = {} THEN candle[m] ELSE Upsert(candle[m], Bucket(s)))
                     \in [open : Nat, high : Nat, low : Nat, close : Nat, volume : Nat]
    <3> DEFINE s == TradesOf(m, position, batch.to)
    <3>1. candle[m] \in [open : Nat, high : Nat, low : Nat, close : Nat, volume : Nat]
      BY <1>1 DEF TypeOK
    <3>2. s \in SUBSET Nat /\ IsFiniteSet(s) /\ \A i \in s : topic[i].price \in Nat
      <4>1. s \in SUBSET (position..batch.to) /\ IsFiniteSet(s) /\ \A i \in s : topic[i].price \in Nat
        BY <1>1, TradesFacts
      <4> QED BY <1>1, <4>1
    <3> HIDE DEF s
    <3>3. s # {} => Bucket(s) \in [open : Nat, high : Nat, low : Nat, close : Nat, volume : Nat]
      BY <3>2, BucketFacts
    <3>4. (IF s = {} THEN candle[m] ELSE Upsert(candle[m], Bucket(s)))
            \in [open : Nat, high : Nat, low : Nat, close : Nat, volume : Nat]
      BY <3>1, <3>3 DEF Upsert
    <3> QED BY <3>4 DEF s
  <2>3. candle' \in [Minutes -> [open : Nat, high : Nat, low : Nat, close : Nat, volume : Nat]]
    BY <2>1, <2>2 DEF UpsertAll
  <2>4. \A k \in DOMAIN object : k[2] \in Nat /\ object[k] \in Nat
    BY <1>1 DEF TypeOK
  <2> QED BY <1>3, <2>1, <2>3, <2>4
<1> QED BY <1>1, <1>2, <1>3 DEF TypeOK, Workers

\* The upserts of a batch keep every candle within its minute, and its close
\* is that of the last trade the worker has read.
LEMMA UpsertCandleInv ==
    ASSUME ConsumerInv, StoreBatch, worker = "candle-aggregator"
    PROVE  CandleInv'
<1>1. /\ batch # NoBatch /\ UpsertAll(position, batch.to) /\ UNCHANGED <<worker, topic, joined>>
      /\ batch' = [batch EXCEPT !.stored = TRUE] /\ ~batch.stored
  BY DEF StoreBatch, Store
<1>2. /\ position \in Nat \ {0} /\ batch.to \in Nat /\ batch.to <= Len(topic) /\ TypeOK
      /\ position <= batch.to /\ joined \in 1..position /\ batch \in [to : Nat, stored : BOOLEAN]
  BY <1>1 DEF ConsumerInv, WorkerFits, TypeOK
<1>3. StoredTo = position - 1 /\ StoredTo' = batch.to
  BY <1>1, <1>2 DEF StoredTo
<1> SUFFICES ASSUME NEW m \in Minutes, candle'[m] # NoCandle
             PROVE  CandleFits(m)'
  BY <1>1 DEF CandleInv
<1> DEFINE s == TradesOf(m, position, batch.to)
           all == TradesOf(m, 1, Len(topic))
           r == TradesOf(m, joined, position - 1)
           q == TradesOf(m, joined, batch.to)
<1>4. candle'[m] = IF s = {} THEN candle[m] ELSE Upsert(candle[m], Bucket(s))
  BY <1>1 DEF UpsertAll
<1>5. /\ s \in SUBSET (position..batch.to) /\ s \in SUBSET all /\ IsFiniteSet(s) /\ IsFiniteSet(all)
      /\ Cardinality(s) <= Cardinality(all) /\ \A i \in s : topic[i].price \in Nat
  BY <1>2, TradesFacts
<1>6. q \in SUBSET (joined..batch.to) /\ IsFiniteSet(q)
  BY <1>2, TradesFacts
<1>7. q = r \cup s
  BY <1>2 DEF TradesOf
<1>8. candle[m] # NoCandle => CandleFits(m)
  BY DEF ConsumerInv, CandleInv
<1>9. candle[m] # NoCandle =>
        /\ candle[m].volume <= Cardinality(all)
        /\ {candle[m].open, candle[m].high, candle[m].low, candle[m].close}
             \subseteq {topic[i].price : i \in all}
        /\ candle[m].low <= candle[m].close /\ candle[m].close <= candle[m].high
        /\ r # {} => candle[m].close = topic[Max(r)].price
  BY <1>3, <1>8 DEF CandleFits
<1>10. all' = all /\ TradesOf(m, joined, StoredTo)' = q
  BY <1>1, <1>3 DEF TradesOf, IsTrade
<1>11. SUFFICES
        /\ candle'[m].volume <= Cardinality(all)
        /\ {candle'[m].open, candle'[m].high, candle'[m].low, candle'[m].close}
             \subseteq {topic[i].price : i \in all}
        /\ candle'[m].low <= candle'[m].close /\ candle'[m].close <= candle'[m].high
        /\ q # {} => candle'[m].close = topic[Max(q)].price
  BY <1>1, <1>10 DEF CandleFits
<1>12. CASE s = {}
  BY <1>12, <1>4, <1>7, <1>9
<1>13. CASE s # {}
  <2> DEFINE b == Bucket(s)
  <2>1. s \in SUBSET Nat /\ s \in SUBSET Int
    BY <1>2, <1>5
  <2>2. /\ b \in [open : Nat, high : Nat, low : Nat, close : Nat, volume : Nat]
        /\ b.volume = Cardinality(s)
        /\ {b.open, b.high, b.low, b.close} \subseteq {topic[i].price : i \in s}
        /\ b.low <= b.close /\ b.close <= b.high /\ b.close = topic[Max(s)].price
    <3> HIDE DEF s
    <3> QED BY <1>5, <1>13, <2>1, BucketFacts
  <2>3. Max(q) = Max(s)
    <3>1. Max(s) \in s /\ \A y \in s : y <= Max(s)
      <4> HIDE DEF s
      <4> QED BY <1>5, <1>13, <2>1, MaxMin
    <3>2. \A y \in r : y \in Int /\ y < position
      BY <1>2 DEF TradesOf
    <3>3. Max(s) \in q /\ \A y \in q : y <= Max(s)
      <4> HIDE DEF s, q, r
      <4> QED BY <1>2, <1>5, <1>7, <3>1, <3>2
    <3>4. q \in SUBSET Int
      BY <1>2, <1>6
    <3> HIDE DEF s, q, r
    <3> QED BY <1>6, <3>3, <3>4, MaxIs
  <2>4. /\ candle'[m].volume = b.volume /\ candle'[m].high = b.high /\ candle'[m].low = b.low
        /\ candle'[m].close = b.close
        /\ candle'[m].open = b.open \/ (candle[m] # NoCandle /\ candle'[m].open = candle[m].open)
    <3> HIDE DEF s, b
    <3>1. candle'[m] = Upsert(candle[m], b)
      BY <1>4, <1>13 DEF b
    <3> QED BY <2>2, <3>1 DEF Upsert
  <2>5. {topic[i].price : i \in s} \subseteq {topic[i].price : i \in all}
    BY <1>5
  <2>6. {candle'[m].open, candle'[m].high, candle'[m].low, candle'[m].close}
             \subseteq {topic[i].price : i \in all}
    <3> DEFINE P == {topic[i].price : i \in s}
               Q == {topic[i].price : i \in all}
    <3>1. /\ {b.open, b.high, b.low, b.close} \subseteq P /\ P \subseteq Q
          /\ candle[m] # NoCandle => candle[m].open \in Q
      BY <1>9, <2>2, <2>5
    <3> HIDE DEF P, Q, b, s, all
    <3>2. {candle'[m].open, candle'[m].high, candle'[m].low, candle'[m].close} \subseteq Q
      BY <2>4, <3>1
    <3> QED BY <3>2 DEF Q
  <2> HIDE DEF b, s, q, r, all
  <2> QED BY <1>5, <2>2, <2>3, <2>4, <2>6
<1> QED BY <1>12, <1>13
\* The batch is stored.
LEMMA StoreBatchConsumerInv ==
    ASSUME ConsumerInv, StoreBatch
    PROVE  ConsumerInv'
<1>1. /\ batch # NoBatch /\ ~batch.stored /\ Store /\ batch' = [batch EXCEPT !.stored = TRUE]
      /\ UNCHANGED <<worker, topic, position, committed, hour, joined, jumped, crashes, failures>>
  BY DEF StoreBatch, bounds
<1>2. /\ position \in Nat \ {0} /\ batch \in [to : Nat, stored : BOOLEAN] /\ committed \in Nat
      /\ batch.to \in position..Len(topic) /\ committed <= position /\ Len(topic) \in Nat
      /\ Offsets = 1..Len(topic) /\ Offsets' = Offsets
  BY <1>1 DEF ConsumerInv, WorkerFits, TypeOK, Offsets
<1>3. batch' \in [to : Nat, stored : BOOLEAN] /\ batch'.to = batch.to /\ batch'.stored
  BY <1>1, <1>2
<1>4. StoredTo = position - 1 /\ StoredTo' = batch.to
  BY <1>1, <1>2, <1>3 DEF StoredTo
<1>5. /\ candle' \in [Minutes -> [open : Nat, high : Nat, low : Nat, close : Nat, volume : Nat]]
      /\ \A k \in DOMAIN object' : k[2] \in Nat /\ object'[k] \in Nat
      /\ worker = "audit-logger" =>
           /\ \A i \in Offsets : i \in position..batch.to => i \notin Unstored'
           /\ \A i \in Offsets : i < position /\ i \notin Unstored => i \notin Unstored'
           /\ candle' = candle
  BY <1>1, StoreKeeps
<1>6. TypeOK'
  BY <1>1, <1>3, <1>5 DEF ConsumerInv, TypeOK
<1>7. WorkerFits'
  BY <1>1, <1>2, <1>3 DEF ConsumerInv, WorkerFits
<1>8. ArchiveInv'
  <2> SUFFICES ASSUME worker = "audit-logger", NEW i \in Offsets, i <= batch.to \/ i < committed
               PROVE  Archived(i)'
    BY <1>1, <1>2, <1>4 DEF ArchiveInv
  <2>1. CASE i < position
    <3>1. Archived(i)
      BY <1>2, <1>4, <2>1 DEF ConsumerInv, ArchiveInv
    <3> QED BY <1>1, <1>5, <2>1, <3>1 DEF Archived
  <2>2. CASE i \in position..batch.to
    BY <1>5, <2>2 DEF Archived
  <2> QED BY <1>2, <2>1, <2>2
<1>9. OnceInv' /\ ArchiveOnceUntilReplay'
  <2>1. SUFFICES ASSUME crashes = 0, failures = 0
                 PROVE  OnceInv' /\ ArchiveOnceUntilReplay'
    BY <1>1 DEF OnceInv, ArchiveOnceUntilReplay
  <2>2. \A k \in DOMAIN object : object[k] \in k[2]..(position - 1) /\ k[2] \in Nat
    BY <1>4, <2>1 DEF ConsumerInv, OnceInv, TypeOK
  <2>3. CASE worker = "candle-aggregator"
    <3>1. object' = object
      BY <1>1, <2>3 DEF Store
    <3>2. OnceInv'
      BY <1>2, <1>4, <2>2, <3>1 DEF OnceInv
    <3> QED BY <1>1, <2>3, <3>2 DEF ArchiveOnceUntilReplay
  <2>4. CASE worker = "audit-logger"
    <3>1. PutObject(position, batch.to) /\ TypeOK /\ batch.to \in Nat
      BY <1>1, <1>2, <2>4 DEF Store, ConsumerInv
    <3>2. PICK n : /\ DOMAIN object' = DOMAIN object \cup {n} /\ object'[n] = batch.to /\ n[2] = position
                   /\ \A k \in DOMAIN object : k # n => object'[k] = object[k]
      BY <1>1, <1>2, <3>1, PutObjectFacts
    <3>3. OnceInv'
      <4>1. ASSUME NEW k \in DOMAIN object' PROVE object'[k] \in k[2]..batch.to
        BY <1>2, <2>2, <3>2
      <4> QED BY <1>4, <4>1 DEF OnceInv
    <3>4. ArchiveOnceUntilReplay'
      <4> SUFFICES ASSUME NEW k \in DOMAIN object', NEW l \in DOMAIN object', k # l
                   PROVE  (k[2]..object'[k]) \cap (l[2]..object'[l]) = {}
        BY DEF ArchiveOnceUntilReplay
      <4>1. CASE k = n
        <5>1. object'[l] \in l[2]..(position - 1)
          BY <2>2, <3>2, <4>1
        <5> QED BY <1>2, <3>2, <4>1, <5>1
      <4>2. CASE l = n
        <5>1. object'[k] \in k[2]..(position - 1)
          BY <2>2, <3>2, <4>2
        <5> QED BY <1>2, <3>2, <4>2, <5>1
      <4>3. CASE k # n /\ l # n
        BY <2>1, <2>4, <3>2, <4>3 DEF ConsumerInv, ArchiveOnceUntilReplay
      <4> QED BY <4>1, <4>2, <4>3
    <3> QED BY <3>3, <3>4
  <2> QED BY <2>3, <2>4 DEF ConsumerInv, TypeOK, Workers
<1>10. CandleInv'
  <2>1. CASE worker = "candle-aggregator"
    BY <2>1, UpsertCandleInv
  <2>2. CASE worker = "audit-logger"
    <3>1. \A m \in Minutes : candle[m] = NoCandle
      BY <2>2 DEF ConsumerInv, CandleInv
    <3> QED BY <1>5, <2>2, <3>1 DEF CandleInv
  <2> QED BY <2>1, <2>2 DEF ConsumerInv, TypeOK, Workers
<1> QED BY <1>6, <1>7, <1>8, <1>9, <1>10 DEF ConsumerInv

\* The store fails, though an upload may have been made: the offsets below the
\* position are untouched, and the worker is there or has left.
LEMMA StoreFailsConsumerInv ==
    ASSUME ConsumerInv, StoreFails
    PROVE  ConsumerInv'
<1>1. /\ batch # NoBatch /\ ~batch.stored /\ batch' = NoBatch /\ position' \in {position, 0}
      /\ UNCHANGED <<candle, object>> \/ (worker = "audit-logger" /\ Store)
      /\ failures' = failures + 1 /\ UNCHANGED <<worker, topic, committed, hour, joined, jumped, crashes>>
  BY DEF StoreFails, stores
<1>2. /\ position \in Nat \ {0} /\ batch \in [to : Nat, stored : BOOLEAN] /\ committed \in Nat
      /\ position <= Len(topic) /\ joined \in 1..position /\ committed <= position /\ Len(topic) \in Nat
      /\ Offsets = 1..Len(topic) /\ Offsets' = Offsets /\ failures \in Nat
  BY <1>1 DEF ConsumerInv, WorkerFits, TypeOK, Offsets
<1>3. batch' \in [to : Nat, stored : BOOLEAN] /\ ~batch'.stored
  BY <1>1 DEF NoBatch
<1>4. StoredTo = position - 1 /\ StoredTo' \in {position - 1, -1}
  <2>1. StoredTo = position - 1
    BY <1>1 DEF StoredTo
  <2>2. StoredTo' = position' - 1
    BY <1>3 DEF StoredTo
  <2>3. position' - 1 = position - 1 \/ position' - 1 = -1
    <3>1. position' = position \/ position' = 0
      BY <1>1
    <3> QED BY <3>1
  <2> QED BY <2>1, <2>2, <2>3
<1>5. /\ candle' = candle
      /\ \A k \in DOMAIN object' : k[2] \in Nat /\ object'[k] \in Nat
      /\ worker = "audit-logger" =>
           \A i \in Offsets : i < position /\ i \notin Unstored => i \notin Unstored'
  <2>1. CASE UNCHANGED <<candle, object>>
    <3>1. Unstored' = Unstored
      BY <1>1, <2>1 DEF Unstored, Offsets
    <3>2. \A k \in DOMAIN object : k[2] \in Nat /\ object[k] \in Nat
      BY DEF ConsumerInv, TypeOK
    <3> QED BY <2>1, <3>1, <3>2
  <2>2. CASE worker = "audit-logger" /\ Store
    BY <1>1, <2>2, StoreKeeps
  <2> QED BY <1>1, <2>1, <2>2
<1>6. TypeOK'
  BY <1>1, <1>2, <1>3, <1>5 DEF ConsumerInv, TypeOK
<1>7. WorkerFits'
  BY <1>1, <1>2 DEF ConsumerInv, WorkerFits
<1>8. ArchiveInv'
  <2> SUFFICES ASSUME worker = "audit-logger", NEW i \in Offsets, i <= StoredTo' \/ i < committed
               PROVE  Archived(i)'
    BY <1>1, <1>2 DEF ArchiveInv
  <2>1. i < position
    BY <1>2, <1>4
  <2>2. Archived(i)
    BY <1>2, <1>4, <2>1 DEF ConsumerInv, ArchiveInv
  <2> QED BY <1>1, <1>5, <2>1, <2>2 DEF Archived
<1>9. OnceInv' /\ ArchiveOnceUntilReplay'
  BY <1>1, <1>2 DEF OnceInv, ArchiveOnceUntilReplay
<1>10. CandleInv'
  <2>1. StoredTo' = StoredTo \/ joined' > StoredTo'
    BY <1>1, <1>2, <1>4
  <2> QED BY <1>1, <1>2, <1>4, <1>5, <2>1, CandleFrame
<1> QED BY <1>6, <1>7, <1>8, <1>9, <1>10 DEF ConsumerInv

-----------------------------------------------------------------------------
(* The results.                                                            *)

\* Every step keeps the invariant.
LEMMA NextConsumerInv == ConsumerInv /\ [Next]_vars => ConsumerInv'
<1> SUFFICES ASSUME ConsumerInv, [Next]_vars PROVE ConsumerInv'
  OBVIOUS
<1>1. CASE UNCHANGED vars
  <2>1. UNCHANGED <<StoredTo, Unstored, Offsets>>
    BY <1>1 DEF vars, StoredTo, Unstored, Offsets
  <2>2. TypeOK' /\ WorkerFits' /\ ArchiveInv'
    BY <1>1, <2>1 DEF vars, ConsumerInv, TypeOK, WorkerFits, ArchiveInv, Archived
  <2>3. OnceInv' /\ ArchiveOnceUntilReplay'
    BY <1>1, <2>1 DEF vars, ConsumerInv, OnceInv, ArchiveOnceUntilReplay
  <2>4. CandleInv'
    BY <1>1, <2>1, StoredFacts, CandleFrame DEF vars
  <2> QED BY <2>2, <2>3, <2>4 DEF ConsumerInv
<1>2. CASE Next
  BY <1>2, PublishConsumerInv, WorkerConsumerInv, StoreBatchConsumerInv, StoreFailsConsumerInv DEF Next
<1> QED BY <1>1, <1>2

\* ConsumerInv holds in every reachable state of any instance.
THEOREM ConsumerInvariance == Spec => []ConsumerInv
BY InitConsumerInv, NextConsumerInv, PTL DEF Spec

\* Every event audit-logger has passed is in some S3 object, unless it was
\* jumped over by a group without a committed offset: however batches are cut,
\* uploads fail or time out after taking effect, objects of one name overwrite
\* each other and the worker dies and comes back.
THEOREM NothingMissingFromArchive == Spec => []ArchiveIsComplete
<1>1. ConsumerInv => ArchiveIsComplete
  <2> SUFFICES ASSUME ConsumerInv, worker = "audit-logger", NEW i \in 1..(position - 1)
               PROVE  i \in jumped \/ i \notin Unstored
    BY DEF ArchiveIsComplete
  <2>1. i <= StoredTo
    BY StoredFacts
  <2>2. i \in Offsets => Archived(i)
    BY <2>1 DEF ConsumerInv, ArchiveInv
  <2> QED BY <2>2 DEF Archived, Unstored
<1> QED BY <1>1, ConsumerInvariance, PTL

\* Until a crash or a failed upload, no event is in two objects.
THEOREM ArchivedOnce == Spec => []ArchiveOnceUntilReplay
<1>1. ConsumerInv => ArchiveOnceUntilReplay
  BY DEF ConsumerInv
<1> QED BY <1>1, ConsumerInvariance, PTL

\* No cutting of the trades into batches and no replay makes a candle state
\* more volume than its minute has, a price it has not, or, between batches, a
\* close other than that of the last trade read.
THEOREM CandlesNeverOverstate == Spec => []CandleNeverOverstates
<1>1. ConsumerInv => CandleNeverOverstates
  <2> SUFFICES ASSUME ConsumerInv, NEW m \in Minutes, candle[m] # NoCandle
               PROVE  LET s      == TradesOf(m, 1, Len(topic))
                          recent == TradesOf(m, joined, position - 1)
                      IN  /\ candle[m].volume <= Cardinality(s)
                          /\ {candle[m].open, candle[m].high, candle[m].low, candle[m].close}
                                \subseteq {topic[i].price : i \in s}
                          /\ candle[m].low <= candle[m].close /\ candle[m].close <= candle[m].high
                          /\ batch = NoBatch /\ recent # {} => candle[m].close = topic[Max(recent)].price
    BY DEF CandleNeverOverstates
  <2>1. CandleFits(m)
    BY DEF ConsumerInv, CandleInv
  <2>2. batch = NoBatch => StoredTo = position - 1
    BY DEF StoredTo, NoBatch
  <2> QED BY <2>1, <2>2 DEF CandleFits
<1> QED BY <1>1, ConsumerInvariance, PTL

-----------------------------------------------------------------------------
(* The two folds of the candle query: the rows merged into bars, oldest    *)
(* first, and the sum of volumes that its definition takes in any order.   *)
(* kind tells which of the two is meant.                                   *)

Taken(kind, s) == IF kind = "sum" THEN CHOOSE x \in s : TRUE ELSE Max(s)
Combine(kind, x, v) == IF kind = "sum" THEN candle[x].volume + v ELSE Merge(v, x)
FoldStep(kind, g, s) ==
    IF s = {} THEN IF kind = "sum" THEN 0 ELSE << >>
    ELSE Combine(kind, Taken(kind, s), g[s \ {Taken(kind, s)}])
Iterates(kind, S, g) == g = [s \in SUBSET S |-> FoldStep(kind, g, s)]

\* Either fold takes a member of the set.
LEMMA TakenIn ==
    ASSUME NEW kind, NEW s \in SUBSET Nat, IsFiniteSet(s), s # {}
    PROVE  Taken(kind, s) \in s
<1>1. Max(s) \in s
  BY MaxMin
<1>2. (CHOOSE x \in s : TRUE) \in s
  OBVIOUS
<1> QED BY <1>1, <1>2 DEF Taken

\* Two runs of a fold agree on every set both reach.
LEMMA IterAgree ==
    ASSUME NEW kind, NEW S, NEW T, NEW g, NEW h, Iterates(kind, S, g), Iterates(kind, T, h),
           NEW U \in SUBSET Nat, U \subseteq S, U \subseteq T, IsFiniteSet(U)
    PROVE  g[U] = h[U]
<1> DEFINE B == {s \in SUBSET U : g[s] # h[s]}
<1>1. SUFFICES ASSUME B # {} PROVE FALSE
  OBVIOUS
<1>2. PICK x \in B : \A y \in SUBSET x : y # x => y \notin B
  <2>1. B \subseteq SUBSET U
    OBVIOUS
  <2> HIDE DEF B
  <2> QED BY <1>1, <2>1, Smallest
<1>3. g[x] = FoldStep(kind, g, x) /\ h[x] = FoldStep(kind, h, x)
  BY DEF Iterates
<1>4. x # {} BY <1>3 DEF FoldStep
<1>5. IsFiniteSet(x) /\ x \in SUBSET Nat
  BY FS_Subset
<1> DEFINE p == Taken(kind, x)
<1>6. p \in x BY <1>4, <1>5, TakenIn
<1> HIDE DEF p
<1>7. x \ {p} \notin B /\ x \ {p} \in SUBSET U
  BY <1>2, <1>6
<1>8. g[x \ {p}] = h[x \ {p}]
  BY <1>7
<1> QED BY <1>3, <1>4, <1>8 DEF FoldStep, p

\* The recursive function of a fold exists: the CHOOSE in it means something.
LEMMA IterExists ==
    ASSUME NEW kind, NEW S \in SUBSET Nat, IsFiniteSet(S)
    PROVE  \E g : Iterates(kind, S, g)
<1> DEFINE B == {s \in SUBSET S : ~\E g : Iterates(kind, s, g)}
<1>1. SUFFICES ASSUME B # {} PROVE FALSE
  OBVIOUS
<1>2. PICK T \in B : \A y \in SUBSET T : y # T => y \notin B
  <2>1. B \subseteq SUBSET S
    OBVIOUS
  <2> HIDE DEF B
  <2> QED BY <1>1, <2>1, Smallest
<1> DEFINE G(s) == CHOOSE g : Iterates(kind, s, g)
           v == [s \in SUBSET T |-> G(s)[s]]
           w == [s \in SUBSET T |-> IF s = T THEN FoldStep(kind, v, s) ELSE v[s]]
<1>3. \A s \in SUBSET T : s # T => Iterates(kind, s, G(s))
  BY <1>2
<1> HIDE DEF G
<1>4. ASSUME NEW s \in SUBSET T PROVE w[s] = FoldStep(kind, w, s)
  <2>1. CASE s = {} /\ s = T
    BY <2>1 DEF FoldStep
  <2>2. CASE s = {} /\ s # T
    <3>1. w[s] = G(s)[s]
      BY <2>2
    <3>2. G(s)[s] = FoldStep(kind, G(s), s)
      BY <1>3, <2>2 DEF Iterates
    <3> QED BY <2>2, <3>1, <3>2 DEF FoldStep
  <2>3. CASE s # {}
    <3> DEFINE p == Taken(kind, s)
               r == s \ {p}
    <3>0. IsFiniteSet(s) /\ s \in SUBSET Nat
      BY FS_Subset
    <3>1. p \in s BY <2>3, <3>0, TakenIn
    <3>6. \A g : FoldStep(kind, g, s) = Combine(kind, p, g[r])
      BY <2>3 DEF FoldStep
    <3> HIDE DEF p
    <3>2. r \in SUBSET T /\ r # T /\ r \subseteq s /\ r # s
      BY <3>1
    <3>3. w[r] = v[r] /\ v[r] = G(r)[r]
      BY <3>2
    <3>4. CASE s = T
      BY <3>4, <3>6, <3>3
    <3>5. CASE s # T
      <4>1. w[s] = G(s)[s]
        BY <3>5
      <4>2. G(s)[s] = FoldStep(kind, G(s), s)
        BY <1>3, <3>5 DEF Iterates
      <4>3. IsFiniteSet(r) /\ r \in SUBSET Nat
        BY <3>0, <3>2, FS_Subset
      <4>4. Iterates(kind, s, G(s)) /\ Iterates(kind, r, G(r))
        BY <1>3, <3>2, <3>5
      <4>5. G(s)[r] = G(r)[r]
        BY <4>3, <4>4, <3>2, IterAgree
      <4> HIDE DEF r
      <4> QED BY <4>1, <4>2, <4>5, <3>3, <3>6
    <3> QED BY <3>4, <3>5
  <2> QED BY <2>1, <2>2, <2>3
<1>5. Iterates(kind, T, w)
  BY <1>4 DEF Iterates
<1> QED BY <1>5, <1>2

\* The value of a fold.
Folded(kind, S) == (CHOOSE g : Iterates(kind, S, g))[S]

\* It takes its members one at a time.
LEMMA FoldedTakes ==
    ASSUME NEW kind, NEW S \in SUBSET Nat, IsFiniteSet(S)
    PROVE  /\ S = {} => Folded(kind, S) = IF kind = "sum" THEN 0 ELSE << >>
           /\ S # {} => /\ Taken(kind, S) \in S
                        /\ Folded(kind, S) = Combine(kind, Taken(kind, S), Folded(kind, S \ {Taken(kind, S)}))
<1> DEFINE g == CHOOSE h : Iterates(kind, S, h)
<1>1. Iterates(kind, S, g)
  BY IterExists
<1>2. Folded(kind, S) = g[S]
  BY DEF Folded
<1> HIDE DEF g
<1>3. g[S] = FoldStep(kind, g, S)
  BY <1>1 DEF Iterates
<1>4. CASE S = {}
  BY <1>2, <1>3, <1>4 DEF FoldStep
<1>5. CASE S # {}
  <2> DEFINE p == Taken(kind, S)
             r == S \ {p}
             k == CHOOSE h : Iterates(kind, r, h)
  <2>1. p \in S
    BY <1>5, TakenIn
  <2>2. g[S] = Combine(kind, p, g[r])
    BY <1>3, <1>5 DEF FoldStep
  <2>3. IsFiniteSet(r) /\ r \in SUBSET Nat /\ r \subseteq S
    BY FS_Subset
  <2> HIDE DEF p, r
  <2>4. Iterates(kind, r, k)
    BY <2>3, IterExists
  <2> HIDE DEF k
  <2>5. g[r] = k[r]
    BY <1>1, <2>3, <2>4, IterAgree
  <2>6. Folded(kind, r) = k[r]
    BY DEF Folded, k
  <2> QED BY <1>2, <1>5, <2>1, <2>2, <2>5, <2>6 DEF p, r
<1> QED BY <1>4, <1>5

\* The operators of the library are these folds.
LEMMA FoldedIs ==
    ASSUME NEW S
    PROVE  /\ MapThenSumSet(LAMBDA m : candle[m].volume, S) = Folded("sum", S)
           /\ Buckets(S) = Folded("bars", S)
<1>1. MapThenSumSet(LAMBDA m : candle[m].volume, S) = Folded("sum", S)
  <2> DEFINE it == CHOOSE g : g = [s \in SUBSET S |-> IF s = {} THEN 0
                          ELSE candle[CHOOSE x \in s : TRUE].volume + g[s \ {CHOOSE x \in s : TRUE}]]
  <2>1. MapThenSumSet(LAMBDA m : candle[m].volume, S) = it[S]
    BY DEF MapThenSumSet, MapThenFoldSet
  <2>2. it = CHOOSE g : Iterates("sum", S, g)
    BY DEF Iterates, FoldStep, Taken, Combine
  <2> QED BY <2>1, <2>2 DEF Folded
<1>2. Buckets(S) = Folded("bars", S)
  <2> DEFINE it == CHOOSE g : g = [s \in SUBSET S |-> IF s = {} THEN << >>
                          ELSE Merge(g[s \ {Max(s)}], Max(s))]
  <2>1. Buckets(S) = it[S]
    BY DEF Buckets, MapThenFoldSet
  <2>2. it = CHOOSE g : Iterates("bars", S, g)
    BY DEF Iterates, FoldStep, Taken, Combine
  <2> QED BY <2>1, <2>2 DEF Folded
<1> QED BY <1>1, <1>2

-----------------------------------------------------------------------------
(* The bars of the candle query.                                           *)

\* A minute belongs to one bar, and a later bar has later minutes.
LEMMA BarFacts ==
    ASSUME NEW k \in Nat, NEW m \in Nat
    PROVE  BarOf(k) \in Nat /\ (BarOf(k) < BarOf(m) => k < m)
<1>0. Interval \in Nat /\ Interval > 0
  BY TradeConsumersAssumption
<1>1. \A n \in Nat : n \div Interval \in Nat
  BY <1>0
<1>2. \A n \in Nat : Interval * (n \div Interval) <= n /\ n < Interval * (n \div Interval) + Interval
  BY <1>0
<1> DEFINE a == k \div Interval
           b == m \div Interval
<1>3. a \in Nat /\ b \in Nat
  BY <1>1
<1>4. Interval * a <= k /\ k < Interval * a + Interval /\ Interval * b <= m
  BY <1>2
<1> HIDE DEF a, b
<1>5. ASSUME a < b PROVE k < m
  <2>1. Interval * (a + 1) = Interval * a + Interval
    BY <1>0, <1>3
  <2>2. a + 1 <= b
    BY <1>3, <1>5
  <2>3. Interval * (a + 1) <= Interval * b
    BY <1>0, <1>3, <2>2
  <2>4. Interval * a \in Nat /\ Interval * b \in Nat
    BY <1>0, <1>3
  <2> QED BY <1>0, <1>4, <2>1, <2>3, <2>4
<1> QED BY <1>3, <1>5 DEF a, b, BarOf

\* There is one smallest member.
LEMMA MinIs ==
    ASSUME NEW S \in SUBSET Int, IsFiniteSet(S), NEW x \in S, \A y \in S : x <= y
    PROVE  Min(S) = x
<1>1. Min(S) \in S /\ Min(S) <= x
  BY MaxMin
<1>2. x \in Int /\ Min(S) \in Int /\ x <= Min(S)
  BY <1>1
<1> QED BY <1>1, <1>2

\* The extremes of a set to which a member is added.
LEMMA ExtremesAdd ==
    ASSUME NEW S \in SUBSET Int, IsFiniteSet(S), S # {}, NEW x \in Int
    PROVE  Max(S \cup {x}) = Max({Max(S), x}) /\ Min(S \cup {x}) = Min({Min(S), x})
<1>1. /\ Max(S) \in S /\ \A y \in S : y <= Max(S)
      /\ Min(S) \in S /\ \A y \in S : Min(S) <= y
  BY MaxMin
<1> DEFINE h == Max(S)
           l == Min(S)
<1> HIDE DEF h, l
<1>2. h \in Int /\ l \in Int /\ h \in S /\ l \in S /\ \A y \in S : y \in Int /\ y <= h /\ l <= y
  BY <1>1 DEF h, l
<1>3. /\ IsFiniteSet({h, x}) /\ IsFiniteSet({l, x}) /\ IsFiniteSet(S \cup {x})
  <2>1. {h, x} = {h} \cup {x} /\ {l, x} = {l} \cup {x}
    OBVIOUS
  <2>2. IsFiniteSet({h} \cup {x}) /\ IsFiniteSet({l} \cup {x}) /\ IsFiniteSet(S \cup {x})
    BY FS_Singleton, FS_AddElement
  <2> QED BY <2>1, <2>2
<1> DEFINE u == IF h >= x THEN h ELSE x
           d == IF l <= x THEN l ELSE x
<1>4. u \in {h, x} /\ d \in {l, x} /\ u \in Int /\ d \in Int /\ h <= u /\ x <= u /\ d <= l /\ d <= x
  BY <1>2
<1> HIDE DEF u, d
<1>5. u \in S \cup {x} /\ d \in S \cup {x} /\ \A y \in S \cup {x} : y <= u /\ d <= y
  BY <1>2, <1>4
<1>6. Max(S \cup {x}) = u /\ Min(S \cup {x}) = d
  <2>1. S \cup {x} \in SUBSET Int
    OBVIOUS
  <2> QED BY <1>3, <1>5, <2>1, MaxIs, MinIs
<1>7. Max({h, x}) = u /\ Min({l, x}) = d
  <2>1. {h, x} \in SUBSET Int /\ {l, x} \in SUBSET Int
    BY <1>2
  <2>2. (\A y \in {h, x} : y <= u) /\ (\A y \in {l, x} : d <= y)
    BY <1>4
  <2> QED BY <1>3, <1>4, <2>1, <2>2, MaxIs, MinIs
<1> QED BY <1>6, <1>7 DEF h, l

\* The rows have five columns, all numbers.
LEMMA RowType ==
    ASSUME TypeOK, NEW m \in Minutes
    PROVE  /\ m \in Nat
           /\ candle[m] = [open |-> candle[m].open, high |-> candle[m].high, low |-> candle[m].low,
                           close |-> candle[m].close, volume |-> candle[m].volume]
           /\ candle[m].open \in Nat /\ candle[m].high \in Nat /\ candle[m].low \in Nat
           /\ candle[m].close \in Nat /\ candle[m].volume \in Nat
<1>1. candle[m] \in [open : Nat, high : Nat, low : Nat, close : Nat, volume : Nat]
  BY DEF TypeOK
<1> QED BY <1>1, TradeConsumersAssumption

\* The sum of volumes is a number.
LEMMA VolumeType ==
    ASSUME TypeOK, NEW S \in SUBSET Minutes, IsFiniteSet(S)
    PROVE  Folded("sum", S) \in Int
<1>0. Minutes \subseteq Nat
  BY TradeConsumersAssumption
<1> DEFINE B == {s \in SUBSET S : Folded("sum", s) \notin Int}
<1>1. SUFFICES ASSUME B # {} PROVE FALSE
  OBVIOUS
<1>2. PICK T \in B : \A y \in SUBSET T : y # T => y \notin B
  <2>1. B \subseteq SUBSET S
    OBVIOUS
  <2> HIDE DEF B
  <2> QED BY <1>1, <2>1, Smallest
<1>3. IsFiniteSet(T) /\ T \in SUBSET Nat
  BY <1>0, FS_Subset
<1>4. T # {}
  <2>1. Folded("sum", {}) = 0
    BY FS_EmptySet, FoldedTakes
  <2> QED BY <2>1
<1> DEFINE p == Taken("sum", T)
<1>5. p \in T /\ Folded("sum", T) = candle[p].volume + Folded("sum", T \ {p})
  BY <1>3, <1>4, FoldedTakes DEF Combine
<1> HIDE DEF p
<1>6. Folded("sum", T \ {p}) \in Int
  BY <1>2, <1>5
<1>7. candle[p].volume \in Nat
  <2>1. p \in Minutes
    BY <1>5
  <2> QED BY <2>1, RowType
<1>8. Folded("sum", T) \in Int
  BY <1>5, <1>6, <1>7
<1> QED BY <1>8

\* The order of its summands does not matter.
LEMMA VolumeRemove ==
    ASSUME TypeOK, NEW S \in SUBSET Minutes, IsFiniteSet(S), NEW x \in S
    PROVE  Folded("sum", S) = candle[x].volume + Folded("sum", S \ {x})
<1>0. Minutes \subseteq Nat
  BY TradeConsumersAssumption
<1> DEFINE V(m) == candle[m].volume
           B == {s \in SUBSET S : \E y \in s : Folded("sum", s) # V(y) + Folded("sum", s \ {y})}
<1>1. SUFFICES ASSUME B # {} PROVE FALSE
  OBVIOUS
<1>2. PICK T \in B : \A y \in SUBSET T : y # T => y \notin B
  <2>1. B \subseteq SUBSET S
    OBVIOUS
  <2> HIDE DEF B
  <2> QED BY <1>1, <2>1, Smallest
<1>3. PICK y \in T : Folded("sum", T) # V(y) + Folded("sum", T \ {y})
  OBVIOUS
<1>4. IsFiniteSet(T) /\ T \in SUBSET Nat
  BY <1>0, FS_Subset
<1> DEFINE p == Taken("sum", T)
<1>5. p \in T /\ Folded("sum", T) = V(p) + Folded("sum", T \ {p})
  BY <1>3, <1>4, FoldedTakes DEF Combine
<1>6. p # y
  BY <1>3, <1>5
<1>12. V(p) \in Int /\ V(y) \in Int
  <2>1. p \in Minutes /\ y \in Minutes
    BY <1>3, <1>5
  <2>2. V(p) \in Nat /\ V(y) \in Nat
    BY <2>1, RowType
  <2> QED BY <2>2
<1> HIDE DEF p, V
<1>7. Folded("sum", T \ {p}) = V(y) + Folded("sum", (T \ {p}) \ {y})
  BY <1>2, <1>5, <1>6
<1>8. Folded("sum", T \ {y}) = V(p) + Folded("sum", (T \ {y}) \ {p})
  <2>1. T \ {y} \in SUBSET T /\ T \ {y} # T /\ p \in T \ {y} /\ T \ {y} \in SUBSET S
    BY <1>5, <1>6
  <2>2. T \ {y} \notin B
    BY <1>2, <2>1
  <2> QED BY <2>1, <2>2
<1>9. (T \ {y}) \ {p} = (T \ {p}) \ {y}
  OBVIOUS
<1>10. IsFiniteSet((T \ {y}) \ {p}) /\ (T \ {y}) \ {p} \in SUBSET Minutes
  BY <1>4, FS_RemoveElement
<1>11. Folded("sum", (T \ {y}) \ {p}) \in Int
  BY <1>10, VolumeType
<1>13. Folded("sum", (T \ {p}) \ {y}) = Folded("sum", (T \ {y}) \ {p})
  BY <1>9
<1> DEFINE a == Folded("sum", (T \ {y}) \ {p})
<1>14. Folded("sum", T) = V(p) + (V(y) + a) /\ V(y) + Folded("sum", T \ {y}) = V(y) + (V(p) + a)
  BY <1>5, <1>7, <1>8, <1>13
<1>15. V(p) + (V(y) + a) = V(y) + (V(p) + a)
  <2> HIDE DEF a
  <2>1. a \in Int
    BY <1>11 DEF a
  <2> QED BY <1>12, <2>1
<1> HIDE DEF B
<1> QED BY <1>3, <1>14, <1>15

\* The values of a column over finitely many rows are finitely many numbers.
LEMMA ColumnFinite ==
    ASSUME TypeOK, NEW S \in SUBSET Minutes, IsFiniteSet(S)
    PROVE  /\ IsFiniteSet({candle[m].high : m \in S}) /\ {candle[m].high : m \in S} \in SUBSET Int
           /\ IsFiniteSet({candle[m].low : m \in S}) /\ {candle[m].low : m \in S} \in SUBSET Int
<1>1. \A m \in S : candle[m].high \in Nat /\ candle[m].low \in Nat
  BY RowType
<1>2. IsFiniteSet({candle[m].high : m \in S})
  <2> DEFINE f == [m \in S |-> candle[m].high]
  <2>1. f \in Surjection(S, {candle[m].high : m \in S})
    BY DEF Surjection
  <2> HIDE DEF f
  <2> QED BY <2>1, FS_Surjection
<1>3. IsFiniteSet({candle[m].low : m \in S})
  <2> DEFINE f == [m \in S |-> candle[m].low]
  <2>1. f \in Surjection(S, {candle[m].low : m \in S})
    BY DEF Surjection
  <2> HIDE DEF f
  <2> QED BY <2>1, FS_Surjection
<1> QED BY <1>1, <1>2, <1>3

\* The aggregate of one row is the row.
LEMMA AggregateOne ==
    ASSUME TypeOK, NEW x \in Minutes
    PROVE  Aggregate({x}) = candle[x]
<1>1. x \in Nat /\ IsFiniteSet({x}) /\ {x} \in SUBSET Int
  <2>1. x \in Nat
    BY RowType
  <2>2. IsFiniteSet({x})
    BY FS_Singleton
  <2> QED BY <2>1, <2>2
<1>2. Min({x}) = x /\ Max({x}) = x
  BY <1>1, MaxMin
<1>3. candle[x].high \in Nat /\ candle[x].low \in Nat /\ candle[x].volume \in Nat
  BY RowType
<1>4. /\ {candle[m].high : m \in {x}} = {candle[x].high}
      /\ {candle[m].low : m \in {x}} = {candle[x].low}
  OBVIOUS
<1>5. Max({candle[x].high}) = candle[x].high
  <2> DEFINE h == candle[x].high
  <2>0. h \in Nat
    BY <1>3
  <2> HIDE DEF h
  <2>1. {h} \in SUBSET Int
    BY <2>0
  <2>3. IsFiniteSet({h})
    BY FS_Singleton
  <2>2. Max({h}) \in {h}
    BY <2>1, <2>3, MaxMin
  <2> QED BY <2>2 DEF h
<1>6. Min({candle[x].low}) = candle[x].low
  <2> DEFINE l == candle[x].low
  <2>0. l \in Nat
    BY <1>3
  <2> HIDE DEF l
  <2>1. {l} \in SUBSET Int
    BY <2>0
  <2>3. IsFiniteSet({l})
    BY FS_Singleton
  <2>2. Min({l}) \in {l}
    BY <2>1, <2>3, MaxMin
  <2> QED BY <2>2 DEF l
<1>7. MapThenSumSet(LAMBDA m : candle[m].volume, {x}) = candle[x].volume
  <2>1. Folded("sum", {x}) = candle[x].volume + Folded("sum", {x} \ {x})
    BY <1>1, VolumeRemove
  <2>2. {x} \ {x} = {} /\ Folded("sum", {}) = 0
    BY FS_EmptySet, FoldedTakes
  <2>3. Folded("sum", {x}) = candle[x].volume + 0
    BY <2>1, <2>2
  <2> DEFINE v == candle[x].volume
  <2>4. v + 0 = v
    <3>1. v \in Nat
      BY <1>3
    <3> HIDE DEF v
    <3> QED BY <3>1
  <2> QED BY <2>3, <2>4, FoldedIs
<1>8. Aggregate({x}) = [open |-> candle[x].open, high |-> candle[x].high, low |-> candle[x].low,
                        close |-> candle[x].close, volume |-> candle[x].volume]
  BY <1>2, <1>4, <1>5, <1>6, <1>7 DEF Aggregate
<1> QED BY <1>8, RowType

\* A later row is merged into an aggregate.
LEMMA AggregateMore ==
    ASSUME TypeOK, NEW U \in SUBSET Minutes, IsFiniteSet(U), U # {},
           NEW x \in Minutes, \A m \in U : m < x
    PROVE  Aggregate(U \cup {x}) =
             [open   |-> Aggregate(U).open,
              high   |-> Max({Aggregate(U).high, candle[x].high}),
              low    |-> Min({Aggregate(U).low, candle[x].low}),
              close  |-> candle[x].close,
              volume |-> Aggregate(U).volume + candle[x].volume]
<1> DEFINE W == U \cup {x}
           H(S) == {candle[m].high : m \in S}
           L(S) == {candle[m].low : m \in S}
<1>1. /\ W \in SUBSET Minutes /\ IsFiniteSet(W) /\ W \in SUBSET Int /\ U \in SUBSET Int
      /\ x \in Nat /\ x \in W /\ x \notin U /\ W \ {x} = U
  <2>1. Minutes \subseteq Nat
    BY TradeConsumersAssumption
  <2>2. x \notin U
    BY <2>1
  <2> QED BY <2>1, <2>2, FS_AddElement
<1>2. Min(W) = Min(U)
  <2>1. Min(U) \in U /\ \A y \in U : Min(U) <= y
    BY <1>1, MaxMin
  <2> DEFINE l == Min(U)
  <2> HIDE DEF l
  <2>2. l \in U /\ \A y \in U : l <= y
    BY <2>1 DEF l
  <2>3. l < x /\ l \in Int
    BY <1>1, <2>2
  <2>4. \A y \in W : l <= y
    BY <1>1, <2>2, <2>3
  <2>5. l \in W
    BY <2>2
  <2> HIDE DEF W
  <2>6. Min(W) = l
    BY <1>1, <2>4, <2>5, MinIs
  <2> QED BY <2>6 DEF l
<1>3. Max(W) = x
  <2>1. \A y \in W : y <= x
    BY <1>1
  <2> QED BY <1>1, <2>1, MaxIs
<1>4. candle[x].high \in Int /\ candle[x].low \in Int /\ candle[x].volume \in Int
  <2>1. candle[x].high \in Nat /\ candle[x].low \in Nat /\ candle[x].volume \in Nat
    BY RowType
  <2> DEFINE a == candle[x].high
             b == candle[x].low
             c == candle[x].volume
  <2> HIDE DEF a, b, c
  <2>2. a \in Int /\ b \in Int /\ c \in Int
    BY <2>1 DEF a, b, c
  <2> QED BY <2>2 DEF a, b, c
<1>5. H(W) = H(U) \cup {candle[x].high} /\ L(W) = L(U) \cup {candle[x].low}
  OBVIOUS
<1>6. /\ IsFiniteSet(H(U)) /\ H(U) \in SUBSET Int /\ H(U) # {}
      /\ IsFiniteSet(L(U)) /\ L(U) \in SUBSET Int /\ L(U) # {}
  BY ColumnFinite
<1>7. Max(H(W)) = Max({Max(H(U)), candle[x].high}) /\ Min(L(W)) = Min({Min(L(U)), candle[x].low})
  <2> HIDE DEF H, L
  <2> QED BY <1>4, <1>5, <1>6, ExtremesAdd
<1>8. Folded("sum", W) = Folded("sum", U) + candle[x].volume
  <2>1. Folded("sum", W) = candle[x].volume + Folded("sum", W \ {x})
    BY <1>1, VolumeRemove
  <2>2. Folded("sum", U) \in Int
    BY VolumeType
  <2> DEFINE v == candle[x].volume
             w == Folded("sum", U)
  <2>3. v + w = w + v
    <3>1. v \in Int /\ w \in Int
      BY <1>4, <2>2
    <3> HIDE DEF v, w
    <3> QED BY <3>1
  <2> QED BY <1>1, <2>1, <2>3
<1>9. /\ Aggregate(U).open = candle[Min(U)].open /\ Aggregate(U).high = Max(H(U))
      /\ Aggregate(U).low = Min(L(U)) /\ Aggregate(U).volume = Folded("sum", U)
  BY FoldedIs DEF Aggregate
<1>10. Aggregate(W) = [open |-> candle[Min(W)].open, high |-> Max(H(W)), low |-> Min(L(W)),
                       close |-> candle[Max(W)].close, volume |-> Folded("sum", W)]
  BY FoldedIs DEF Aggregate
<1> HIDE DEF H, L, W
<1>11. Aggregate(W) = [open |-> Aggregate(U).open, high |-> Max({Aggregate(U).high, candle[x].high}),
                       low |-> Min({Aggregate(U).low, candle[x].low}), close |-> candle[x].close,
                       volume |-> Aggregate(U).volume + candle[x].volume]
  BY <1>2, <1>3, <1>7, <1>8, <1>9, <1>10
<1> QED BY <1>11 DEF W

\* What merging computes: for each bar with a row, the aggregate of its rows.
Bars(S) == [b \in {BarOf(m) : m \in S} |-> Aggregate({m \in S : BarOf(m) = b})]
LEMMA BucketsAre ==
    ASSUME TypeOK, NEW S \in SUBSET Minutes, IsFiniteSet(S)
    PROVE  Buckets(S) = Bars(S)
<1>0. Minutes \subseteq Nat
  BY TradeConsumersAssumption
<1> DEFINE B == {s \in SUBSET S : Folded("bars", s) # Bars(s)}
<1>1. SUFFICES ASSUME B # {} PROVE FALSE
  BY FoldedIs
<1>2. PICK T \in B : \A y \in SUBSET T : y # T => y \notin B
  <2>1. B \subseteq SUBSET S
    OBVIOUS
  <2> HIDE DEF B
  <2> QED BY <1>1, <2>1, Smallest
<1>3. IsFiniteSet(T) /\ T \in SUBSET Nat /\ T \in SUBSET Minutes /\ T \in SUBSET Int
  <2>1. T \in SUBSET S
    OBVIOUS
  <2> HIDE DEF B
  <2>2. IsFiniteSet(T)
    BY <2>1, FS_Subset
  <2>3. T \in SUBSET Nat /\ T \in SUBSET Minutes
    BY <1>0, <2>1
  <2>4. T \in SUBSET Int
    BY <2>3
  <2> QED BY <2>2, <2>3, <2>4
<1>4. T # {}
  <2>1. Folded("bars", {}) = << >>
    BY FS_EmptySet, FoldedTakes
  <2>2. Bars({}) = << >>
    BY DEF Bars
  <2> QED BY <2>1, <2>2
<1> DEFINE x == Max(T)
           R == T \ {x}
<1>5. x \in T /\ Folded("bars", T) = Merge(Folded("bars", R), x)
  <2>1. Taken("bars", T) = x
    BY DEF Taken
  <2>2. /\ Taken("bars", T) \in T
        /\ Folded("bars", T) = Combine("bars", Taken("bars", T), Folded("bars", T \ {Taken("bars", T)}))
    BY <1>3, <1>4, FoldedTakes
  <2>3. Combine("bars", x, Folded("bars", R)) = Merge(Folded("bars", R), x)
    BY DEF Combine
  <2> QED BY <2>1, <2>2, <2>3
<1>6. \A m \in R : m < x /\ m \in Nat
  <2>1. \A m \in T : m <= x
    BY <1>3, <1>4, MaxMin
  <2> HIDE DEF x
  <2> QED BY <1>3, <1>5, <2>1
<1> HIDE DEF x
<1>7. Folded("bars", R) = Bars(R)
  BY <1>2, <1>5
<1>8. IsFiniteSet(R) /\ R \in SUBSET Minutes /\ x \in Minutes
  BY <1>3, <1>5, FS_RemoveElement
<1> DEFINE D == {BarOf(m) : m \in R}
           c == BarOf(x)
           Of(s, d) == {m \in s : BarOf(m) = d}
<1>9. {BarOf(m) : m \in T} = D \cup {c} /\ DOMAIN Bars(R) = D
  BY <1>5 DEF Bars
<1>10. ASSUME NEW d \in D \cup {c} PROVE Merge(Bars(R), x)[d] = Aggregate(Of(T, d))
  <2>1. CASE d # c
    <3>1. Of(T, d) = Of(R, d) /\ d \in D
      BY <2>1
    <3>2. Merge(Bars(R), x)[d] = Bars(R)[d]
      BY <1>9, <2>1 DEF Merge
    <3> QED BY <3>1, <3>2 DEF Bars
  <2>2. CASE d = c /\ c \notin D
    <3>1. Of(T, d) = {x}
      BY <1>5, <2>2
    <3>2. Merge(Bars(R), x)[d] = candle[x]
      BY <1>9, <2>2 DEF Merge
    <3> QED BY <1>8, <3>1, <3>2, AggregateOne
  <2>3. CASE d = c /\ c \in D
    <3> DEFINE U == Of(R, c)
               A == Aggregate(U)
    <3>1. Of(T, d) = U \cup {x} /\ U # {} /\ U \in SUBSET R
      BY <1>5, <2>3
    <3>2. IsFiniteSet(U) /\ U \in SUBSET Minutes /\ \A m \in U : m < x
      BY <1>6, <1>8, <3>1, FS_Subset
    <3>3. Bars(R)[c] = A
      BY <2>3 DEF Bars
    <3> HIDE DEF U
    <3>4. Aggregate(U \cup {x}) =
             [open |-> A.open, high |-> Max({A.high, candle[x].high}),
              low |-> Min({A.low, candle[x].low}), close |-> candle[x].close,
              volume |-> A.volume + candle[x].volume]
      BY <1>8, <3>1, <3>2, AggregateMore
    <3> HIDE DEF A
    <3>5. Merge(Bars(R), x)[d] =
             [open |-> A.open, high |-> Max({A.high, candle[x].high}),
              low |-> Min({A.low, candle[x].low}), close |-> candle[x].close,
              volume |-> A.volume + candle[x].volume]
      BY <1>9, <2>3, <3>3 DEF Merge
    <3> QED BY <3>1, <3>4, <3>5
  <2> QED BY <2>1, <2>2, <2>3
<1>11. /\ Merge(Bars(R), x) = [d \in D \cup {c} |-> Merge(Bars(R), x)[d]]
       /\ Bars(T) = [d \in D \cup {c} |-> Aggregate(Of(T, d))]
  BY <1>9 DEF Merge, Bars
<1> HIDE DEF D, c, R, Of
<1>12. Merge(Bars(R), x) = Bars(T)
  BY <1>10, <1>11
<1> QED BY <1>5, <1>7, <1>12

\* There are finitely many candles: each has a trade of the topic.
LEMMA RowsFinite ==
    ASSUME ConsumerInv
    PROVE  IsFiniteSet(Rows) /\ Rows \in SUBSET Minutes
<1> DEFINE N == Len(topic)
           f == [i \in 1..N |-> topic[i].minute]
           M == {topic[i].minute : i \in 1..N}
<1>1. N \in Nat /\ IsFiniteSet(1..N)
  BY FS_Interval DEF ConsumerInv, TypeOK
<1>2. f \in Surjection(1..N, M)
  BY DEF Surjection
<1>3. IsFiniteSet(M)
  <2> HIDE DEF f, M, N
  <2> QED BY <1>1, <1>2, FS_Surjection
<1>4. ASSUME NEW m \in Rows PROVE m \in M
  <2>1. candle[m].open \in {topic[i].price : i \in TradesOf(m, 1, N)}
    BY DEF ConsumerInv, CandleInv, CandleFits, Rows
  <2>2. PICK i \in TradesOf(m, 1, N) : TRUE
    BY <2>1
  <2> QED BY <2>2 DEF TradesOf
<1>5. Rows \in SUBSET M
  BY <1>4
<1>6. IsFiniteSet(Rows)
  <2> HIDE DEF M
  <2> QED BY <1>3, <1>5, FS_Subset
<1> QED BY <1>6 DEF Rows

\* Of finitely many numbers, at most n have less than n above them.
LEMMA NewestBounded ==
    ASSUME NEW D \in SUBSET Nat, IsFiniteSet(D), NEW n \in Nat
    PROVE  Cardinality({b \in D : Cardinality({d \in D : d > b}) < n}) <= n
<1> DEFINE F == {b \in D : Cardinality({d \in D : d > b}) < n}
<1>1. F \in SUBSET D /\ IsFiniteSet(F) /\ F \in SUBSET Int
  <2>1. F \in SUBSET D
    OBVIOUS
  <2> HIDE DEF F
  <2>2. IsFiniteSet(F)
    BY <2>1, FS_Subset
  <2>3. F \in SUBSET Int
    BY <2>1
  <2> QED BY <2>1, <2>2, <2>3
<1>2. CASE F = {}
  <2>1. Cardinality(F) = 0
    BY <1>2, FS_EmptySet
  <2> QED BY <2>1
<1>3. CASE F # {}
  <2> DEFINE l == Min(F)
             A == {d \in D : d > l}
  <2>1. l \in F /\ \A y \in F : l <= y
    <3> HIDE DEF F
    <3> QED BY <1>1, <1>3, MaxMin
  <2>2. Cardinality(A) < n
    BY <2>1
  <2> HIDE DEF l
  <2>3. F \ {l} \in SUBSET A
    <3>1. F \in SUBSET Int /\ F \in SUBSET D
      BY <1>1
    <3> HIDE DEF F
    <3> QED BY <2>1, <3>1
  <2>4. IsFiniteSet(A) /\ Cardinality(A) \in Nat
    <3>1. A \in SUBSET D
      OBVIOUS
    <3> HIDE DEF A
    <3> QED BY <3>1, FS_Subset, FS_CardinalityType
  <2> HIDE DEF A, F
  <2>5. Cardinality(F \ {l}) <= Cardinality(A)
    BY <2>3, <2>4, FS_Subset
  <2>6. Cardinality(F \ {l}) = Cardinality(F) - 1 /\ Cardinality(F) \in Nat
    BY <1>1, <2>1, FS_RemoveElement, FS_CardinalityType
  <2>7. Cardinality(F) <= n
    BY <2>2, <2>4, <2>5, <2>6
  <2> QED BY <2>7 DEF F
<1> QED BY <1>2, <1>3

\* The bars of every query agree with their definition: only the oldest bar
\* with a row in the window can have rows before it.
LEMMA EveryQueryAgrees ==
    ASSUME ConsumerInv, NEW now \in Int, NEW take \in Nat
    PROVE  BarsAgree(now, take)
<1> DEFINE W == Window(now, take)
           D == {BarOf(m) : m \in W}
           newest == {b \in D : Cardinality({d \in D : d > b}) < take}
<1>1. W \in SUBSET Rows /\ W \in SUBSET Minutes /\ IsFiniteSet(W)
  <2>1. W \in SUBSET Rows
    BY DEF Window
  <2> HIDE DEF W
  <2> QED BY <2>1, RowsFinite, FS_Subset
<1>2. Minutes \subseteq Nat /\ Interval \in Nat
  BY TradeConsumersAssumption
<1>3. Buckets(W) = Bars(W) /\ DOMAIN Bars(W) = D
  <2>1. TypeOK
    BY DEF ConsumerInv
  <2>2. DOMAIN Bars(W) = D
    BY DEF Bars
  <2> HIDE DEF W
  <2> QED BY <1>1, <2>1, <2>2, BucketsAre
<1>4. D \in SUBSET Nat /\ IsFiniteSet(D)
  <2>1. \A m \in W : BarOf(m) \in Nat
    <3> HIDE DEF W
    <3> QED BY <1>1, <1>2, BarFacts
  <2>2. [m \in W |-> BarOf(m)] \in Surjection(W, D)
    <3> HIDE DEF W
    <3> QED BY DEF Surjection
  <2>3. IsFiniteSet(D)
    <3> HIDE DEF D, W
    <3> QED BY <1>1, <2>2, FS_Surjection
  <2> QED BY <2>1, <2>3
<1>5. Candles(now, take) = [b \in newest |-> Bars(W)[b]]
  BY <1>3 DEF Candles
<1>6. DOMAIN Candles(now, take) = newest
  BY <1>5
<1>7. Cardinality(newest) <= take
  <2> HIDE DEF D
  <2> QED BY <1>4, NewestBounded
<1>8. ASSUME NEW b \in newest, NEW d \in newest, d < b
      PROVE  Candles(now, take)[b] = Aggregate({m \in Rows : BarOf(m) = b})
  <2>1. b \in D /\ d \in D
    OBVIOUS
  <2>2. Candles(now, take)[b] = Aggregate({m \in W : BarOf(m) = b})
    <3>1. Candles(now, take)[b] = Bars(W)[b]
      BY <1>5
    <3>2. Bars(W)[b] = Aggregate({m \in W : BarOf(m) = b})
      BY <2>1 DEF Bars
    <3> QED BY <3>1, <3>2
  <2>3. PICK k \in W : BarOf(k) = d
    BY <2>1
  <2>4. ASSUME NEW m \in Rows, BarOf(m) = b PROVE m \in W
    <3>1. m \in Nat /\ k \in Nat
      BY <1>1, <1>2, <2>3, RowsFinite
    <3>2. k < m
      BY <1>8, <2>3, <2>4, <3>1, BarFacts
    <3>3. 2 * k >= now - 2 * take * Interval
      BY <2>3 DEF Window
    <3> DEFINE since == now - 2 * take * Interval
    <3>4. since \in Int
      BY <1>2
    <3> HIDE DEF since
    <3>5. 2 * k >= since
      BY <3>3 DEF since
    <3>6. 2 * m >= since
      BY <3>1, <3>2, <3>4, <3>5
    <3> QED BY <2>4, <3>6 DEF Window, since
  <2>5. {m \in W : BarOf(m) = b} = {m \in Rows : BarOf(m) = b}
    <3> HIDE DEF W
    <3> QED BY <1>1, <2>4
  <2> QED BY <2>2, <2>5
<1> HIDE DEF newest
<1> QED BY <1>6, <1>7, <1>8 DEF BarsAgree

\* Whatever the number of bars asked for, the time of the query and the length
\* of a bar, the candle query returns no more bars than asked for, and every one
\* but the oldest is the aggregate of all rows of its span, however the
\* aggregator's batches, crashes and replays left them.
THEOREM EveryAnswerAgrees ==
    Spec => [](\A now \in Int, take \in Nat \ {0} : BarsAgree(now, take))
<1>1. ConsumerInv => \A now \in Int, take \in Nat \ {0} : BarsAgree(now, take)
  BY EveryQueryAgrees
<1> QED BY <1>1, ConsumerInvariance, PTL

\* In particular for the queries made around the newest row.
THEOREM RollupIsExact == Spec => []RollupAgrees
<1>1. ConsumerInv => RollupAgrees
  <2> SUFFICES ASSUME ConsumerInv, NEW take \in 1..2, NEW past \in 0..4
               PROVE  BarsAgree(2 * Max(Rows \cup {0}) + past, take)
    BY DEF RollupAgrees
  <2> DEFINE S == Rows \cup {0}
             newest == Max(S)
  <2>1. S \in SUBSET Int /\ S # {}
    <3>1. Minutes \subseteq Nat
      BY TradeConsumersAssumption
    <3>2. Rows \in SUBSET Minutes
      BY RowsFinite
    <3>3. Rows \in SUBSET Int
      BY <3>1, <3>2
    <3> QED BY <3>3
  <2>2. IsFiniteSet(S)
    BY RowsFinite, FS_AddElement
  <2>3. newest \in Int
    <3> HIDE DEF S
    <3> QED BY <2>1, <2>2, MaxMin
  <2> HIDE DEF newest
  <2>4. 2 * newest + past \in Int /\ take \in Nat
    BY <2>3
  <2> QED BY <2>4, EveryQueryAgrees DEF newest
<1> QED BY <1>1, ConsumerInvariance, PTL
=============================================================================
