-------------------------- MODULE OutboxRelayProofs --------------------------
(* Proofs about OutboxRelay, for every number of rows, batch size and bound *)
(* on failures, crashes and operator requests.  RelayInv is the inductive   *)
(* invariant: it remembers that the batch in flight holds committed rows in *)
(* ascending order, none of them closed but by an operator, and that an     *)
(* acknowledged head is in Kafka.  From it follows, step by step, that the  *)
(* relay implements ReliableOutbox.                                         *)
EXTENDS OutboxRelay, TLAPS

\* A batch that Poll may read is a sequence of pending rows.
LEMMA OldestFacts ==
    ASSUME NEW S, NEW s \in Oldest(S)
    PROVE  /\ s \in Seq(S)
           /\ \A m, n \in DOMAIN s : m < n => s[m] < s[n]
<1>1. PICK k \in 0..Batch : s \in [1..k -> S]
  BY DEF Oldest
<1>2. \A m, n \in DOMAIN s : m < n => s[m] < s[n]
  BY DEF Oldest
<1> QED
  BY <1>1, <1>2, RelayAssumption

\* What is in the topic stays there when a message is appended, and the
\* appended one is there too.
LEMMA AppendFacts ==
    ASSUME topic \in Seq(RowId), NEW x \in RowId, topic' = Append(topic, x)
    PROVE  /\ topic' \in Seq(RowId)
           /\ InTopic(x)'
           /\ \A i : InTopic(i) => InTopic(i)'
           /\ \A n \in DOMAIN topic' : topic'[n] = x \/ (n \in DOMAIN topic /\ topic'[n] = topic[n])
<1>1. /\ Len(topic') = Len(topic) + 1 /\ topic'[Len(topic) + 1] = x
      /\ \A n \in 1..Len(topic) : topic'[n] = topic[n]
  OBVIOUS
<1>2. DOMAIN topic' = 1..(Len(topic) + 1) /\ DOMAIN topic = 1..Len(topic) /\ Len(topic) \in Nat
  OBVIOUS
<1> QED
  BY <1>1, <1>2 DEF InTopic

\* The head of a batch is a committed row, closed at most by an operator.
LEMMA HeadFacts ==
    ASSUME RelayInv, batch # <<>>
    PROVE  /\ Head(batch) \in RowId /\ Head(batch) \in rows
           /\ Head(batch) \in processed => Head(batch) \in skipped
<1>1. batch \in Seq(RowId) /\ 1 \in DOMAIN batch /\ Head(batch) = batch[1]
  BY DEF RelayInv, TypeOK
<1> QED
  BY <1>1 DEF RelayInv, BatchCommitted, BatchUnmarked

\* The rest of a batch keeps what is known of its rows when its head is done,
\* even if the head is marked.
LEMMA TailFacts ==
    ASSUME RelayInv, batch # <<>>, batch' = Tail(batch), rows \subseteq rows',
           skipped' = skipped, processed' \subseteq processed \cup {Head(batch)}
    PROVE  /\ batch' \in Seq(RowId)
           /\ BatchCommitted' /\ BatchAscending' /\ BatchUnmarked'
<1>1. batch \in Seq(RowId) /\ 1 \in DOMAIN batch /\ Head(batch) = batch[1]
  BY DEF RelayInv, TypeOK
<1>2. /\ batch' \in Seq(RowId)
      /\ \A n \in DOMAIN batch' : n \in Nat /\ n >= 1 /\ n + 1 \in DOMAIN batch
                                  /\ batch'[n] = batch[n + 1]
  BY <1>1
<1>3. \A n \in DOMAIN batch' : batch'[n] # Head(batch)
  <2> SUFFICES ASSUME NEW n \in DOMAIN batch' PROVE batch'[n] # Head(batch)
    OBVIOUS
  <2>1. n + 1 \in DOMAIN batch /\ 1 < n + 1 /\ batch'[n] = batch[n + 1]
    BY <1>2
  <2>2. batch[1] < batch[n + 1]
    BY <1>1, <2>1 DEF RelayInv, BatchAscending
  <2>3. batch[1] \in Int
    BY <1>1, RelayAssumption DEF RowId
  <2> QED
    BY <1>1, <2>1, <2>2, <2>3
<1>4. BatchCommitted' /\ BatchUnmarked'
  BY <1>2, <1>3 DEF RelayInv, BatchCommitted, BatchUnmarked
<1>5. BatchAscending'
  BY <1>2 DEF RelayInv, BatchAscending
<1> QED
  BY <1>2, <1>4, <1>5

-----------------------------------------------------------------------------
\* The empty table satisfies the invariant.
LEMMA InitRelayInv == Init => RelayInv
<1> SUFFICES ASSUME Init PROVE RelayInv
  OBVIOUS
<1>1. (CHOOSE k \in Keys : TRUE) \in Keys
  BY RelayAssumption
<1>2. key \in [RowId -> Keys] /\ lastError \in [RowId -> {"none", "error", "skipped"}]
  BY <1>1 DEF Init
<1>3. lastId \in 0..MaxRows /\ topic \in Seq(RowId) /\ batch \in Seq(RowId)
  BY RelayAssumption DEF Init
<1>4. TypeOK
  BY <1>2, <1>3 DEF Init, TypeOK
<1> QED
  BY <1>4 DEF Init, RelayInv, NoRowLost, OnlyCommittedRows, BatchCommitted, BatchAscending,
              BatchUnmarked, SentIsInTopic, AskedCommitted

\* Producers only add rows, so they keep the invariant.
LEMMA ProducersRelayInv ==
    ASSUME RelayInv, Producers
    PROVE  RelayInv'
<1>1. /\ UNCHANGED <<processed, topic, batch, sent, asked, skipped>>
      /\ rows \subseteq rows'
  BY DEF Producers, Insert, Commit, Rollback, relay, history
<1>2. TypeOK'
  <2>1. ASSUME NEW k \in Keys, Insert(k) PROVE TypeOK'
    <3>1. lastId' \in RowId /\ lastId' \in 0..MaxRows
      BY <2>1, RelayAssumption DEF Insert, RelayInv, TypeOK, RowId
    <3>2. key' \in [RowId -> Keys]
      BY <2>1, <3>1 DEF Insert, RelayInv, TypeOK
    <3>3. PICK p \in SUBSET {lastId'} : poison' = poison \cup p
      BY <2>1 DEF Insert
    <3>4. open' \subseteq RowId /\ poison' \subseteq RowId
      BY <2>1, <3>1, <3>3 DEF Insert, RelayInv, TypeOK
    <3> QED
      BY <2>1, <3>1, <3>2, <3>4 DEF Insert, RelayInv, TypeOK, relay, history, bounds
  <2>2. ASSUME NEW i \in RowId, Commit(i) \/ Rollback(i) PROVE TypeOK'
    BY <2>2 DEF Commit, Rollback, RelayInv, TypeOK, relay, history, bounds
  <2> QED
    BY <2>1, <2>2 DEF Producers
<1> QED
  BY <1>1, <1>2 DEF RelayInv, NoRowLost, OnlyCommittedRows, BatchCommitted, BatchAscending,
                    BatchUnmarked, SentIsInTopic, AskedCommitted, InTopic

\* A poll reads committed rows that are not closed, in ascending order.
LEMMA PollRelayInv ==
    ASSUME RelayInv, Poll
    PROVE  RelayInv'
<1>1. batch' \in Seq(Pending) /\ BatchAscending'
  BY OldestFacts DEF Poll, BatchAscending
<1>2. \A n \in DOMAIN batch' : batch'[n] \in rows /\ batch'[n] \notin processed
  BY <1>1 DEF Pending
<1>3. batch' \in Seq(RowId) /\ ~sent
  BY <1>1, <1>2 DEF RelayInv, TypeOK, Poll
<1>4. UNCHANGED <<table, processed, lastError, topic, sent, asked, history, bounds>>
  BY DEF Poll
<1>5. TypeOK'
  BY <1>3, <1>4 DEF RelayInv, TypeOK, table, history, bounds
<1>6. BatchCommitted' /\ BatchUnmarked' /\ SentIsInTopic'
  BY <1>2, <1>3, <1>4 DEF BatchCommitted, BatchUnmarked, SentIsInTopic, table
<1> QED
  BY <1>1, <1>4, <1>5, <1>6 DEF RelayInv, NoRowLost, OnlyCommittedRows, AskedCommitted, InTopic,
                                table, history

\* A send puts a committed row into the topic before anything is marked.
LEMMA SendRelayInv ==
    ASSUME RelayInv, Send
    PROVE  RelayInv'
<1>1. TypeOK /\ batch # <<>> /\ topic' = Append(topic, Head(batch)) /\ sent'
      /\ UNCHANGED <<table, processed, lastError, batch, asked, history, bounds>>
  BY DEF RelayInv, Send
<1>2. Head(batch) \in RowId /\ Head(batch) \in rows
  BY <1>1, HeadFacts
<1>3. /\ topic' \in Seq(RowId) /\ InTopic(Head(batch))'
      /\ \A i : InTopic(i) => InTopic(i)'
      /\ \A n \in DOMAIN topic' :
            topic'[n] = Head(batch) \/ (n \in DOMAIN topic /\ topic'[n] = topic[n])
  BY <1>1, <1>2, AppendFacts DEF TypeOK
<1>4. TypeOK'
  BY <1>1, <1>3 DEF TypeOK, table, history, bounds
<1>5. NoRowLost' /\ OnlyCommittedRows'
  BY <1>1, <1>2, <1>3 DEF RelayInv, NoRowLost, OnlyCommittedRows, table, history
<1>6. SentIsInTopic'
  BY <1>1, <1>3 DEF SentIsInTopic
<1> QED
  BY <1>1, <1>4, <1>5, <1>6 DEF RelayInv, BatchCommitted, BatchAscending, BatchUnmarked,
                                AskedCommitted, table, history

\* Only an acknowledged row is marked.
LEMMA MarkRelayInv ==
    ASSUME RelayInv, Mark
    PROVE  RelayInv'
<1>1. TypeOK /\ batch # <<>> /\ InTopic(Head(batch))
      /\ batch' = Tail(batch) /\ sent' = FALSE /\ processed' = processed \cup {Head(batch)}
      /\ UNCHANGED <<table, lastError, topic, asked, history, bounds>>
  BY DEF RelayInv, Mark, SentIsInTopic, TypeOK
<1>2. Head(batch) \in RowId
  BY <1>1, HeadFacts
<1>3. batch' \in Seq(RowId) /\ BatchCommitted' /\ BatchAscending' /\ BatchUnmarked'
  BY <1>1, TailFacts DEF table, history
<1>4. TypeOK'
  BY <1>1, <1>2, <1>3 DEF TypeOK, table, history, bounds
<1> QED
  BY <1>1, <1>2, <1>3, <1>4 DEF RelayInv, NoRowLost, OnlyCommittedRows, SentIsInTopic,
                                AskedCommitted, InTopic, table, history

\* A failure after the message may have reached Kafka marks nothing.
LEMMA FailureRelayInv ==
    ASSUME RelayInv, SendFails \/ MarkFails
    PROVE  RelayInv'
<1>1. /\ TypeOK /\ batch # <<>> /\ MoveOn
      /\ UNCHANGED <<table, processed, asked, skipped, crashes, requests>>
      /\ failures' \in Nat
      /\ topic' = topic \/ topic' = Append(topic, Head(batch))
      /\ excused' = excused \/ excused' = excused \cup {Head(batch)}
  <2>1. TypeOK /\ (sent => batch # <<>>) /\ failures \in Nat
    BY DEF RelayInv, TypeOK
  <2>2. CASE SendFails
    BY <2>1, <2>2 DEF SendFails
  <2>3. CASE MarkFails
    BY <2>1, <2>3 DEF MarkFails, history
  <2> QED
    BY <2>2, <2>3
<1>2. Head(batch) \in RowId /\ Head(batch) \in rows
  BY <1>1, HeadFacts
<1>3. /\ topic' \in Seq(RowId)
      /\ \A i : InTopic(i) => InTopic(i)'
      /\ \A n \in DOMAIN topic' :
            topic'[n] = Head(batch) \/ (n \in DOMAIN topic /\ topic'[n] = topic[n])
  <2>1. CASE topic' = topic
    BY <1>1, <2>1 DEF TypeOK, InTopic
  <2>2. CASE topic' = Append(topic, Head(batch))
    BY <1>1, <1>2, <2>2, AppendFacts DEF TypeOK
  <2> QED
    BY <1>1, <2>1, <2>2
<1>4. /\ batch' = Tail(batch) /\ sent' = FALSE
      /\ lastError' \in [RowId -> {"none", "error", "skipped"}]
  BY <1>1, <1>2 DEF MoveOn, TypeOK
<1>5. batch' \in Seq(RowId) /\ BatchCommitted' /\ BatchAscending' /\ BatchUnmarked'
  BY <1>1, <1>4, TailFacts DEF table
<1>6. TypeOK'
  BY <1>1, <1>2, <1>3, <1>4, <1>5 DEF TypeOK, table
<1>7. NoRowLost' /\ OnlyCommittedRows'
  BY <1>1, <1>2, <1>3 DEF RelayInv, NoRowLost, OnlyCommittedRows, table
<1> QED
  BY <1>1, <1>4, <1>5, <1>6, <1>7 DEF RelayInv, SentIsInTopic, AskedCommitted, table

\* A crash forgets the batch, nothing else.
LEMMA CrashRelayInv ==
    ASSUME RelayInv, Crash
    PROVE  RelayInv'
<1>1. batch' = <<>> /\ <<>> \in Seq(RowId)
  BY DEF Crash
<1>2. sent' = FALSE /\ crashes' \in Nat
  BY DEF Crash, RelayInv, TypeOK
<1>3. TypeOK'
  BY <1>1, <1>2 DEF RelayInv, TypeOK, Crash, table, history
<1>4. BatchCommitted' /\ BatchAscending' /\ BatchUnmarked' /\ SentIsInTopic'
  BY <1>1, <1>2 DEF BatchCommitted, BatchAscending, BatchUnmarked, SentIsInTopic
<1> QED
  BY <1>3, <1>4 DEF RelayInv, Crash, NoRowLost, OnlyCommittedRows, AskedCommitted, InTopic,
                    table, history

\* Operators mark rows only by skipping them, and ask only for committed rows.
LEMMA OperatorRelayInv ==
    ASSUME RelayInv, NEW i \in RowId,
           Ask("skip", i) \/ Ask("retry", i) \/ Skip(i) \/ Retry(i)
    PROVE  RelayInv'
<1> USE DEF RelayInv, table, relay, history, bounds
<1>1. CASE Ask("skip", i) \/ Ask("retry", i)
  <2>1. TypeOK'
    BY <1>1 DEF Ask, TypeOK
  <2>2. AskedCommitted'
    BY <1>1 DEF Ask, Pending, AskedCommitted
  <2> QED
    BY <1>1, <2>1, <2>2 DEF Ask, NoRowLost, OnlyCommittedRows, BatchCommitted, BatchAscending,
                            BatchUnmarked, SentIsInTopic, InTopic
<1>2. CASE Skip(i)
  <2>1. TypeOK'
    BY <1>2 DEF Skip, TypeOK
  <2>2. BatchUnmarked' /\ AskedCommitted'
    BY <1>2 DEF Skip, BatchUnmarked, AskedCommitted
  <2> QED
    BY <1>2, <2>1, <2>2 DEF Skip, NoRowLost, OnlyCommittedRows, BatchCommitted, BatchAscending,
                            SentIsInTopic, InTopic
<1>3. CASE Retry(i)
  <2>1. TypeOK'
    BY <1>3 DEF Retry, TypeOK
  <2> QED
    BY <1>3, <2>1 DEF Retry, NoRowLost, OnlyCommittedRows, BatchCommitted, BatchAscending,
                      BatchUnmarked, SentIsInTopic, AskedCommitted, InTopic
<1> QED
  BY <1>1, <1>2, <1>3

\* The invariant is inductive.
LEMMA NextRelayInv == RelayInv /\ [Next]_vars => RelayInv'
<1> SUFFICES ASSUME RelayInv, [Next]_vars PROVE RelayInv'
  OBVIOUS
<1>1. CASE Producers
  BY <1>1, ProducersRelayInv
<1>2. CASE Relay \/ Crash
  BY <1>2, PollRelayInv, SendRelayInv, MarkRelayInv, FailureRelayInv, CrashRelayInv DEF Relay
<1>3. CASE Operator
  BY <1>3, OperatorRelayInv DEF Operator
<1>4. CASE UNCHANGED vars
  <2>1. TypeOK'
    BY <1>4 DEF RelayInv, TypeOK, vars, table, relay, history, bounds
  <2> QED
    BY <1>4, <2>1 DEF RelayInv, NoRowLost, OnlyCommittedRows, BatchCommitted, BatchAscending,
                      BatchUnmarked, SentIsInTopic, AskedCommitted, InTopic, vars, table, relay,
                      history
<1> QED
  BY <1>1, <1>2, <1>3, <1>4 DEF Next

-----------------------------------------------------------------------------
\* The inductive invariant holds of every behaviour of the relay.
THEOREM RelayInvariance == Spec => []RelayInv
<1> QED
  BY InitRelayInv, NextRelayInv, PTL DEF Spec

\* drainOnce marks a row only after Kafka has it: wherever a send, an update
\* or the process fails, a processed row is in the topic or was skipped.
THEOREM NothingLost == Spec => []NoRowLost
<1>1. RelayInv => NoRowLost
  BY DEF RelayInv
<1> QED
  BY <1>1, RelayInvariance, PTL

\* The transactional outbox leaks nothing: only rows of committed transactions
\* reach Kafka.
THEOREM NothingLeaks == Spec => []OnlyCommittedRows
<1>1. RelayInv => OnlyCommittedRows
  BY DEF RelayInv
<1> QED
  BY <1>1, RelayInvariance, PTL

-----------------------------------------------------------------------------
(* The order of the topic.                                                 *)

\* A message appended behind rows that are settled keeps the topic in order.
LEMMA AppendInOrder ==
    ASSUME RelayInv, OrderInv, batch # <<>>, topic' = Append(topic, Head(batch)),
           rows' = rows, excused \subseteq excused', processed' = processed,
           \A k \in DOMAIN batch' : \E n \in DOMAIN batch : batch[n] = batch'[k]
    PROVE  TopicInOrder' /\ NeverOvertaken'
<1> DEFINE x == Head(batch)
           L == Len(topic)
<1>1. /\ topic \in Seq(RowId) /\ x \in RowId /\ x \in rows /\ L \in Nat
      /\ batch \in Seq(RowId) /\ 1 \in DOMAIN batch /\ x = batch[1]
  BY HeadFacts DEF RelayInv, TypeOK
<1>2. /\ DOMAIN topic = 1..L /\ DOMAIN topic' = 1..(L + 1)
      /\ topic'[L + 1] = x /\ \A n \in 1..L : topic'[n] = topic[n]
  BY <1>1
<1>3. \A j : Settled(j) => Settled(j)'
  BY DEF Settled
<1>4. ~(x \in processed /\ \A k \in DOMAIN batch : batch[k] # x)
  BY <1>1
<1>5. TopicInOrder'
  <2> SUFFICES ASSUME NEW m \in 1..(L + 1), NEW j \in rows, j < topic'[m]
               PROVE  Settled(j)' \/ \E l \in 1..(m - 1) : topic'[l] = j
    BY <1>2 DEF TopicInOrder
  <2>1. CASE m = L + 1
    <3>1. Settled(j) \/ InTopic(j) \/ \E k \in 1..(1 - 1) : batch[k] = j
      BY <1>1, <1>2, <2>1 DEF OrderInv, BatchInOrder
    <3>2. Settled(j) \/ \E l \in 1..L : topic[l] = j
      BY <1>2, <3>1 DEF InTopic
    <3> QED BY <1>1, <1>2, <1>3, <2>1, <3>2
  <2>2. CASE m \in 1..L
    <3>1. Settled(j) \/ \E l \in 1..(m - 1) : topic[l] = j
      BY <1>2, <2>2 DEF OrderInv, TopicInOrder
    <3>2. \A l \in 1..(m - 1) : topic'[l] = topic[l]
      BY <1>1, <1>2, <2>2
    <3> QED BY <1>3, <3>1, <3>2
  <2> QED BY <1>1, <2>1, <2>2
<1>6. NeverOvertaken'
  <2> SUFFICES ASSUME NEW m \in 1..(L + 1), NEW n \in 1..(L + 1), m < n, topic'[m] > topic'[n]
               PROVE  topic'[n] \in excused' \/ \E l \in 1..(m - 1) : topic'[l] = topic'[n]
    BY <1>2 DEF NeverOvertaken
  <2>1. m \in 1..L /\ topic'[m] = topic[m] /\ \A l \in 1..(m - 1) : topic'[l] = topic[l]
    BY <1>1, <1>2
  <2>2. CASE n = L + 1
    <3>1. x < topic[m]
      <4>1. topic[m] \in RowId /\ topic'[n] = x /\ topic'[m] = topic[m]
        BY <1>1, <1>2, <2>1, <2>2
      <4>2. topic[m] \in Int /\ x \in Int
        BY <1>1, <4>1, RelayAssumption DEF RowId
      <4>3. topic[m] > x
        BY <4>1
      <4> HIDE DEF x
      <4> QED BY <4>2, <4>3
    <3>2. Settled(x) \/ \E l \in 1..(m - 1) : topic[l] = x
      BY <1>1, <1>2, <2>1, <3>1 DEF OrderInv, TopicInOrder
    <3>3. x \in excused \/ \E l \in 1..(m - 1) : topic[l] = x
      BY <1>4, <3>2 DEF Settled
    <3> QED BY <1>2, <2>1, <2>2, <3>3
  <2>3. CASE n \in 1..L
    <3>1. topic[n] \in excused \/ \E l \in 1..(m - 1) : topic[l] = topic[n]
      BY <1>2, <2>1, <2>3 DEF OrderInv, NeverOvertaken
    <3> QED BY <1>2, <2>1, <2>3, <3>1
  <2> QED BY <1>1, <2>2, <2>3
<1> QED
  BY <1>5, <1>6

\* What is known of the batch's rows survives when its head is done: the head
\* is out or excused.
LEMMA TailInOrder ==
    ASSUME RelayInv, OrderInv, batch # <<>>, batch' = Tail(batch),
           rows' = rows, excused \subseteq excused', processed \subseteq processed',
           \A i : InTopic(i) => InTopic(i)',
           \A i : i = Head(batch) => InTopic(i)' \/ i \in excused'
    PROVE  /\ BatchInOrder'
           /\ \A k \in DOMAIN batch' : \E n \in DOMAIN batch : batch[n] = batch'[k]
<1>1. batch \in Seq(RowId) /\ 1 \in DOMAIN batch /\ Head(batch) = batch[1]
  BY DEF RelayInv, TypeOK
<1>2. \A n \in DOMAIN batch' : n \in Nat /\ n >= 1 /\ n + 1 \in DOMAIN batch /\ batch'[n] = batch[n + 1]
  BY <1>1
<1>3. \A j : Settled(j) => Settled(j)'
  BY <1>2 DEF Settled
<1>4. ASSUME NEW n \in DOMAIN batch', NEW j \in rows, j < batch'[n]
      PROVE  Settled(j)' \/ InTopic(j)' \/ \E k \in 1..(n - 1) : batch'[k] = j
  <2>1. n \in Nat /\ n + 1 \in DOMAIN batch /\ j < batch[n + 1]
    BY <1>2, <1>4
  <2>2. Settled(j) \/ InTopic(j) \/ \E k \in 1..((n + 1) - 1) : batch[k] = j
    BY <2>1 DEF OrderInv, BatchInOrder
  <2>3. ASSUME NEW k \in 1..n, batch[k] = j
        PROVE  Settled(j)' \/ InTopic(j)' \/ \E i \in 1..(n - 1) : batch'[i] = j
    <3>1. CASE k = 1
      <4>1. j = Head(batch)
        BY <1>1, <2>3, <3>1
      <4>2. InTopic(j)' \/ j \in excused'
        BY <4>1
      <4> QED BY <4>2 DEF Settled
    <3>2. CASE k # 1
      <4>1. k - 1 \in 1..(n - 1) /\ k - 1 \in DOMAIN batch'
        BY <1>1, <2>1, <3>2
      <4>2. batch'[k - 1] = batch[(k - 1) + 1]
        BY <1>2, <4>1
      <4>3. (k - 1) + 1 = k
        BY <2>1
      <4>4. batch'[k - 1] = j
        BY <2>3, <4>2, <4>3
      <4> QED BY <4>1, <4>4
    <3> QED BY <3>1, <3>2
  <2>4. (n + 1) - 1 = n
    BY <2>1
  <2> QED BY <1>3, <2>2, <2>3, <2>4
<1> QED
  BY <1>2, <1>4 DEF BatchInOrder

\* A step that sends nothing and reads no batch keeps the order when rows that
\* appear below sent ones are excused.
LEMMA FrameInOrder ==
    ASSUME OrderInv, topic' = topic, batch' = batch,
           excused \subseteq excused', processed \subseteq processed',
           \A j \in rows' \ rows : /\ \A n \in DOMAIN topic : j < topic[n] => j \in excused'
                                   /\ \A n \in DOMAIN batch : j < batch[n] => j \in excused'
    PROVE  OrderInv'
<1>1. \A j : Settled(j) => Settled(j)'
  BY DEF Settled
<1>2. \A j : j \in excused' => Settled(j)'
  BY DEF Settled
<1>3. TopicInOrder'
  BY <1>1, <1>2 DEF OrderInv, TopicInOrder
<1>4. BatchInOrder'
  BY <1>1, <1>2 DEF OrderInv, BatchInOrder, InTopic
<1>5. NeverOvertaken'
  BY DEF OrderInv, NeverOvertaken
<1> QED
  BY <1>3, <1>4, <1>5 DEF OrderInv

\* ORDER BY id LIMIT: whatever is pending below a row of the batch is in front
\* of it, and what is closed already is not in the batch.
LEMMA PollInOrder ==
    ASSUME RelayInv, OrderInv, Poll
    PROVE  OrderInv'
<1>1. /\ batch' \in Oldest(Pending) /\ batch = <<>>
      /\ UNCHANGED <<table, processed, topic, history>>
  BY DEF Poll
<1>2. PICK c \in 0..Batch : batch' \in [1..c -> Pending]
  BY <1>1 DEF Oldest
<1>3. /\ \A i, j \in DOMAIN batch' : i < j => batch'[i] < batch'[j]
      /\ \A x \in Pending : (\E n \in DOMAIN batch' : batch'[n] = x)
                            \/ (\A n \in DOMAIN batch' : batch'[n] < x)
  BY <1>1 DEF Oldest
<1>4. c \in Nat /\ DOMAIN batch' = 1..c /\ Pending \subseteq Nat /\ rows \subseteq Nat
  BY <1>2, RelayAssumption DEF Pending, RelayInv, TypeOK, RowId
<1>5. \A n \in DOMAIN batch' : batch'[n] \in Nat /\ batch'[n] \notin processed
  BY <1>2, <1>4 DEF Pending
<1>6. \A j \in processed : Settled(j)'
  BY <1>1, <1>5 DEF Settled, history
<1>7. \A j : Settled(j) => Settled(j)'
  BY <1>1, <1>6 DEF Settled, history
<1>8. TopicInOrder' /\ NeverOvertaken'
  BY <1>1, <1>7 DEF OrderInv, TopicInOrder, NeverOvertaken, table, history
<1>9. ASSUME NEW n \in 1..c, NEW j \in rows, j < batch'[n], j \notin processed
      PROVE  \E k \in 1..(n - 1) : batch'[k] = j
  <2>1. j \in Pending /\ j \in Nat /\ batch'[n] \in Nat
    BY <1>4, <1>5, <1>9 DEF Pending
  <2>2. ~(batch'[n] < j)
    BY <1>9, <2>1
  <2>3. PICK k \in 1..c : batch'[k] = j
    BY <1>3, <1>4, <2>1, <2>2
  <2>4. ~(n < k) /\ n # k
    BY <1>3, <1>4, <1>9, <2>1, <2>2, <2>3
  <2>5. k \in 1..(n - 1)
    BY <1>4, <2>4
  <2> QED BY <2>3, <2>5
<1>10. BatchInOrder'
  BY <1>1, <1>4, <1>6, <1>9 DEF BatchInOrder, table
<1> QED
  BY <1>8, <1>10 DEF OrderInv

\* The order invariant is inductive.
LEMMA NextOrderInv == RelayInv /\ OrderInv /\ [Next]_vars => OrderInv'
<1> SUFFICES ASSUME RelayInv, OrderInv, [Next]_vars PROVE OrderInv'
  OBVIOUS
<1>1. CASE Producers
  <2>1. ASSUME NEW i \in RowId, Commit(i) PROVE OrderInv'
    <3>1. /\ topic' = topic /\ batch' = batch /\ processed' = processed
          /\ rows' = rows \cup {i}
          /\ excused' = excused \cup {x \in {i} : \E j \in rows : j > x}
      BY <2>1 DEF Commit, relay
    <3>2. i \in Int /\ \A j \in rows : j \in Int
      BY RelayAssumption DEF RelayInv, TypeOK, RowId
    <3>3. \A n \in DOMAIN topic : i < topic[n] => i \in excused'
      BY <3>1, <3>2 DEF RelayInv, OnlyCommittedRows
    <3>4. \A n \in DOMAIN batch : i < batch[n] => i \in excused'
      BY <3>1, <3>2 DEF RelayInv, BatchCommitted
    <3> QED BY <3>1, <3>3, <3>4, FrameInOrder
  <2>2. ASSUME NEW k \in Keys, Insert(k) PROVE OrderInv'
    BY <2>2, FrameInOrder DEF Insert, relay, history
  <2>3. ASSUME NEW i \in RowId, Rollback(i) PROVE OrderInv'
    BY <2>3, FrameInOrder DEF Rollback, relay, history
  <2> QED BY <1>1, <2>1, <2>2, <2>3 DEF Producers
<1>2. CASE Poll
  BY <1>2, PollInOrder
<1>3. CASE Send
  <2>1. /\ batch # <<>> /\ topic' = Append(topic, Head(batch)) /\ batch' = batch
        /\ rows' = rows /\ excused' = excused /\ processed' = processed
    BY <1>3 DEF Send, table, history
  <2>2. TopicInOrder' /\ NeverOvertaken'
    BY <2>1, AppendInOrder
  <2>3. Head(batch) \in RowId /\ topic \in Seq(RowId)
    BY <2>1, HeadFacts DEF RelayInv, TypeOK
  <2>4. \A i : InTopic(i) => InTopic(i)'
    BY <2>1, <2>3, AppendFacts
  <2>5. BatchInOrder'
    BY <2>1, <2>4 DEF OrderInv, BatchInOrder, Settled
  <2> QED BY <2>2, <2>5 DEF OrderInv
<1>4. CASE Mark
  <2>1. /\ batch # <<>> /\ InTopic(Head(batch)) /\ batch' = Tail(batch) /\ topic' = topic
        /\ processed' = processed \cup {Head(batch)} /\ rows' = rows /\ excused' = excused
    BY <1>4 DEF Mark, RelayInv, TypeOK, SentIsInTopic, table, history
  <2>2. \A i : InTopic(i) => InTopic(i)'
    BY <2>1 DEF InTopic
  <2>3. \A i : i = Head(batch) => InTopic(i)' \/ i \in excused'
    BY <2>1, <2>2
  <2>4. /\ BatchInOrder'
        /\ \A k \in DOMAIN batch' : \E n \in DOMAIN batch : batch[n] = batch'[k]
    BY <2>1, <2>2, <2>3, TailInOrder
  <2>5. \A j : Settled(j) => Settled(j)'
    BY <2>1, <2>4 DEF Settled
  <2> QED BY <2>1, <2>4, <2>5 DEF OrderInv, TopicInOrder, NeverOvertaken
<1>5. CASE SendFails \/ MarkFails
  <2>1. /\ batch # <<>> /\ batch' = Tail(batch) /\ rows' = rows /\ processed' = processed
        /\ topic' = topic \/ topic' = Append(topic, Head(batch))
        /\ excused \subseteq excused'
        /\ InTopic(Head(batch)) \/ Head(batch) \in excused'
    BY <1>5 DEF SendFails, MarkFails, MoveOn, RelayInv, TypeOK, SentIsInTopic, table, history
  <2>2. Head(batch) \in RowId /\ topic \in Seq(RowId)
    BY <2>1, HeadFacts DEF RelayInv, TypeOK
  <2>3. \A i : InTopic(i) => InTopic(i)'
    <3>1. CASE topic' = topic
      BY <3>1 DEF InTopic
    <3>2. CASE topic' = Append(topic, Head(batch))
      BY <2>2, <3>2, AppendFacts
    <3> QED BY <2>1, <3>1, <3>2
  <2>4. /\ BatchInOrder'
        /\ \A k \in DOMAIN batch' : \E n \in DOMAIN batch : batch[n] = batch'[k]
    <3>1. \A i : i = Head(batch) => InTopic(i)' \/ i \in excused'
      BY <2>1, <2>3
    <3> QED BY <2>1, <2>3, <3>1, TailInOrder
  <2>5. \A j : Settled(j) => Settled(j)'
    BY <2>1, <2>4 DEF Settled
  <2>6. CASE topic' = topic
    BY <2>1, <2>4, <2>5, <2>6 DEF OrderInv, TopicInOrder, NeverOvertaken
  <2>7. CASE topic' = Append(topic, Head(batch))
    BY <2>1, <2>4, <2>7, AppendInOrder DEF OrderInv
  <2> QED BY <2>1, <2>6, <2>7
<1>6. CASE Crash
  <2>1. batch' = <<>> /\ UNCHANGED <<rows, processed, topic, excused>>
    BY <1>6 DEF Crash, table, history
  <2>2. \A j : Settled(j) => Settled(j)'
    BY <2>1 DEF Settled
  <2>3. BatchInOrder'
    BY <2>1 DEF BatchInOrder
  <2> QED BY <2>1, <2>2, <2>3 DEF OrderInv, TopicInOrder, NeverOvertaken
<1>7. CASE Operator
  <2>1. /\ topic' = topic /\ batch' = batch /\ rows' = rows /\ excused' = excused
        /\ processed \subseteq processed'
    BY <1>7 DEF Operator, Ask, Skip, Retry, table, relay, history
  <2> QED BY <2>1, FrameInOrder
<1>8. CASE UNCHANGED vars
  BY <1>8, FrameInOrder DEF vars, table, relay, history
<1> QED
  BY <1>1, <1>2, <1>3, <1>4, <1>5, <1>6, <1>7, <1>8 DEF Next, Relay

\* drainOnce publishes in id order: a row is overtaken only when its own
\* transaction committed late or its own send failed, whatever stale batches,
\* crashes, resends and operators do.
THEOREM OrderIsKept == Spec => []OvertakenOnlyIfExcused
<1>1. Init => OrderInv
  BY DEF Init, OrderInv, TopicInOrder, BatchInOrder, NeverOvertaken
<1>2. OrderInv => OvertakenOnlyIfExcused
  BY DEF OrderInv, NeverOvertaken, OvertakenOnlyIfExcused
<1> QED
  BY <1>1, <1>2, NextOrderInv, RelayInvariance, PTL DEF Spec

-----------------------------------------------------------------------------
(* The relay implements ReliableOutbox.                                    *)

\* The empty table maps to the initial state of the promise.
LEMMA InitPromise == Init => Promise!Init
<1> QED
  BY DEF Init, Promise!Init

\* Every step of the relay's world maps to a step of the promise or a stutter:
\* commits, sends, marks and skips are its four actions, everything else is
\* invisible to it.
LEMMA StepPromise ==
    ASSUME RelayInv, [Next]_vars
    PROVE  [Promise!Next]_Promise!promise
<1> USE DEF Promise!promise
<1>1. CASE Producers
  <2>1. ASSUME NEW i \in RowId, Commit(i) PROVE Promise!Next
    <3>1. Promise!Commit(i)
      BY <2>1 DEF Commit, Promise!Commit
    <3> QED
      BY <3>1 DEF Promise!Next
  <2>2. ASSUME NEW k \in Keys, Insert(k) PROVE UNCHANGED Promise!promise
    BY <2>2 DEF Insert, history
  <2>3. ASSUME NEW i \in RowId, Rollback(i) PROVE UNCHANGED Promise!promise
    BY <2>3 DEF Rollback, history
  <2> QED
    BY <1>1, <2>1, <2>2, <2>3 DEF Producers
<1>2. CASE Poll \/ MarkFails \/ Crash
  BY <1>2 DEF Poll, MarkFails, Crash, table, history
<1>3. CASE Send \/ SendFails
  <2>1. /\ batch # <<>> /\ UNCHANGED <<rows, processed, skipped>>
        /\ topic' = topic \/ topic' = Append(topic, Head(batch))
    BY <1>3 DEF Send, SendFails, table, history
  <2>2. CASE topic' = topic
    BY <2>1, <2>2
  <2>3. CASE topic' = Append(topic, Head(batch))
    <3>1. Head(batch) \in RowId /\ Promise!Publish(Head(batch))
      BY <2>1, <2>3, HeadFacts DEF Promise!Publish
    <3> QED
      BY <3>1 DEF Promise!Next
  <2> QED
    BY <2>1, <2>2, <2>3
<1>4. CASE Mark
  <2>1. batch # <<>> /\ InTopic(Head(batch))
    BY <1>4 DEF Mark, RelayInv, TypeOK, SentIsInTopic
  <2>2. Head(batch) \in RowId /\ Promise!Close(Head(batch))
    BY <1>4, <2>1, HeadFacts DEF Mark, InTopic, Promise!Close, Promise!IsPublished, table, history
  <2> QED
    BY <2>2 DEF Promise!Next
<1>5. CASE Operator
  <2>1. PICK i \in RowId : Ask("skip", i) \/ Ask("retry", i) \/ Skip(i) \/ Retry(i)
    BY <1>5 DEF Operator
  <2>2. CASE Skip(i)
    <3>1. Promise!Skip(i)
      BY <2>2 DEF Skip, RelayInv, AskedCommitted, Promise!Skip, table
    <3> QED
      BY <3>1 DEF Promise!Next
  <2>3. CASE Ask("skip", i) \/ Ask("retry", i) \/ Retry(i)
    BY <2>3 DEF Ask, Retry, table, history
  <2> QED
    BY <2>1, <2>2, <2>3
<1>6. CASE UNCHANGED vars
  BY <1>6 DEF vars, table, history
<1> QED
  BY <1>1, <1>2, <1>3, <1>4, <1>5, <1>6 DEF Next, Relay

\* drainOnce, its producers and its operators keep the outbox's promise of
\* at-least-once publication, whatever fails: the relay refines ReliableOutbox.
THEOREM RelayKeepsPromise == Spec => KeepsPromise
<1>1. RelayInv /\ [Next]_vars => [Promise!Next]_Promise!promise
  BY StepPromise
<1> QED
  BY <1>1, InitPromise, RelayInvariance, PTL DEF Spec, KeepsPromise, Promise!Spec
=============================================================================
