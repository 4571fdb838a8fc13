---------------------------- MODULE OutboxRelay -----------------------------
(***************************************************************************)
(* The OutboxEvent table, the relay worker that drains it into Kafka and   *)
(* the two operator interventions of the admin API.                        *)
(*                                                                         *)
(* A producer's transaction draws the row's id when it inserts and becomes *)
(* visible when it commits, so ids are not handed out in commit order.     *)
(* The relay works on a batch it read once; between that read and a send   *)
(* the row may have been skipped by an operator.  Each await of drainOnce  *)
(* is a step: read the batch, send, mark.  The payload, the topic name and *)
(* the attempts counter (display only) are left out; a row is its id and   *)
(* its partition key.                                                      *)
(***************************************************************************)
EXTENDS Integers, Sequences, FiniteSets

CONSTANTS Keys,         \* partition keys: market symbols or user ids
          Batch,        \* OUTBOX_BATCH
          MaxRows,      \* bound: rows ever inserted
          MaxOpen,      \* bound: producer transactions open at a time
          MaxFailures,  \* bound: sends or updates that fail once
          MaxPoison,    \* bound: rows whose send always fails
          MaxCrashes,   \* bound: deaths of the relay process
          MaxAdmin      \* bound: operator requests

ASSUME RelayAssumption ==
    /\ Keys # {}
    /\ Batch \in Nat \ {0} /\ MaxRows \in Nat /\ MaxOpen \in Nat /\ MaxFailures \in Nat
    /\ MaxPoison \in Nat /\ MaxCrashes \in Nat /\ MaxAdmin \in Nat

RowId == 1..MaxRows

VARIABLES
    lastId,      \* the id sequence of the table
    open,        \* rows of transactions not yet committed
    rows,        \* committed rows
    key,         \* partition key of each row
    poison,      \* rows the broker always refuses
    processed,   \* rows with processedAt set
    lastError,   \* "none", "error" (the relay's) or "skipped" (the operator's)
    topic,       \* what Kafka holds, in order: row ids
    batch,       \* rows of the relay's batch still to do
    sent,        \* the first of them is acknowledged and not yet marked
    asked,       \* operator requests past their check: <<"skip", id>>, <<"retry", id>>
    skipped,     \* history: rows an operator's skip has written
    excused,     \* history: rows that committed behind a higher id, or failed to be sent
    failures, crashes, requests

table == <<lastId, open, rows, key, poison>>
relay == <<batch, sent>>
history == <<skipped, excused>>
bounds == <<failures, crashes, requests>>
vars == <<table, processed, lastError, topic, relay, asked, history, bounds>>

Init ==
    /\ lastId = 0 /\ open = {} /\ rows = {} /\ poison = {}
    /\ key = [i \in RowId |-> CHOOSE k \in Keys : TRUE]
    /\ processed = {} /\ lastError = [i \in RowId |-> "none"]
    /\ topic = <<>>
    /\ batch = <<>> /\ sent = FALSE
    /\ asked = {} /\ skipped = {} /\ excused = {}
    /\ failures = 0 /\ crashes = 0 /\ requests = 0

InTopic(i) == \E n \in DOMAIN topic : topic[n] = i

-----------------------------------------------------------------------------
(* Producers: OutboxPublisherService.publish inside their transaction.     *)

Insert(k) ==
    /\ lastId < MaxRows
    /\ Cardinality(open) < MaxOpen
    /\ lastId' = lastId + 1
    /\ open' = open \cup {lastId'}
    /\ key' = [key EXCEPT ![lastId'] = k]
    /\ \E p \in SUBSET {lastId'} :
        /\ Cardinality(poison \cup p) <= MaxPoison
        /\ poison' = poison \cup p
    /\ UNCHANGED <<rows, processed, lastError, topic, relay, asked, history, bounds>>

Commit(i) ==
    /\ i \in open
    /\ open' = open \ {i}
    /\ rows' = rows \cup {i}
    /\ excused' = excused \cup {x \in {i} : \E j \in rows : j > x}
    /\ UNCHANGED <<lastId, key, poison, processed, lastError, topic, relay, asked, skipped, bounds>>

Rollback(i) ==
    /\ i \in open
    /\ open' = open \ {i}
    /\ UNCHANGED <<lastId, rows, key, poison, processed, lastError, topic, relay, asked, history,
                   bounds>>

-----------------------------------------------------------------------------
(* The relay: drainOnce.                                                   *)

\* Mutants of Pending: rows of open transactions are seen; the filter on
\* processedAt is missing.
PendingDirty == (rows \cup open) \ processed
PendingAll == rows

Pending == rows \ processed

\* Mutant of Oldest: the order of the batch is left to the database.
OldestUnordered(S) ==
    {s \in UNION {[1..n -> S] : n \in 0..Batch} :
        /\ \A i, j \in DOMAIN s : i # j => s[i] # s[j]
        /\ Len(s) = Batch \/ \A x \in S : \E n \in DOMAIN s : s[n] = x}

\* The first Batch ids of a set, ascending: ORDER BY id LIMIT batchSize.
Oldest(S) ==
    {s \in UNION {[1..n -> S] : n \in 0..Batch} :
        /\ \A i, j \in DOMAIN s : i < j => s[i] < s[j]
        /\ \A x \in S : (\E n \in DOMAIN s : s[n] = x)
                        \/ (Len(s) = Batch /\ \A n \in DOMAIN s : s[n] < x)}

Poll ==
    /\ batch = <<>>
    /\ Pending # {}
    /\ batch' \in Oldest(Pending)
    /\ UNCHANGED <<table, processed, lastError, topic, sent, asked, history, bounds>>

\* Mutant of Send: the acknowledgement is not awaited.
SendNotAwaited ==
    /\ batch # <<>> /\ ~sent
    /\ topic' = topic \/ (Head(batch) \notin poison /\ topic' = Append(topic, Head(batch)))
    /\ sent' = TRUE
    /\ UNCHANGED <<table, processed, lastError, batch, asked, history, bounds>>

Send ==
    /\ batch # <<>> /\ ~sent
    /\ Head(batch) \notin poison
    /\ topic' = Append(topic, Head(batch))
    /\ sent' = TRUE
    /\ UNCHANGED <<table, processed, lastError, batch, asked, history, bounds>>

Mark ==
    /\ sent
    /\ processed' = processed \cup {Head(batch)}
    /\ batch' = Tail(batch)
    /\ sent' = FALSE
    /\ UNCHANGED <<table, lastError, topic, asked, history, bounds>>

\* Mutant of MoveOn: the failed row is tried again at once.
MoveOnBlocked ==
    /\ lastError' = [lastError EXCEPT ![Head(batch)] = "error"]
    /\ batch' = batch
    /\ sent' = FALSE

\* The catch branch: note the error on the row (that update may fail as well)
\* and go on with the next one.
MoveOn ==
    /\ \/ lastError' = [lastError EXCEPT ![Head(batch)] = "error"]
       \/ lastError' = lastError
    /\ batch' = Tail(batch)
    /\ sent' = FALSE

\* producer.send rejects; the broker may have stored the message all the same.
SendFails ==
    /\ batch # <<>> /\ ~sent
    /\ IF Head(batch) \in poison
       THEN topic' = topic /\ failures' = failures
       ELSE /\ failures < MaxFailures
            /\ failures' = failures + 1
            /\ topic' = topic \/ topic' = Append(topic, Head(batch))
    /\ excused' = excused \cup {Head(batch)}
    /\ MoveOn
    /\ UNCHANGED <<table, processed, asked, skipped, crashes, requests>>

\* The message is out, the processedAt update fails: it will be sent again.
MarkFails ==
    /\ sent
    /\ failures < MaxFailures
    /\ failures' = failures + 1
    /\ MoveOn
    /\ UNCHANGED <<table, processed, topic, asked, history, crashes, requests>>

Crash ==
    /\ batch # <<>>
    /\ crashes < MaxCrashes
    /\ crashes' = crashes + 1
    /\ batch' = <<>> /\ sent' = FALSE
    /\ UNCHANGED <<table, processed, lastError, topic, asked, history, failures, requests>>

-----------------------------------------------------------------------------
(* The operator: AdminOutboxService.  Both requests read the row, refuse a *)
(* processed one, and write later.                                         *)

Ask(request, i) ==
    /\ i \in Pending
    /\ requests < MaxAdmin
    /\ requests' = requests + 1
    /\ asked' = asked \cup {<<request, i>>}
    /\ UNCHANGED <<table, processed, lastError, topic, relay, history, failures, crashes>>

Skip(i) ==
    /\ <<"skip", i>> \in asked
    /\ asked' = asked \ {<<"skip", i>>}
    /\ processed' = processed \cup {i}
    /\ lastError' = [lastError EXCEPT ![i] = "skipped"]
    /\ skipped' = skipped \cup {i}
    /\ UNCHANGED <<table, topic, relay, excused, bounds>>

Retry(i) ==
    /\ <<"retry", i>> \in asked
    /\ asked' = asked \ {<<"retry", i>>}
    /\ lastError' = [lastError EXCEPT ![i] = "none"]
    /\ UNCHANGED <<table, processed, topic, relay, history, bounds>>

-----------------------------------------------------------------------------
Producers == \/ \E k \in Keys : Insert(k)
             \/ \E i \in RowId : Commit(i) \/ Rollback(i)
Relay == Poll \/ Send \/ Mark \/ SendFails \/ MarkFails
Operator == \E i \in RowId : Ask("skip", i) \/ Ask("retry", i) \/ Skip(i) \/ Retry(i)

Next == Producers \/ Relay \/ Crash \/ Operator
Spec == Init /\ [][Next]_vars

(* The relay's loop polls for ever, and awaits that are pending settle.    *)
FairSpec == Spec /\ WF_vars(Relay)

-----------------------------------------------------------------------------
(* Properties.                                                             *)

\* Type invariant; only the head of a batch is ever sent and not yet marked.
TypeOK ==
    /\ lastId \in 0..MaxRows
    /\ open \subseteq RowId /\ rows \subseteq RowId /\ poison \subseteq RowId
    /\ key \in [RowId -> Keys]
    /\ processed \subseteq RowId
    /\ lastError \in [RowId -> {"none", "error", "skipped"}]
    /\ topic \in Seq(RowId)
    /\ batch \in Seq(RowId)
    /\ sent \in BOOLEAN /\ (sent => batch # <<>>)
    /\ asked \subseteq {"skip", "retry"} \X RowId
    /\ skipped \subseteq RowId /\ excused \subseteq RowId
    /\ failures \in Nat /\ crashes \in Nat /\ requests \in Nat

\* No row is lost: a row is marked processed only after Kafka has it, or
\* because an operator skipped it, wherever the relay failed or died.
NoRowLost == \A i \in processed : InTopic(i) \/ i \in skipped

\* Nothing leaks: Kafka only ever holds rows whose transaction committed.
OnlyCommittedRows == \A n \in DOMAIN topic : topic[n] \in rows

\* Within a partition key rows reach Kafka in id order, as the relay's comment
\* says, with two exceptions: a row whose transaction committed behind one
\* with a higher id, and a row whose send failed, after which the batch goes
\* on.  Stale batches, crashes, resends and skips never reorder.
OvertakenOnlyIfExcused ==
    \A m, n \in DOMAIN topic :
        m < n /\ key[topic[m]] = key[topic[n]] /\ topic[m] > topic[n]
            => topic[n] \in excused \/ \E l \in 1..(m - 1) : topic[l] = topic[n]

\* The relay implements the outbox's promise: every step of producers, relay
\* and operators is a step of ReliableOutbox or changes nothing it speaks of.
\* In particular a row that was marked after publication is never sent again.
Promise == INSTANCE ReliableOutbox WITH
    Row <- RowId, committed <- rows, closed <- processed, skipped <- skipped, published <- topic
KeepsPromise == Promise!Spec

\* The strengthening of NoRowLost and OnlyCommittedRows: the batch holds
\* committed rows in ascending order, none of them closed but by an operator,
\* an acknowledged head is in the topic, and operators ask for committed rows.
BatchCommitted == \A n \in DOMAIN batch : batch[n] \in rows
BatchAscending == \A m, n \in DOMAIN batch : m < n => batch[m] < batch[n]
BatchUnmarked == \A n \in DOMAIN batch : batch[n] \in processed => batch[n] \in skipped
SentIsInTopic == sent => InTopic(Head(batch))
AskedCommitted == \A i \in RowId : <<"skip", i>> \in asked => i \in rows
RelayInv ==
    /\ TypeOK /\ NoRowLost /\ OnlyCommittedRows /\ BatchCommitted /\ BatchAscending
    /\ BatchUnmarked /\ SentIsInTopic /\ AskedCommitted

\* The strengthening of OvertakenOnlyIfExcused.  A committed row below one
\* that is out, or that is in the batch, is excused, has been sent before it,
\* comes before it in the batch, or is closed and in no batch: it will never
\* be sent after it.
Settled(j) == j \in excused \/ (j \in processed /\ \A k \in DOMAIN batch : batch[k] # j)
TopicInOrder ==
    \A m \in DOMAIN topic, j \in rows :
        j < topic[m] => Settled(j) \/ \E l \in 1..(m - 1) : topic[l] = j
BatchInOrder ==
    \A n \in DOMAIN batch, j \in rows :
        j < batch[n] => Settled(j) \/ InTopic(j) \/ \E k \in 1..(n - 1) : batch[k] = j
NeverOvertaken ==
    \A m, n \in DOMAIN topic :
        m < n /\ topic[m] > topic[n]
            => topic[n] \in excused \/ \E l \in 1..(m - 1) : topic[l] = topic[n]
OrderInv == TopicInOrder /\ BatchInOrder /\ NeverOvertaken

\* Every committed row reaches Kafka or is skipped, unless the broker refuses
\* it for ever: rows that always fail do not starve the ones behind them.
Delivered ==
    \A i \in RowId : (i \in rows /\ i \notin poison) ~> (InTopic(i) \/ i \in skipped)
=============================================================================
