---------------------------- MODULE RetryPipeline ----------------------------
(***************************************************************************)
(* What happens to an event behind the outbox relay: a worker (notification *)
(* or market-data-fanout) handles it under withRetryPolicy and withDedupe, *)
(* failures travel to the 30 second retry topic or to the dead letter      *)
(* topic, dlq-monitor mirrors dead letters into Postgres, and operators    *)
(* replay or dismiss them.                                                 *)
(*                                                                         *)
(* Each await of the worker's handler is a step, so the process may die,   *)
(* and Redis or the broker may fail, between any two.  A message is its    *)
(* event and the x-orbit-attempt header; one partition per topic.  Time is *)
(* abstract: the retry delay and the TTL of a dedupe key pass at any time. *)
(***************************************************************************)
EXTENDS Integers, Sequences, FiniteSets

CONSTANTS Events,        \* event ids
          InFlight,      \* inFlightAttempts
          MaxMessages,   \* bound: messages of the event topic
          MaxFaults,     \* bound: failures of Redis, Kafka, Postgres and the process
          MaxRequests    \* bound: operator requests

ASSUME PipelineAssumption ==
    /\ Events # {}
    /\ InFlight \in Nat /\ MaxMessages \in Nat /\ MaxFaults \in Nat /\ MaxRequests \in Nat

Message == [event : Events, attempt : Nat]
DlqEvent == [event : Events, resolution : {"none", "replayed", "dismissed"}]
Request == {"replay", "replayed", "dismissed"}

VARIABLES
    main, retry, dlq,     \* the three topics
    position, committed,  \* the worker's next offset, and the one Kafka remembers
    retried, mirrored,    \* messages retry-30s and dlq-monitor are done with
    keys,                 \* dedupe keys in Redis
    pc,                   \* where the worker is in its handler
    inflightCount,        \* failures of the current offset in this process
    effects,              \* SNS calls or pub/sub messages made per event
    rows,                 \* DlqEvent rows: event and resolution
    asked,                \* operator requests past their check: <<request, row>>
    orphans,              \* history: events whose key outlived a failed handler
    slips,                \* history: Redis outages, lost acknowledgements, expiries
    sendErrors,           \* history: failed sends, redeliveries and failed inserts
    crashes, requests

topics == <<main, retry, dlq>>
worker == <<position, pc, inflightCount>>
admin == <<rows, asked, requests>>
faults == <<slips, sendErrors, crashes>>

MayFail == slips + sendErrors + crashes + Cardinality(orphans) < MaxFaults

vars == <<topics, worker, committed, retried, mirrored, keys, effects, admin, orphans, faults>>

Init ==
    /\ main = <<>> /\ retry = <<>> /\ dlq = <<>>
    /\ position = 1 /\ committed = 1 /\ retried = 0 /\ mirrored = 0
    /\ keys = {} /\ pc = "idle" /\ inflightCount = 0
    /\ effects = [e \in Events |-> 0]
    /\ rows = <<>> /\ asked = {} /\ orphans = {}
    /\ slips = 0 /\ sendErrors = 0 /\ crashes = 0 /\ requests = 0

\* The relay publishes an event, perhaps more than once.
Publish(e) ==
    /\ Len(main) < MaxMessages
    /\ main' = Append(main, [event |-> e, attempt |-> 0])
    /\ UNCHANGED <<retry, dlq, worker, committed, retried, mirrored, keys, effects, admin,
                   orphans, faults>>

-----------------------------------------------------------------------------
(* withDedupe around the side effect.                                      *)

current == main[position]

\* Mutant: SET without NX.
ClaimAnyway ==
    /\ pc = "idle" /\ position \in DOMAIN main
    /\ keys' = keys \cup {current.event}
    /\ pc' = "claimed"
    /\ UNCHANGED <<topics, position, inflightCount, committed, retried, mirrored, effects, admin,
                   orphans, faults>>

\* SET key NX EX ttl.
Claim ==
    /\ pc = "idle" /\ position \in DOMAIN main
    /\ current.event \notin keys
    /\ keys' = keys \cup {current.event}
    /\ pc' = "claimed"
    /\ UNCHANGED <<topics, position, inflightCount, committed, retried, mirrored, effects, admin,
                   orphans, faults>>

\* The key is there: the event counts as processed.
Hit ==
    /\ pc = "idle" /\ position \in DOMAIN main
    /\ current.event \in keys
    /\ position' = position + 1 /\ inflightCount' = 0
    /\ UNCHANGED <<topics, pc, committed, retried, mirrored, keys, effects, admin, orphans, faults>>

\* SET throws, with or without having set the key: the handler runs anyway, and
\* nothing will release the key.
ClaimFails ==
    /\ pc = "idle" /\ position \in DOMAIN main
    /\ MayFail
    /\ slips' = slips + 1
    /\ keys' \in {keys, keys \cup {current.event}}
    /\ pc' = "open"
    /\ UNCHANGED <<topics, position, inflightCount, committed, retried, mirrored, effects, admin,
                   orphans, sendErrors, crashes>>

Effect ==
    /\ pc \in {"claimed", "open"}
    /\ effects' = [effects EXCEPT ![current.event] = @ + 1]
    /\ position' = position + 1 /\ inflightCount' = 0 /\ pc' = "idle"
    /\ UNCHANGED <<topics, committed, retried, mirrored, keys, admin, orphans, faults>>

\* The call throws, before or after it took effect.
EffectFails ==
    /\ pc \in {"claimed", "open"}
    /\ \/ UNCHANGED <<effects, slips>>
       \/ /\ MayFail
          /\ slips' = slips + 1
          /\ effects' = [effects EXCEPT ![current.event] = @ + 1]
    /\ pc' = IF pc = "claimed" THEN "release" ELSE "failed"
    /\ orphans' = IF pc = "open" THEN orphans \cup (keys \cap {current.event}) ELSE orphans
    /\ UNCHANGED <<topics, position, inflightCount, committed, retried, mirrored, keys, admin,
                   sendErrors, crashes>>

\* DEL key, best effort.
Release ==
    /\ pc = "release"
    /\ pc' = "failed"
    /\ \/ keys' = keys \ {current.event} /\ orphans' = orphans
       \/ /\ MayFail
          /\ keys' = keys
          /\ orphans' = orphans \cup {current.event}
    /\ UNCHANGED <<topics, position, inflightCount, committed, retried, mirrored, effects, admin,
                   faults>>

-----------------------------------------------------------------------------
(* withRetryPolicy: the catch branch.                                      *)

totalAttempts == inflightCount + current.attempt

\* Mutant: the counter is not bumped.

RethrowUncounted ==
    /\ pc = "failed"
    /\ totalAttempts < InFlight
    /\ pc' = "idle"
    /\ UNCHANGED <<topics, position, inflightCount, committed, retried, mirrored, keys, effects,
                   admin, orphans, faults>>

\* Budget left: rethrow, and kafkajs delivers the same offset again.
Rethrow ==
    /\ pc = "failed"
    /\ totalAttempts < InFlight
    /\ inflightCount' = inflightCount + 1
    /\ pc' = "idle"
    /\ UNCHANGED <<topics, position, committed, retried, mirrored, keys, effects, admin, orphans,
                   faults>>

\* Mutant: transient errors always go to the retry topic.
MoveOffTransient(errKind) ==
    LET moved == [current EXCEPT !.attempt = totalAttempts + 1]
    IN  IF errKind = "transient"
        THEN retry' = Append(retry, moved) /\ dlq' = dlq
        ELSE dlq' = Append(dlq, moved) /\ retry' = retry

\* A transient error on a message that has not been through the retry topic goes
\* there, everything else to the dead letters.
MoveOff(errKind) ==
    LET moved == [current EXCEPT !.attempt = totalAttempts + 1]
    IN  IF errKind = "transient" /\ current.attempt = 0
        THEN retry' = Append(retry, moved) /\ dlq' = dlq
        ELSE dlq' = Append(dlq, moved) /\ retry' = retry

\* Budget exhausted: move the message off and let the offset advance.
Escalate ==
    /\ pc = "failed"
    /\ totalAttempts >= InFlight
    /\ MoveOff("transient") \/ MoveOff("permanent")
    /\ position' = position + 1 /\ inflightCount' = 0 /\ pc' = "idle"
    /\ UNCHANGED <<main, committed, retried, mirrored, keys, effects, admin, orphans, faults>>

\* Mutant: the failed send is swallowed and the offset advances.
EscalateSwallows ==
    /\ pc = "failed"
    /\ totalAttempts >= InFlight
    /\ MayFail
    /\ sendErrors' = sendErrors + 1
    /\ position' = position + 1 /\ inflightCount' = 0 /\ pc' = "idle"
    /\ UNCHANGED <<topics, committed, retried, mirrored, keys, effects, admin, orphans, slips,
                   crashes>>

\* The send throws, with or without having reached the broker: the offset is
\* delivered again; the counter is gone already.
EscalateFails ==
    /\ pc = "failed"
    /\ totalAttempts >= InFlight
    /\ MayFail
    /\ sendErrors' = sendErrors + 1
    /\ MoveOff("transient") \/ MoveOff("permanent") \/ UNCHANGED <<retry, dlq>>
    /\ inflightCount' = 0 /\ pc' = "idle"
    /\ UNCHANGED <<main, position, committed, retried, mirrored, keys, effects, admin, orphans,
                   slips, crashes>>

-----------------------------------------------------------------------------
(* The worker's process, and Redis.                                        *)

CommitOffset ==
    /\ MayFail
    /\ committed # position
    /\ committed' = position
    /\ UNCHANGED <<topics, worker, retried, mirrored, keys, effects, admin, orphans, faults>>

Crash ==
    /\ MayFail
    /\ crashes' = crashes + 1
    /\ position' = committed /\ pc' = "idle" /\ inflightCount' = 0
    /\ orphans' = IF pc = "idle" THEN orphans ELSE orphans \cup (keys \cap {current.event})
    /\ UNCHANGED <<topics, committed, retried, mirrored, keys, effects, admin, slips, sendErrors>>

Expire(e) ==
    /\ e \in keys
    /\ MayFail
    /\ slips' = slips + 1
    /\ keys' = keys \ {e}
    /\ UNCHANGED <<topics, worker, committed, retried, mirrored, effects, admin, orphans,
                   sendErrors, crashes>>

-----------------------------------------------------------------------------
(* retry-30s: wait, then publish to the original topic with all headers.   *)

Republish ==
    /\ retried < Len(retry)
    /\ main' = Append(main, retry[retried + 1])
    /\ retried' = retried + 1
    /\ UNCHANGED <<retry, dlq, worker, committed, mirrored, keys, effects, admin, orphans, faults>>

\* Published, but redelivered: the sleep outlives the session, or a crash.
RepublishAgain ==
    /\ retried < Len(retry)
    /\ MayFail
    /\ sendErrors' = sendErrors + 1
    /\ main' = Append(main, retry[retried + 1])
    /\ UNCHANGED <<retry, dlq, worker, committed, retried, mirrored, keys, effects, admin, orphans,
                   slips, crashes>>

-----------------------------------------------------------------------------
(* dlq-monitor and the operators: AdminDlqService.                         *)

Mirror ==
    /\ mirrored < Len(dlq)
    /\ mirrored' = mirrored + 1
    /\ rows' = Append(rows, [event |-> dlq[mirrored'].event, resolution |-> "none"])
    /\ UNCHANGED <<topics, worker, committed, retried, keys, effects, asked, requests, orphans,
                   faults>>

\* Inserted, but the process dies before its offset is committed.
MirrorAgain ==
    /\ mirrored < Len(dlq)
    /\ MayFail
    /\ sendErrors' = sendErrors + 1
    /\ rows' = Append(rows, [event |-> dlq[mirrored + 1].event, resolution |-> "none"])
    /\ UNCHANGED <<topics, worker, committed, retried, mirrored, keys, effects, asked, requests,
                   orphans, slips, crashes>>

\* The insert fails, the error is logged, the offset advances.
MirrorFails ==
    /\ mirrored < Len(dlq)
    /\ MayFail
    /\ sendErrors' = sendErrors + 1
    /\ mirrored' = mirrored + 1
    /\ UNCHANGED <<topics, worker, committed, retried, keys, effects, admin, orphans, slips, crashes>>

\* Both requests read the row and refuse a resolved one.
Ask(request, r) ==
    /\ r \in DOMAIN rows
    /\ rows[r].resolution = "none"
    /\ requests < MaxRequests
    /\ requests' = requests + 1
    /\ asked' = asked \cup {<<request, r>>}
    /\ UNCHANGED <<topics, worker, committed, retried, mirrored, keys, effects, rows, orphans,
                   faults>>

\* Back to the original topic without the retry headers, then mark the row.
ReplaySend(r) ==
    /\ <<"replay", r>> \in asked
    /\ main' = Append(main, [event |-> rows[r].event, attempt |-> 0])
    /\ asked' = (asked \ {<<"replay", r>>}) \cup {<<"replayed", r>>}
    /\ UNCHANGED <<retry, dlq, worker, committed, retried, mirrored, keys, effects, rows, requests,
                   orphans, faults>>

Resolve(request, r) ==
    /\ <<request, r>> \in asked
    /\ asked' = asked \ {<<request, r>>}
    /\ rows' = [rows EXCEPT ![r].resolution = request]
    /\ UNCHANGED <<topics, worker, committed, retried, mirrored, keys, effects, requests, orphans,
                   faults>>

-----------------------------------------------------------------------------
Handler == Claim \/ Hit \/ ClaimFails \/ Effect \/ EffectFails \/ Release \/ Rethrow \/ Escalate
           \/ EscalateFails
Operator ==
    \E r \in DOMAIN rows :
        \/ Ask("replay", r) \/ Ask("dismissed", r)
        \/ ReplaySend(r) \/ Resolve("replayed", r) \/ Resolve("dismissed", r)

Next == \/ \E e \in Events : Publish(e) \/ Expire(e)
        \/ Handler \/ CommitOffset \/ Crash
        \/ Republish \/ RepublishAgain \/ Mirror \/ MirrorAgain \/ MirrorFails
        \/ Operator

Spec == Init /\ [][Next]_vars

(* The consumers poll for ever.                                            *)
FairSpec == Spec /\ WF_vars(Handler) /\ WF_vars(Republish \/ RepublishAgain)
                 /\ WF_vars(Mirror \/ MirrorAgain \/ MirrorFails)

-----------------------------------------------------------------------------
(* Properties.                                                             *)

\* Type invariant.
TypeOK ==
    /\ main \in Seq(Message) /\ retry \in Seq(Message) /\ dlq \in Seq(Message)
    /\ position \in 1..(Len(main) + 1) /\ committed \in 1..(Len(main) + 1)
    /\ retried \in 0..Len(retry) /\ mirrored \in 0..Len(dlq)
    /\ keys \subseteq Events /\ orphans \subseteq Events
    /\ pc \in {"idle", "claimed", "open", "release", "failed"}
    /\ pc # "idle" => position <= Len(main)
    /\ inflightCount \in 0..InFlight
    /\ effects \in [Events -> Nat]
    /\ rows \in Seq(DlqEvent)
    /\ asked \subseteq Request \X DOMAIN rows
    /\ slips \in Nat /\ sendErrors \in Nat /\ crashes \in Nat /\ requests \in Nat

InDlq(e) == \E n \in DOMAIN dlq : dlq[n].event = e
Pending(e) == \/ \E n \in position..Len(main) : main[n].event = e
              \/ \E n \in (retried + 1)..Len(retry) : retry[n].event = e
Published(e) == \E n \in DOMAIN main : main[n].event = e

\* Nothing that was published is lost: it has had its effect, is still to be
\* handled, or lies in the dead letters (dedupe.ts: better a duplicate side
\* effect than a dropped event).  The one way around it is a dedupe key that
\* outlived a handler that failed or died; retries, escalations, failed sends
\* and redeliveries lose nothing.
LostOnlyBehindOrphan ==
    \A e \in Events : Published(e) => effects[e] > 0 \/ Pending(e) \/ InDlq(e) \/ e \in orphans

\* A user gets a notification twice only when Redis was down, an
\* acknowledgement was lost or the key expired: relay duplicates, retries,
\* replays and crashes alone never repeat a side effect.
EffectOnce == \A e \in Events : effects[e] <= 1 + slips

\* A message goes through the retry topic at most once, after exactly InFlight + 1
\* tries; what comes back from there gets one more try before it is dead.
\* Neither crashes, failed escalations nor replays lengthen the chain.
BoundedAttempts ==
    /\ \A n \in DOMAIN retry : retry[n].attempt = InFlight + 1
    /\ \A n \in DOMAIN dlq : dlq[n].attempt \in (InFlight + 1)..(InFlight + 2)

\* The worker never gets stuck: every message of its topic is handled, moved to
\* the retry topic or to the dead letters, however often the side effect fails.
Drains == []<>(position > Len(main) /\ retried = Len(retry))

-----------------------------------------------------------------------------
(* The inductive invariant of the proofs.                                  *)

At(e) == pc # "idle" /\ current.event = e

\* Kafka remembers no offset the worker has not reached.
CommittedBehind == committed <= position

\* A message is fresh or back from the retry topic; only fresh ones are counted.
AttemptsFit ==
    /\ \A n \in DOMAIN main : main[n].attempt \in {0, InFlight + 1}
    /\ inflightCount > 0 => position <= Len(main) /\ current.attempt = 0

\* Side effects made and under way, against the slips and the key that pays for one.
EffectsPaid ==
    \A e \in Events :
        effects[e] + (IF At(e) /\ pc \in {"claimed", "open"} THEN 1 ELSE 0)
            <= slips + (IF e \in keys /\ ~(At(e) /\ pc = "release") THEN 1 ELSE 0)

\* A key stands for an effect, for a handler at work, or for an orphan.
KeyExplained ==
    \A e \in keys : effects[e] > 0 \/ e \in orphans
                    \/ (At(e) /\ pc \in {"claimed", "open", "release"})

PipeInv == /\ TypeOK /\ CommittedBehind /\ AttemptsFit /\ BoundedAttempts
           /\ EffectsPaid /\ KeyExplained /\ LostOnlyBehindOrphan
=============================================================================
