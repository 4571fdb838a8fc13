-------------------------- MODULE ReliabilityProofs --------------------------
(***************************************************************************)
(* Proofs about the retry pipeline, and about the admin lists from which   *)
(* its dead letters, and the outbox rows before it, are worked on.  The    *)
(* two models share no state: each theorem is about one specification.     *)
(*                                                                         *)
(* RetryPipeline, for every set of events, in-flight budget and bound:     *)
(* PipeInv is the inductive invariant.  An effect is paid for by a key or  *)
(* by a slip (EffectsPaid), and a key stands for an effect, a handler at   *)
(* work or an orphan (KeyExplained); neither EffectOnce nor                *)
(* LostOnlyBehindOrphan is preserved by a dedupe hit without them.         *)
(*                                                                         *)
(* AdminLists, for every set of operators, page size and bound: ListsInv   *)
(* is the inductive invariant.  Every kept answer is a stretch of its list *)
(* that follows its cursor, and the cursors of a walk are linked by the    *)
(* answers kept for them.                                                  *)
(***************************************************************************)
EXTENDS RetryPipeline, AdminLists, FiniteSetTheorems, WellFoundedInduction, NaturalsInduction, TLAPS

\* The message at the worker's position, when there is one.
LEMMA CurrentFacts ==
    ASSUME TypeOK, position \in DOMAIN main
    PROVE  /\ current \in Message /\ current.event \in Events /\ current.attempt \in Nat
           /\ position \in 1..Len(main) /\ position \in Nat /\ Len(main) \in Nat
<1>1. main \in Seq(Message) /\ DOMAIN main = 1..Len(main) /\ Len(main) \in Nat
  BY DEF TypeOK
<1>2. current \in Message
  BY <1>1 DEF current
<1> QED
  BY <1>1, <1>2 DEF Message

\* In the middle of a handler there is one.
LEMMA BusyFacts ==
    ASSUME TypeOK, pc # "idle"
    PROVE  position \in DOMAIN main
  BY DEF TypeOK

\* What lies beyond an offset.
LEMMA BeyondFacts ==
    ASSUME NEW past \in Nat, NEW last \in Nat, NEW n \in Nat, ~(n <= past), n <= last
    PROVE  n \in (past + 1)..last
  OBVIOUS

\* A topic after a send.
LEMMA AppendFacts ==
    ASSUME NEW S, NEW s \in Seq(S), NEW x \in S
    PROVE  /\ Append(s, x) \in Seq(S)
           /\ Len(s) \in Nat /\ Len(Append(s, x)) = Len(s) + 1
           /\ DOMAIN s = 1..Len(s) /\ DOMAIN Append(s, x) = 1..(Len(s) + 1)
           /\ \A n \in 1..Len(s) : Append(s, x)[n] = s[n]
           /\ Append(s, x)[Len(s) + 1] = x
  OBVIOUS

-----------------------------------------------------------------------------
\* The empty topics satisfy the invariant.
LEMMA InitPipeInv == Init => PipeInv
<1> SUFFICES ASSUME Init PROVE PipeInv
  OBVIOUS
<1>1. TypeOK
  BY PipelineAssumption DEF Init, TypeOK
<1>2. CommittedBehind /\ AttemptsFit /\ BoundedAttempts
  BY DEF Init, CommittedBehind, AttemptsFit, BoundedAttempts
<1>3. EffectsPaid /\ KeyExplained /\ LostOnlyBehindOrphan
  BY DEF Init, EffectsPaid, KeyExplained, At, LostOnlyBehindOrphan, Published
<1> QED
  BY <1>1, <1>2, <1>3 DEF PipeInv

\* dlq-monitor and the operators' bookkeeping touch nothing but rows and requests.
LEMMA RowsPipeInv ==
    ASSUME PipeInv,
           \/ Mirror \/ MirrorAgain \/ MirrorFails
           \/ \E r \in DOMAIN rows :
                \/ Ask("replay", r) \/ Ask("dismissed", r)
                \/ Resolve("replayed", r) \/ Resolve("dismissed", r)
    PROVE  PipeInv'
<1>0. /\ TypeOK /\ rows \in Seq(DlqEvent) /\ dlq \in Seq(Message) /\ mirrored \in 0..Len(dlq)
      /\ sendErrors \in Nat /\ requests \in Nat /\ asked \subseteq Request \X DOMAIN rows
  BY DEF PipeInv, TypeOK
<1>1. UNCHANGED <<topics, worker, committed, retried, keys, effects, orphans, slips>>
  BY DEF Mirror, MirrorAgain, MirrorFails, Ask, Resolve, faults, admin
<1>2. TypeOK'
  <2>1. CASE Mirror \/ MirrorAgain
    <3> DEFINE row == [event |-> dlq[mirrored + 1].event, resolution |-> "none"]
    <3>1. rows' = Append(rows, row) /\ mirrored < Len(dlq) /\ asked' = asked
      BY <2>1 DEF Mirror, MirrorAgain
    <3>2. mirrored + 1 \in DOMAIN dlq /\ Len(dlq) \in Nat
      BY <1>0, <3>1
    <3>3. row \in DlqEvent
      <4>1. dlq[mirrored + 1] \in Message
        BY <1>0, <3>2
      <4> QED
        BY <4>1 DEF Message, DlqEvent
    <3>4. rows' \in Seq(DlqEvent) /\ DOMAIN rows \subseteq DOMAIN rows'
      BY <1>0, <3>1, <3>3, AppendFacts
    <3>7. asked' \subseteq Request \X DOMAIN rows'
      BY <1>0, <3>1, <3>4
    <3>5. mirrored' \in 0..Len(dlq) /\ sendErrors' \in Nat
      BY <1>0, <2>1, <3>1, <3>2 DEF Mirror, MirrorAgain, faults
    <3>6. requests' = requests /\ crashes' = crashes
      BY <2>1 DEF Mirror, MirrorAgain, faults
    <3> QED
      BY <1>0, <1>1, <3>4, <3>5, <3>6, <3>7 DEF TypeOK, topics, worker
  <2>2. CASE MirrorFails
    BY <1>0, <1>1, <2>2 DEF TypeOK, topics, worker, admin, MirrorFails
  <2>3. ASSUME NEW r \in DOMAIN rows, Ask("replay", r) \/ Ask("dismissed", r)
        PROVE  TypeOK'
    <3>1. PICK req \in Request : Ask(req, r)
      BY <2>3 DEF Request
    <3>2. rows' = rows /\ asked' \subseteq Request \X DOMAIN rows /\ requests' \in Nat
      BY <1>0, <3>1 DEF Ask
    <3>3. UNCHANGED <<mirrored, faults>>
      BY <3>1 DEF Ask
    <3> QED
      BY <1>0, <1>1, <3>2, <3>3 DEF TypeOK, topics, worker, faults
  <2>4. ASSUME NEW r \in DOMAIN rows, Resolve("replayed", r) \/ Resolve("dismissed", r)
        PROVE  TypeOK'
    <3>1. PICK req \in {"replayed", "dismissed"} : Resolve(req, r)
      BY <2>4
    <3>2. rows[r] \in DlqEvent
      BY <1>0
    <3>3. [rows[r] EXCEPT !.resolution = req] \in DlqEvent
      BY <3>2 DEF DlqEvent
    <3>4. rows' \in Seq(DlqEvent) /\ DOMAIN rows' = DOMAIN rows
      <4> DEFINE new == [rows[r] EXCEPT !.resolution = req]
      <4>1. rows' = [rows EXCEPT ![r] = new]
        BY <3>1 DEF Resolve
      <4> HIDE DEF new
      <4> QED
        BY <1>0, <4>1, <3>3 DEF new
    <3>5. asked' \subseteq Request \X DOMAIN rows'
      BY <1>0, <3>1, <3>4 DEF Resolve
    <3>6. UNCHANGED <<mirrored, requests, faults>>
      BY <3>1 DEF Resolve
    <3> QED
      BY <1>0, <1>1, <3>4, <3>5, <3>6 DEF TypeOK, topics, worker, faults
  <2> QED
    BY <2>1, <2>2, <2>3, <2>4
<1> QED
  BY <1>1, <1>2 DEF PipeInv, CommittedBehind, AttemptsFit, BoundedAttempts, EffectsPaid,
     KeyExplained, LostOnlyBehindOrphan, At, current, Published, Pending, InDlq, topics, worker

\* A message appended to the event topic, fresh or back from the retry topic.
LEMMA MainPipeInv ==
    ASSUME PipeInv,
           NEW m \in Message, m.attempt \in {0, InFlight + 1}, main' = Append(main, m),
           UNCHANGED <<retry, dlq, worker, committed, mirrored, keys, effects, rows, orphans,
                       requests, slips, crashes>>,
           asked' \subseteq Request \X DOMAIN rows,
           sendErrors' \in Nat,
           retried' \in retried..Len(retry),
           \A n \in (retried + 1)..retried' : retry[n].event = m.event
    PROVE  PipeInv'
<1>0. TypeOK /\ main \in Seq(Message)
  BY DEF PipeInv, TypeOK
<1>1. /\ main' \in Seq(Message) /\ Len(main) \in Nat /\ Len(main') = Len(main) + 1
      /\ DOMAIN main = 1..Len(main) /\ DOMAIN main' = 1..(Len(main) + 1)
      /\ \A n \in 1..Len(main) : main'[n] = main[n]
      /\ main'[Len(main) + 1] = m
  BY <1>0, AppendFacts
<1>2. TypeOK'
  BY <1>0, <1>1 DEF TypeOK, worker
<1>3. position \in DOMAIN main => current' = current
  BY <1>1 DEF current, worker
<1>4. \A e : At(e)' <=> At(e)
  BY <1>0, <1>3, BusyFacts DEF At, worker
<1>5. CommittedBehind' /\ BoundedAttempts' /\ EffectsPaid' /\ KeyExplained'
  BY <1>4 DEF PipeInv, CommittedBehind, BoundedAttempts, EffectsPaid, KeyExplained, worker
<1>6. AttemptsFit'
  <2>1. \A n \in DOMAIN main' : main'[n].attempt \in {0, InFlight + 1}
    BY <1>1 DEF PipeInv, AttemptsFit
  <2> QED
    BY <2>1, <1>0, <1>1, <1>3 DEF PipeInv, AttemptsFit, worker, TypeOK
<1>7. LostOnlyBehindOrphan'
  <2> SUFFICES ASSUME NEW e \in Events, Published(e)'
               PROVE  effects[e] > 0 \/ Pending(e)' \/ InDlq(e) \/ e \in orphans
    BY DEF LostOnlyBehindOrphan, InDlq
  <2>1. position' = position /\ position \in 1..(Len(main) + 1)
    BY <1>0 DEF TypeOK, worker
  <2>2. CASE m.event = e
    <3>1. Len(main') \in position'..Len(main') /\ main'[Len(main')].event = e
      BY <1>1, <2>1, <2>2
    <3> QED
      BY <3>1 DEF Pending
  <2>3. CASE m.event # e
    <3>1. Published(e)
      BY <1>1, <2>3 DEF Published
    <3>2. Pending(e) => Pending(e)'
      <4>1. ASSUME NEW n \in position..Len(main), main[n].event = e PROVE Pending(e)'
        <5>1. n \in position'..Len(main') /\ main'[n].event = e
          BY <1>1, <2>1, <4>1
        <5> QED
          BY <5>1 DEF Pending
      <4>2. ASSUME NEW n \in (retried + 1)..Len(retry), retry[n].event = e PROVE Pending(e)'
        <5>1. retried \in Nat /\ Len(retry) \in Nat /\ retried' \in Nat /\ retry' = retry
          BY <1>0 DEF TypeOK
        <5>2. n \in Nat /\ retried + 1 <= n /\ n <= Len(retry)
          BY <4>2, <5>1
        <5>4. ASSUME n <= retried' PROVE FALSE
          <6>1. n \in (retried + 1)..retried'
            BY <5>1, <5>2, <5>4
          <6> QED
            BY <2>3, <4>2, <6>1
        <5>3. n \in (retried' + 1)..Len(retry')
          BY <5>1, <5>2, <5>4, BeyondFacts
        <5> QED
          BY <4>2, <5>3 DEF Pending
      <4> QED
        BY <4>1, <4>2 DEF Pending
    <3> QED
      BY <3>1, <3>2 DEF PipeInv, LostOnlyBehindOrphan
  <2> QED
    BY <2>2, <2>3
<1> QED
  BY <1>2, <1>5, <1>6, <1>7 DEF PipeInv

\* The four ways into the event topic.
LEMMA SendersPipeInv ==
    ASSUME PipeInv,
           \/ \E e \in Events : Publish(e)
           \/ Republish \/ RepublishAgain
           \/ \E r \in DOMAIN rows : ReplaySend(r)
    PROVE  PipeInv'
<1>0. /\ TypeOK /\ retry \in Seq(Message) /\ retried \in Nat /\ Len(retry) \in Nat
      /\ retried <= Len(retry) /\ InFlight \in Nat
  BY PipelineAssumption DEF PipeInv, TypeOK
<1>1. ASSUME NEW e \in Events, Publish(e) PROVE PipeInv'
  <2>1. [event |-> e, attempt |-> 0] \in Message
    BY DEF Message
  <2> QED
    BY <1>0, <1>1, <2>1, MainPipeInv DEF Publish, TypeOK, admin, faults
<1>2. CASE Republish \/ RepublishAgain
  <2>1. retried < Len(retry)
    BY <1>2 DEF Republish, RepublishAgain
  <2>2. /\ retried + 1 \in DOMAIN retry
        /\ retry[retried + 1] \in Message /\ retry[retried + 1].attempt = InFlight + 1
    BY <1>0, <2>1 DEF PipeInv, BoundedAttempts
  <2>3. retried' \in {retried, retried + 1} /\ sendErrors' \in Nat
    BY <1>0, <1>2 DEF Republish, RepublishAgain, TypeOK, faults
  <2>4. /\ retried' \in retried..Len(retry)
        /\ \A n \in (retried + 1)..retried' : retry[n].event = retry[retried + 1].event
    BY <1>0, <2>1, <2>3
  <2> QED
    BY <1>0, <1>2, <2>2, <2>3, <2>4, MainPipeInv DEF Republish, RepublishAgain, TypeOK, admin, faults
<1>3. ASSUME NEW r \in DOMAIN rows, ReplaySend(r) PROVE PipeInv'
  <2>0. rows \in Seq(DlqEvent) /\ asked \subseteq Request \X DOMAIN rows
    BY <1>0 DEF TypeOK
  <2>1. [event |-> rows[r].event, attempt |-> 0] \in Message
    <3>1. rows[r] \in DlqEvent
      BY <2>0
    <3> QED
      BY <3>1 DEF Message, DlqEvent
  <2>2. asked' \subseteq Request \X DOMAIN rows
    BY <2>0, <1>3 DEF ReplaySend, Request
  <2>3. /\ main' = Append(main, [event |-> rows[r].event, attempt |-> 0])
        /\ UNCHANGED <<retry, dlq, worker, committed, retried, mirrored, keys, effects, rows,
                       requests, orphans, faults>>
    BY <1>3 DEF ReplaySend
  <2>4. sendErrors' \in Nat /\ retried' \in retried..Len(retry) /\ retried' < retried + 1
    BY <1>0, <2>3 DEF TypeOK, faults
  <2> QED
    BY <1>0, <2>1, <2>2, <2>3, <2>4, MainPipeInv DEF faults
<1> QED
  BY <1>1, <1>2, <1>3

-----------------------------------------------------------------------------
\* Nothing is lost by a step that keeps the event topic, extends the other two
\* and advances the offset only past an event that is accounted for.
LEMMA LossStep ==
    ASSUME TypeOK, LostOnlyBehindOrphan,
           main' = main, retried' = retried,
           Len(retry') \in Nat, Len(retry') >= Len(retry),
           \A n \in 1..Len(retry) : retry'[n] = retry[n],
           DOMAIN dlq \subseteq DOMAIN dlq', \A n \in DOMAIN dlq : dlq'[n] = dlq[n],
           \A e \in Events : effects[e] > 0 => effects'[e] > 0,
           orphans \subseteq orphans',
           position' \in 1..(position + 1),
           position' > position =>
              \/ effects'[current.event] > 0
              \/ current.event \in orphans'
              \/ \E n \in DOMAIN dlq' : dlq'[n].event = current.event
              \/ \E n \in (retried + 1)..Len(retry') : retry'[n].event = current.event
    PROVE  LostOnlyBehindOrphan'
<1> SUFFICES ASSUME NEW e \in Events, Published(e)'
             PROVE  effects'[e] > 0 \/ Pending(e)' \/ InDlq(e)' \/ e \in orphans'
  BY DEF LostOnlyBehindOrphan
<1>1. effects[e] > 0 \/ Pending(e) \/ InDlq(e) \/ e \in orphans
  BY DEF LostOnlyBehindOrphan, Published
<1>2. InDlq(e) => InDlq(e)'
  BY DEF InDlq
<1>3. position \in Nat /\ Len(main) \in Nat /\ retried \in Nat /\ Len(retry) \in Nat /\ position' \in Nat
  BY DEF TypeOK
<1>4. ASSUME NEW n \in (retried + 1)..Len(retry), retry[n].event = e PROVE Pending(e)'
  <2>1. n \in (retried' + 1)..Len(retry') /\ n \in 1..Len(retry)
    BY <1>3, <1>4
  <2> QED
    BY <1>4, <2>1 DEF Pending
<1>5. ASSUME NEW n \in position..Len(main), main[n].event = e
      PROVE  effects'[e] > 0 \/ Pending(e)' \/ InDlq(e)' \/ e \in orphans'
  <2>1. CASE n \in position'..Len(main')
    BY <1>5, <2>1 DEF Pending
  <2>2. CASE n \notin position'..Len(main')
    <3>1. n = position /\ position' > position
      BY <1>3, <1>5, <2>2
    <3>2. current.event = e
      BY <1>5, <3>1 DEF current
    <3> QED
      BY <3>1, <3>2 DEF Pending, InDlq
  <2> QED
    BY <2>1, <2>2
<1> QED
  BY <1>1, <1>2, <1>4, <1>5 DEF Pending

\* SET key NX.
LEMMA ClaimPipeInv ==
    ASSUME PipeInv, Claim
    PROVE  PipeInv'
<1>0. TypeOK /\ position \in DOMAIN main /\ pc = "idle" /\ current.event \notin keys
  BY DEF PipeInv, Claim
<1>1. /\ keys' = keys \cup {current.event} /\ pc' = "claimed" /\ current' = current
      /\ UNCHANGED <<main, retry, dlq, position, inflightCount, committed, retried, mirrored, effects,
                     rows, asked, requests, orphans, slips, sendErrors, crashes>>
  BY DEF Claim, topics, admin, faults, current
<1>2. TypeOK'
  BY <1>0, <1>1, CurrentFacts DEF TypeOK
<1>3. CommittedBehind' /\ AttemptsFit' /\ BoundedAttempts'
  BY <1>1 DEF PipeInv, CommittedBehind, AttemptsFit, BoundedAttempts
<1>4. \A e : ~At(e) /\ (At(e)' <=> e = current.event)
  BY <1>0, <1>1 DEF At
<1>5. EffectsPaid'
  <2> SUFFICES ASSUME NEW e \in Events
               PROVE  effects[e] + (IF e = current.event THEN 1 ELSE 0)
                        <= slips + (IF e \in keys' THEN 1 ELSE 0)
    BY <1>1, <1>4 DEF EffectsPaid
  <2>1. effects[e] <= slips + (IF e \in keys THEN 1 ELSE 0) /\ effects[e] \in Nat /\ slips \in Nat
    BY <1>0, <1>4 DEF PipeInv, EffectsPaid, TypeOK
  <2> QED
    BY <1>0, <1>1, <2>1
<1>6. KeyExplained'
  BY <1>1, <1>4 DEF PipeInv, KeyExplained
<1>7. LostOnlyBehindOrphan'
  BY <1>1 DEF PipeInv, LostOnlyBehindOrphan, Published, Pending, InDlq
<1> QED
  BY <1>2, <1>3, <1>5, <1>6, <1>7 DEF PipeInv

\* SET throws, and the handler runs.
LEMMA ClaimFailsPipeInv ==
    ASSUME PipeInv, ClaimFails
    PROVE  PipeInv'
<1>0. TypeOK /\ position \in DOMAIN main /\ pc = "idle"
  BY DEF PipeInv, ClaimFails
<1>1. /\ keys' \in {keys, keys \cup {current.event}} /\ slips' = slips + 1
      /\ pc' = "open" /\ current' = current
      /\ UNCHANGED <<main, retry, dlq, position, inflightCount, committed, retried, mirrored, effects,
                     rows, asked, requests, orphans, sendErrors, crashes>>
  BY DEF ClaimFails, topics, admin, current
<1>2. TypeOK'
  BY <1>0, <1>1, CurrentFacts DEF TypeOK
<1>3. CommittedBehind' /\ AttemptsFit' /\ BoundedAttempts'
  BY <1>1 DEF PipeInv, CommittedBehind, AttemptsFit, BoundedAttempts
<1>4. \A e : ~At(e) /\ (At(e)' <=> e = current.event)
  BY <1>0, <1>1 DEF At
<1>5. EffectsPaid'
  <2> SUFFICES ASSUME NEW e \in Events
               PROVE  effects[e] + (IF e = current.event THEN 1 ELSE 0)
                        <= slips + 1 + (IF e \in keys' THEN 1 ELSE 0)
    BY <1>1, <1>4 DEF EffectsPaid
  <2>1. effects[e] <= slips + (IF e \in keys THEN 1 ELSE 0) /\ effects[e] \in Nat /\ slips \in Nat
    BY <1>0, <1>4 DEF PipeInv, EffectsPaid, TypeOK
  <2> QED
    BY <1>1, <2>1
<1>6. KeyExplained'
  BY <1>1, <1>4 DEF PipeInv, KeyExplained
<1>7. LostOnlyBehindOrphan'
  BY <1>1 DEF PipeInv, LostOnlyBehindOrphan, Published, Pending, InDlq
<1> QED
  BY <1>2, <1>3, <1>5, <1>6, <1>7 DEF PipeInv

\* The side effect throws: what it may have done is paid for by the slip, and a key
\* that nobody will release becomes an orphan.
LEMMA EffectFailsPipeInv ==
    ASSUME PipeInv, EffectFails
    PROVE  PipeInv'
<1> DEFINE c == current.event
<1>0. TypeOK /\ pc \in {"claimed", "open"} /\ position \in DOMAIN main /\ c \in Events
  BY BusyFacts, CurrentFacts DEF PipeInv, EffectFails
<1>1. /\ pc' = (IF pc = "claimed" THEN "release" ELSE "failed")
      /\ orphans' = (IF pc = "open" THEN orphans \cup (keys \cap {c}) ELSE orphans)
      /\ current' = current
      /\ UNCHANGED <<main, retry, dlq, position, inflightCount, committed, retried, mirrored, keys,
                     rows, asked, requests, sendErrors, crashes>>
  BY DEF EffectFails, topics, admin, current
<1>2. \/ effects' = effects /\ slips' = slips
      \/ effects' = [effects EXCEPT ![c] = @ + 1] /\ slips' = slips + 1
  BY DEF EffectFails
<1>3. effects \in [Events -> Nat] /\ slips \in Nat /\ orphans \subseteq Events
  BY <1>0 DEF TypeOK
<1>4. /\ effects' \in [Events -> Nat] /\ slips' \in Nat
      /\ \A e \in Events : effects'[e] >= effects[e] /\ effects'[e] - effects[e] <= slips' - slips
      /\ \A e \in Events \ {c} : effects'[e] = effects[e]
      /\ slips' >= slips
  BY <1>0, <1>2, <1>3
<1>5. TypeOK'
  <2>1. orphans' \subseteq Events /\ pc' \in {"release", "failed"} /\ position <= Len(main)
    BY <1>0, <1>1, <1>3, CurrentFacts
  <2> QED
    BY <1>0, <1>1, <1>4, <2>1 DEF TypeOK
<1>6. CommittedBehind' /\ AttemptsFit' /\ BoundedAttempts'
  BY <1>1 DEF PipeInv, CommittedBehind, AttemptsFit, BoundedAttempts
<1>7. \A e : (At(e) <=> e = c) /\ (At(e)' <=> e = c)
  BY <1>0, <1>1 DEF At
<1>8. EffectsPaid'
  <2> SUFFICES ASSUME NEW e \in Events
               PROVE  effects'[e] <= slips' + (IF e \in keys /\ ~(e = c /\ pc' = "release") THEN 1 ELSE 0)
    BY <1>0, <1>1, <1>4, <1>7 DEF EffectsPaid
  <2>1. effects[e] + (IF e = c THEN 1 ELSE 0) <= slips + (IF e \in keys THEN 1 ELSE 0)
    BY <1>0, <1>7 DEF PipeInv, EffectsPaid
  <2>2. effects[e] \in Nat /\ effects'[e] \in Nat
    BY <1>3, <1>4
  <2> QED
    BY <1>3, <1>4, <2>1, <2>2
<1>9. KeyExplained'
  <2> SUFFICES ASSUME NEW e \in keys
               PROVE  effects'[e] > 0 \/ e \in orphans' \/ (e = c /\ pc' = "release")
    BY <1>1, <1>7 DEF KeyExplained
  <2>1. effects[e] > 0 \/ e \in orphans \/ e = c
    BY <1>7 DEF PipeInv, KeyExplained
  <2>2. e \in Events /\ effects[e] \in Nat /\ effects'[e] \in Nat
    BY <1>0, <1>3, <1>4 DEF TypeOK
  <2> QED
    BY <1>0, <1>1, <1>4, <2>1, <2>2
<1>10. LostOnlyBehindOrphan'
  <2>1. \A e \in Events : effects[e] > 0 => effects'[e] > 0
    BY <1>3, <1>4
  <2> QED
    BY <1>1, <2>1 DEF PipeInv, LostOnlyBehindOrphan, Published, Pending, InDlq
<1> QED
  BY <1>5, <1>6, <1>8, <1>9, <1>10 DEF PipeInv

\* DEL key, or the orphan it leaves.
LEMMA ReleasePipeInv ==
    ASSUME PipeInv, Release
    PROVE  PipeInv'
<1> DEFINE c == current.event
<1>0. TypeOK /\ pc = "release" /\ position \in DOMAIN main /\ c \in Events
  BY BusyFacts, CurrentFacts DEF PipeInv, Release
<1>1. /\ pc' = "failed" /\ current' = current
      /\ UNCHANGED <<main, retry, dlq, position, inflightCount, committed, retried, mirrored, effects,
                     rows, asked, requests, slips, sendErrors, crashes>>
  BY DEF Release, topics, admin, faults, current
<1>2. \/ keys' = keys \ {c} /\ orphans' = orphans
      \/ keys' = keys /\ orphans' = orphans \cup {c}
  BY DEF Release
<1>3. TypeOK'
  BY <1>0, <1>1, <1>2 DEF TypeOK
<1>4. CommittedBehind' /\ AttemptsFit' /\ BoundedAttempts'
  BY <1>1 DEF PipeInv, CommittedBehind, AttemptsFit, BoundedAttempts
<1>5. \A e : (At(e) <=> e = c) /\ (At(e)' <=> e = c)
  BY <1>0, <1>1 DEF At
<1>6. EffectsPaid'
  <2> SUFFICES ASSUME NEW e \in Events
               PROVE  effects[e] <= slips + (IF e \in keys' THEN 1 ELSE 0)
    BY <1>1, <1>5, <1>3 DEF EffectsPaid, TypeOK
  <2>1. effects[e] \in Nat /\ slips \in Nat
    BY <1>0 DEF TypeOK
  <2>2. effects[e] <= slips + (IF e \in keys /\ e # c THEN 1 ELSE 0)
    BY <1>0, <1>5, <2>1 DEF PipeInv, EffectsPaid
  <2> QED
    BY <1>2, <2>1, <2>2
<1>7. KeyExplained'
  BY <1>0, <1>1, <1>2, <1>5 DEF PipeInv, KeyExplained
<1>8. LostOnlyBehindOrphan'
  BY <1>1, <1>2 DEF PipeInv, LostOnlyBehindOrphan, Published, Pending, InDlq
<1> QED
  BY <1>3, <1>4, <1>6, <1>7, <1>8 DEF PipeInv

\* The in-flight counter only grows below the budget, and only for fresh messages.
LEMMA RethrowPipeInv ==
    ASSUME PipeInv, Rethrow
    PROVE  PipeInv'
<1>0. /\ TypeOK /\ pc = "failed" /\ position \in DOMAIN main /\ position <= Len(main)
      /\ current.attempt \in Nat /\ inflightCount \in Nat /\ InFlight \in Nat
  <2>1. TypeOK /\ pc = "failed"
    BY DEF PipeInv, Rethrow
  <2>2. position \in DOMAIN main
    BY <2>1, BusyFacts
  <2>3. inflightCount \in Nat /\ InFlight \in Nat
    BY <2>1, PipelineAssumption DEF TypeOK
  <2> QED
    BY <2>1, <2>2, <2>3, CurrentFacts
<1>1. /\ pc' = "idle" /\ inflightCount' = inflightCount + 1 /\ current' = current
      /\ inflightCount + current.attempt < InFlight
      /\ UNCHANGED <<main, retry, dlq, position, committed, retried, mirrored, keys, effects, rows,
                     asked, requests, orphans, slips, sendErrors, crashes>>
  BY DEF Rethrow, totalAttempts, topics, admin, faults, current
<1>2. inflightCount' \in 0..InFlight
  BY <1>0, <1>1
<1>3. TypeOK'
  BY <1>0, <1>1, <1>2 DEF TypeOK
<1>4. current.attempt = 0
  <2>1. current.attempt \in {0, InFlight + 1}
    BY <1>0 DEF PipeInv, AttemptsFit, current
  <2> QED
    BY <1>0, <1>1, <2>1
<1>5. CommittedBehind' /\ AttemptsFit' /\ BoundedAttempts'
  BY <1>0, <1>1, <1>4 DEF PipeInv, CommittedBehind, AttemptsFit, BoundedAttempts
<1>6. \A e : ~At(e)'
  BY <1>1 DEF At
<1>7. EffectsPaid' /\ KeyExplained'
  BY <1>0, <1>1, <1>6 DEF PipeInv, EffectsPaid, KeyExplained
<1>8. LostOnlyBehindOrphan'
  BY <1>1 DEF PipeInv, LostOnlyBehindOrphan, Published, Pending, InDlq
<1> QED
  BY <1>3, <1>5, <1>7, <1>8 DEF PipeInv

\* The message that is moved off carries InFlight + 1 attempts into the retry topic,
\* and one more at most into the dead letters.
LEMMA MoveOffFacts ==
    ASSUME PipeInv, pc = "failed", totalAttempts >= InFlight,
           NEW errKind, MoveOff(errKind)
    PROVE  /\ retry' \in Seq(Message) /\ dlq' \in Seq(Message)
           /\ BoundedAttempts'
           /\ Len(retry') \in Nat /\ Len(retry') >= Len(retry)
           /\ \A n \in 1..Len(retry) : retry'[n] = retry[n]
           /\ Len(dlq') \in Nat /\ Len(dlq') >= Len(dlq)
           /\ DOMAIN dlq \subseteq DOMAIN dlq' /\ \A n \in DOMAIN dlq : dlq'[n] = dlq[n]
           /\ \/ \E n \in DOMAIN dlq' : dlq'[n].event = current.event
              \/ \E n \in (retried + 1)..Len(retry') : retry'[n].event = current.event
<1> DEFINE moved == [current EXCEPT !.attempt = totalAttempts + 1]
<1>1. TypeOK /\ position \in DOMAIN main
  BY BusyFacts DEF PipeInv
<1>2. current \in Message /\ current.attempt \in Nat
  BY <1>1, CurrentFacts
<1>3. /\ InFlight \in Nat /\ inflightCount \in 0..InFlight
      /\ retry \in Seq(Message) /\ dlq \in Seq(Message) /\ retried \in 0..Len(retry)
  BY <1>1, PipelineAssumption DEF TypeOK
<1>4. /\ current.attempt \in {0, InFlight + 1}
      /\ current.attempt # 0 => ~(inflightCount > 0)
  BY <1>1 DEF PipeInv, AttemptsFit, current
<1>5. /\ totalAttempts \in Nat
      /\ current.attempt = 0 => totalAttempts = InFlight
      /\ totalAttempts \in InFlight..(InFlight + 1)
  BY <1>2, <1>3, <1>4 DEF totalAttempts
<1>6. /\ moved \in Message /\ moved.attempt = totalAttempts + 1 /\ moved.event = current.event
  BY <1>2, <1>5 DEF Message
<1> HIDE DEF moved
<1>7. /\ Append(retry, moved) \in Seq(Message) /\ Append(dlq, moved) \in Seq(Message)
      /\ Len(retry) \in Nat /\ Len(Append(retry, moved)) = Len(retry) + 1
      /\ DOMAIN retry = 1..Len(retry) /\ DOMAIN Append(retry, moved) = 1..(Len(retry) + 1)
      /\ \A n \in 1..Len(retry) : Append(retry, moved)[n] = retry[n]
      /\ Append(retry, moved)[Len(retry) + 1] = moved
      /\ Len(dlq) \in Nat /\ Len(Append(dlq, moved)) = Len(dlq) + 1
      /\ DOMAIN dlq = 1..Len(dlq) /\ DOMAIN Append(dlq, moved) = 1..(Len(dlq) + 1)
      /\ \A n \in 1..Len(dlq) : Append(dlq, moved)[n] = dlq[n]
      /\ Append(dlq, moved)[Len(dlq) + 1] = moved
  BY <1>3, <1>6, AppendFacts
<1>8. BoundedAttempts
  BY DEF PipeInv
<1>9. CASE retry' = Append(retry, moved) /\ dlq' = dlq /\ current.attempt = 0
  <2>1. BoundedAttempts'
    BY <1>3, <1>5, <1>6, <1>7, <1>8, <1>9 DEF BoundedAttempts
  <2>2. Len(retry') \in (retried + 1)..Len(retry') /\ retry'[Len(retry')].event = current.event
    BY <1>3, <1>6, <1>7, <1>9
  <2> QED
    BY <1>3, <1>7, <1>9, <2>1, <2>2
<1>10. CASE dlq' = Append(dlq, moved) /\ retry' = retry
  <2>1. moved.attempt \in (InFlight + 1)..(InFlight + 2)
    BY <1>3, <1>5, <1>6
  <2>2. BoundedAttempts'
    BY <1>7, <1>8, <1>10, <2>1 DEF BoundedAttempts
  <2>3. Len(dlq') \in DOMAIN dlq' /\ dlq'[Len(dlq')].event = current.event
    BY <1>6, <1>7, <1>10
  <2> QED
    BY <1>3, <1>7, <1>10, <2>2, <2>3
<1> QED
  BY <1>9, <1>10 DEF MoveOff, moved

\* A failed escalation leaves the message where it is.
LEMMA EscalateFailsPipeInv ==
    ASSUME PipeInv, EscalateFails
    PROVE  PipeInv'
<1>0. TypeOK /\ LostOnlyBehindOrphan /\ pc = "failed" /\ totalAttempts >= InFlight
  BY DEF PipeInv, EscalateFails
<1>1. /\ pc' = "idle" /\ inflightCount' = 0 /\ sendErrors' = sendErrors + 1
      /\ UNCHANGED <<main, position, committed, retried, mirrored, keys, effects, rows,
                     asked, requests, orphans, slips, crashes>>
  BY DEF EscalateFails, admin
<1>2. /\ retry' \in Seq(Message) /\ dlq' \in Seq(Message) /\ BoundedAttempts'
      /\ Len(retry') \in Nat /\ Len(retry') >= Len(retry)
      /\ \A n \in 1..Len(retry) : retry'[n] = retry[n]
      /\ Len(dlq') \in Nat /\ Len(dlq') >= Len(dlq)
      /\ DOMAIN dlq \subseteq DOMAIN dlq' /\ \A n \in DOMAIN dlq : dlq'[n] = dlq[n]
  <2>1. CASE UNCHANGED <<retry, dlq>>
    <3>1. retry \in Seq(Message) /\ dlq \in Seq(Message) /\ BoundedAttempts
      BY DEF PipeInv, TypeOK
    <3> QED
      BY <2>1, <3>1 DEF BoundedAttempts
  <2>2. CASE MoveOff("transient")
    BY <1>0, <2>2, MoveOffFacts
  <2>3. CASE MoveOff("permanent")
    BY <1>0, <2>3, MoveOffFacts
  <2> QED
    BY <2>1, <2>2, <2>3 DEF EscalateFails
<1>3. TypeOK'
  <2>1. retried' \in 0..Len(retry') /\ mirrored' \in 0..Len(dlq') /\ inflightCount' \in 0..InFlight
    BY <1>0, <1>1, <1>2, PipelineAssumption DEF TypeOK
  <2> QED
    BY <1>0, <1>1, <1>2, <2>1 DEF TypeOK
<1>4. CommittedBehind' /\ AttemptsFit'
  BY <1>1 DEF PipeInv, CommittedBehind, AttemptsFit
<1>5. \A e : ~At(e)'
  BY <1>1 DEF At
<1>6. EffectsPaid' /\ KeyExplained'
  BY <1>0, <1>1, <1>5 DEF PipeInv, EffectsPaid, KeyExplained
<1>7. LostOnlyBehindOrphan'
  <2>1. position' \in 1..(position + 1) /\ ~(position' > position)
    BY <1>0, <1>1 DEF TypeOK
  <2> QED
    BY <1>0, <1>1, <1>2, <2>1, LossStep
<1> QED
  BY <1>2, <1>3, <1>4, <1>6, <1>7 DEF PipeInv

\* A dedupe hit passes over an event only when its key is explained.
LEMMA HitPipeInv ==
    ASSUME PipeInv, Hit
    PROVE  PipeInv'
<1> DEFINE c == current.event
<1>0. TypeOK /\ LostOnlyBehindOrphan /\ pc = "idle" /\ position \in DOMAIN main /\ c \in keys
  BY DEF PipeInv, Hit
<1>1. /\ position' = position + 1 /\ inflightCount' = 0
      /\ UNCHANGED <<main, retry, dlq, pc, committed, retried, mirrored, keys, effects, rows,
                     asked, requests, orphans, slips, sendErrors, crashes>>
  BY DEF Hit, topics, admin, faults
<1>2. position \in 1..Len(main) /\ position \in Nat /\ Len(main) \in Nat /\ InFlight \in Nat
  BY <1>0, CurrentFacts, PipelineAssumption
<1>3. TypeOK'
  BY <1>0, <1>1, <1>2 DEF TypeOK
<1>4. CommittedBehind' /\ AttemptsFit' /\ BoundedAttempts'
  <2>1. committed \in Nat /\ committed <= position
    BY <1>0 DEF PipeInv, TypeOK, CommittedBehind
  <2> QED
    BY <1>1, <1>2, <2>1 DEF PipeInv, CommittedBehind, AttemptsFit, BoundedAttempts
<1>5. \A e : ~At(e) /\ ~At(e)'
  BY <1>0, <1>1 DEF At
<1>6. EffectsPaid' /\ KeyExplained'
  BY <1>1, <1>5 DEF PipeInv, EffectsPaid, KeyExplained
<1>7. LostOnlyBehindOrphan'
  <2>1. effects[c] > 0 \/ c \in orphans
    BY <1>0, <1>5 DEF PipeInv, KeyExplained
  <2>2. Len(retry) \in Nat
    BY <1>0 DEF TypeOK
  <2> QED
    BY <1>0, <1>1, <1>2, <2>1, <2>2, LossStep
<1> QED
  BY <1>3, <1>4, <1>6, <1>7 DEF PipeInv

\* The side effect succeeds and the offset advances.
LEMMA EffectPipeInv ==
    ASSUME PipeInv, Effect
    PROVE  PipeInv'
<1> DEFINE c == current.event
<1>0. TypeOK /\ LostOnlyBehindOrphan /\ pc \in {"claimed", "open"} /\ position \in DOMAIN main
  BY BusyFacts DEF PipeInv, Effect
<1>1. /\ effects' = [effects EXCEPT ![c] = @ + 1]
      /\ position' = position + 1 /\ inflightCount' = 0 /\ pc' = "idle"
      /\ UNCHANGED <<main, retry, dlq, committed, retried, mirrored, keys, rows, asked, requests,
                     orphans, slips, sendErrors, crashes>>
  BY DEF Effect, topics, admin, faults
<1>2. /\ position \in 1..Len(main) /\ position \in Nat /\ Len(main) \in Nat /\ InFlight \in Nat
      /\ c \in Events
  BY <1>0, CurrentFacts, PipelineAssumption
<1>3. effects \in [Events -> Nat] /\ slips \in Nat
  BY <1>0 DEF TypeOK
<1>4. /\ effects' \in [Events -> Nat]
      /\ \A e \in Events : effects'[e] = effects[e] + (IF e = c THEN 1 ELSE 0)
  BY <1>1, <1>2, <1>3
<1>5. TypeOK'
  <2>1. inflightCount' \in 0..InFlight /\ position' \in 1..(Len(main) + 1)
    BY <1>1, <1>2
  <2> QED
    BY <1>0, <1>1, <1>4, <2>1 DEF TypeOK
<1>6. CommittedBehind' /\ AttemptsFit' /\ BoundedAttempts'
  <2>1. committed \in Nat /\ committed <= position
    BY <1>0 DEF PipeInv, TypeOK, CommittedBehind
  <2> QED
    BY <1>1, <1>2, <2>1 DEF PipeInv, CommittedBehind, AttemptsFit, BoundedAttempts
<1>7. \A e : (At(e) <=> e = c) /\ ~At(e)'
  BY <1>0, <1>1 DEF At
<1>8. EffectsPaid'
  <2> SUFFICES ASSUME NEW e \in Events
               PROVE  effects'[e] <= slips + (IF e \in keys THEN 1 ELSE 0)
    BY <1>1, <1>4, <1>7 DEF EffectsPaid
  <2>1. effects[e] + (IF e = c THEN 1 ELSE 0) <= slips + (IF e \in keys THEN 1 ELSE 0)
    BY <1>0, <1>7 DEF PipeInv, EffectsPaid
  <2> QED
    BY <1>4, <2>1
<1>9. KeyExplained'
  <2> SUFFICES ASSUME NEW e \in keys
               PROVE  effects'[e] > 0 \/ e \in orphans
    BY <1>1, <1>7 DEF KeyExplained
  <2>1. effects[e] > 0 \/ e \in orphans \/ e = c
    BY <1>7 DEF PipeInv, KeyExplained
  <2>2. e \in Events /\ effects[e] \in Nat
    BY <1>0, <1>3 DEF TypeOK
  <2> QED
    BY <1>4, <2>1, <2>2
<1>10. LostOnlyBehindOrphan'
  <2>1. Len(retry) \in Nat
    BY <1>0 DEF TypeOK
  <2>2. effects'[c] > 0 /\ \A e \in Events : effects[e] > 0 => effects'[e] > 0
    BY <1>2, <1>3, <1>4
  <2> QED
    BY <1>0, <1>1, <1>2, <2>1, <2>2, LossStep
<1> QED
  BY <1>5, <1>6, <1>8, <1>9, <1>10 DEF PipeInv

\* An escalated message is in the retry topic or among the dead letters before the
\* offset advances.
LEMMA EscalatePipeInv ==
    ASSUME PipeInv, Escalate
    PROVE  PipeInv'
<1>0. /\ TypeOK /\ LostOnlyBehindOrphan /\ pc = "failed" /\ totalAttempts >= InFlight
      /\ position \in DOMAIN main
  BY BusyFacts DEF PipeInv, Escalate
<1>1. /\ position' = position + 1 /\ inflightCount' = 0 /\ pc' = "idle"
      /\ UNCHANGED <<main, committed, retried, mirrored, keys, effects, rows, asked, requests,
                     orphans, slips, sendErrors, crashes>>
  BY DEF Escalate, admin, faults
<1>2. /\ retry' \in Seq(Message) /\ dlq' \in Seq(Message) /\ BoundedAttempts'
      /\ Len(retry') \in Nat /\ Len(retry') >= Len(retry)
      /\ \A n \in 1..Len(retry) : retry'[n] = retry[n]
      /\ Len(dlq') \in Nat /\ Len(dlq') >= Len(dlq)
      /\ DOMAIN dlq \subseteq DOMAIN dlq' /\ \A n \in DOMAIN dlq : dlq'[n] = dlq[n]
      /\ \/ \E n \in DOMAIN dlq' : dlq'[n].event = current.event
         \/ \E n \in (retried + 1)..Len(retry') : retry'[n].event = current.event
  <2>1. CASE MoveOff("transient")
    BY <1>0, <2>1, MoveOffFacts
  <2>2. CASE MoveOff("permanent")
    BY <1>0, <2>2, MoveOffFacts
  <2> QED
    BY <2>1, <2>2 DEF Escalate
<1>3. position \in 1..Len(main) /\ position \in Nat /\ Len(main) \in Nat /\ InFlight \in Nat
  BY <1>0, CurrentFacts, PipelineAssumption
<1>4. TypeOK'
  <2>0. retried \in 0..Len(retry) /\ mirrored \in 0..Len(dlq) /\ Len(retry) \in Nat /\ Len(dlq) \in Nat
    BY <1>0 DEF TypeOK
  <2>2. Len(retry') \in Nat /\ Len(retry') >= Len(retry) /\ Len(dlq') \in Nat /\ Len(dlq') >= Len(dlq)
    BY <1>2
  <2>3. retried' \in 0..Len(retry')
    BY <2>0, <2>2, <1>1
  <2>4. mirrored' \in 0..Len(dlq')
    BY <2>0, <2>2, <1>1
  <2>5. inflightCount' \in 0..InFlight /\ position' \in 1..(Len(main) + 1)
    BY <1>1, <1>3
  <2>6. retry' \in Seq(Message) /\ dlq' \in Seq(Message)
    BY <1>2
  <2> QED
    BY <1>0, <1>1, <2>3, <2>4, <2>5, <2>6 DEF TypeOK
<1>5. CommittedBehind' /\ AttemptsFit'
  <2>1. committed \in Nat /\ committed <= position
    BY <1>0 DEF PipeInv, TypeOK, CommittedBehind
  <2> QED
    BY <1>1, <1>3, <2>1 DEF PipeInv, CommittedBehind, AttemptsFit
<1>6. \A e : ~At(e)'
  BY <1>1 DEF At
<1>7. EffectsPaid' /\ KeyExplained'
  BY <1>0, <1>1, <1>6 DEF PipeInv, EffectsPaid, KeyExplained
<1>8. LostOnlyBehindOrphan'
  BY <1>0, <1>1, <1>2, <1>3, LossStep
<1> QED
  BY <1>2, <1>4, <1>5, <1>7, <1>8 DEF PipeInv

\* Kafka's offset catches up, or a key expires: the expiry is a slip.
LEMMA BackgroundPipeInv ==
    ASSUME PipeInv, CommitOffset \/ \E e \in Events : Expire(e)
    PROVE  PipeInv'
<1>0. TypeOK
  BY DEF PipeInv
<1>1. CASE CommitOffset
  <2>1. /\ committed' = position
        /\ UNCHANGED <<main, retry, dlq, position, pc, inflightCount, retried, mirrored, keys, effects,
                       rows, asked, requests, orphans, slips, sendErrors, crashes>>
    BY <1>1 DEF CommitOffset, topics, worker, admin, faults
  <2>2. TypeOK'
    BY <1>0, <2>1 DEF TypeOK
  <2>3. CommittedBehind'
    BY <1>0, <2>1 DEF TypeOK, CommittedBehind
  <2> QED
    BY <2>1, <2>2, <2>3 DEF PipeInv, AttemptsFit, BoundedAttempts, EffectsPaid, KeyExplained,
       LostOnlyBehindOrphan, At, current, Published, Pending, InDlq
<1>2. ASSUME NEW k \in Events, Expire(k) PROVE PipeInv'
  <2>1. /\ keys' = keys \ {k} /\ slips' = slips + 1 /\ current' = current
        /\ UNCHANGED <<main, retry, dlq, position, pc, inflightCount, committed, retried, mirrored,
                       effects, rows, asked, requests, orphans, sendErrors, crashes>>
    BY <1>2 DEF Expire, topics, worker, admin, current
  <2>2. TypeOK'
    BY <1>0, <2>1 DEF TypeOK
  <2>3. \A e : At(e)' <=> At(e)
    BY <2>1 DEF At
  <2>4. EffectsPaid'
    <3> SUFFICES ASSUME NEW e \in Events
                 PROVE  effects[e] + (IF At(e) /\ pc \in {"claimed", "open"} THEN 1 ELSE 0)
                          <= slips + 1 + (IF e \in keys' /\ ~(At(e) /\ pc = "release") THEN 1 ELSE 0)
      BY <2>1, <2>3 DEF EffectsPaid
    <3>1. effects[e] \in Nat /\ slips \in Nat
      BY <1>0 DEF TypeOK
    <3>2. effects[e] + (IF At(e) /\ pc \in {"claimed", "open"} THEN 1 ELSE 0)
            <= slips + (IF e \in keys /\ ~(At(e) /\ pc = "release") THEN 1 ELSE 0)
      BY DEF PipeInv, EffectsPaid
    <3> QED
      BY <2>1, <3>1, <3>2
  <2>5. KeyExplained'
    BY <2>1, <2>3 DEF PipeInv, KeyExplained
  <2> QED
    BY <2>1, <2>2, <2>4, <2>5 DEF PipeInv, CommittedBehind, AttemptsFit, BoundedAttempts,
       LostOnlyBehindOrphan, Published, Pending, InDlq
<1> QED
  BY <1>1, <1>2

\* A crash forgets the position and the counter, and orphans the key in hand.
LEMMA CrashPipeInv ==
    ASSUME PipeInv, Crash
    PROVE  PipeInv'
<1>0. TypeOK /\ LostOnlyBehindOrphan
  BY DEF PipeInv
<1>1. /\ position' = committed /\ pc' = "idle" /\ inflightCount' = 0 /\ crashes' = crashes + 1
      /\ orphans' = (IF pc = "idle" THEN orphans ELSE orphans \cup (keys \cap {current.event}))
      /\ UNCHANGED <<main, retry, dlq, committed, retried, mirrored, keys, effects, rows, asked,
                     requests, slips, sendErrors>>
  BY DEF Crash, topics, admin
<1>2. /\ committed \in Nat /\ position \in Nat /\ committed <= position /\ committed \in 1..(Len(main) + 1)
      /\ InFlight \in Nat /\ Len(retry) \in Nat /\ keys \subseteq Events /\ orphans \subseteq Events
  BY PipelineAssumption DEF PipeInv, TypeOK, CommittedBehind
<1>3. TypeOK'
  <2>1. orphans' \subseteq Events /\ inflightCount' \in 0..InFlight
    BY <1>1, <1>2
  <2> QED
    BY <1>0, <1>1, <1>2, <2>1 DEF TypeOK
<1>4. CommittedBehind' /\ AttemptsFit' /\ BoundedAttempts'
  BY <1>1, <1>2 DEF PipeInv, CommittedBehind, AttemptsFit, BoundedAttempts
<1>5. \A e : ~At(e)' /\ (At(e) <=> pc # "idle" /\ current.event = e)
  BY <1>1 DEF At
<1>6. EffectsPaid'
  <2> SUFFICES ASSUME NEW e \in Events
               PROVE  effects[e] <= slips + (IF e \in keys THEN 1 ELSE 0)
    BY <1>1, <1>3, <1>5 DEF EffectsPaid, TypeOK
  <2>1. effects[e] \in Nat /\ slips \in Nat
    BY <1>0 DEF TypeOK
  <2>2. effects[e] + (IF At(e) /\ pc \in {"claimed", "open"} THEN 1 ELSE 0)
          <= slips + (IF e \in keys /\ ~(At(e) /\ pc = "release") THEN 1 ELSE 0)
    BY DEF PipeInv, EffectsPaid
  <2> QED
    BY <2>1, <2>2
<1>7. KeyExplained'
  BY <1>1, <1>5 DEF PipeInv, KeyExplained
<1>8. LostOnlyBehindOrphan'
  <2>1. position' \in 1..(position + 1) /\ ~(position' > position) /\ orphans \subseteq orphans'
    BY <1>1, <1>2
  <2> QED
    BY <1>0, <1>1, <1>2, <2>1, LossStep
<1> QED
  BY <1>3, <1>4, <1>6, <1>7, <1>8 DEF PipeInv

-----------------------------------------------------------------------------
\* Every step of worker, retry-30s, dlq-monitor, operators and faults keeps PipeInv.
LEMMA NextPipeInv == PipeInv /\ [Next]_vars => PipeInv'
<1> SUFFICES ASSUME PipeInv, [Next]_vars PROVE PipeInv'
  OBVIOUS
<1>1. CASE Handler
  BY <1>1, ClaimPipeInv, HitPipeInv, ClaimFailsPipeInv, EffectPipeInv, EffectFailsPipeInv,
     ReleasePipeInv, RethrowPipeInv, EscalatePipeInv, EscalateFailsPipeInv DEF Handler
<1>2. CASE CommitOffset \/ \E e \in Events : Expire(e)
  BY <1>2, BackgroundPipeInv
<1>3. CASE Crash
  BY <1>3, CrashPipeInv
<1>4. CASE Republish \/ RepublishAgain \/ \E e \in Events : Publish(e)
  BY <1>4, SendersPipeInv
<1>5. CASE Mirror \/ MirrorAgain \/ MirrorFails
  BY <1>5, RowsPipeInv
<1>6. CASE Operator
  BY <1>6, RowsPipeInv, SendersPipeInv DEF Operator
<1>7. CASE UNCHANGED vars
  <2>1. UNCHANGED <<main, retry, dlq, position, pc, inflightCount, committed, retried, mirrored, keys,
                    effects, rows, asked, requests, orphans, slips, sendErrors, crashes>>
    BY <1>7 DEF vars, topics, worker, admin, faults
  <2> QED
    BY <2>1 DEF PipeInv, TypeOK, CommittedBehind, AttemptsFit, BoundedAttempts, EffectsPaid,
       KeyExplained, LostOnlyBehindOrphan, At, current, Published, Pending, InDlq
<1> QED
  BY <1>1, <1>2, <1>3, <1>4, <1>5, <1>6, <1>7 DEF Next

\* PipeInv holds in every reachable state.
THEOREM PipeInvariance == Spec => []PipeInv
<1> QED
  BY InitPipeInv, NextPipeInv, PTL DEF Spec

\* A side effect is repeated only when Redis was down, an acknowledgement was lost or
\* the key expired (withDedupe), for any number of redeliveries, retries and replays.
THEOREM EffectsOnce == Spec => []EffectOnce
<1>1. PipeInv => EffectOnce
  <2> SUFFICES ASSUME PipeInv, NEW e \in Events PROVE effects[e] <= 1 + slips
    BY DEF EffectOnce
  <2>1. effects[e] \in Nat /\ slips \in Nat
    BY DEF PipeInv, TypeOK
  <2>2. effects[e] + (IF At(e) /\ pc \in {"claimed", "open"} THEN 1 ELSE 0)
          <= slips + (IF e \in keys /\ ~(At(e) /\ pc = "release") THEN 1 ELSE 0)
    BY DEF PipeInv, EffectsPaid
  <2> QED
    BY <2>1, <2>2
<1> QED
  BY <1>1, PipeInvariance, PTL

\* A published event is lost only behind an orphaned dedupe key: withRetryPolicy,
\* retry-30s and the offsets drop nothing.
THEOREM LossOnlyBehindOrphans == Spec => []LostOnlyBehindOrphan
<1>1. PipeInv => LostOnlyBehindOrphan
  BY DEF PipeInv
<1> QED
  BY <1>1, PipeInvariance, PTL

\* A message visits the retry topic at most once, with InFlight + 1 attempts, and is
\* dead after at most InFlight + 2.
THEOREM AttemptsBounded == Spec => []BoundedAttempts
<1>1. PipeInv => BoundedAttempts
  BY DEF PipeInv
<1> QED
  BY <1>1, PipeInvariance, PTL

-----------------------------------------------------------------------------
(* The admin lists.  First the order of a list: ids, oldest or newest first. *)

\* Of natural numbers, one is the smallest.
LEMMA SmallestOf ==
    ASSUME NEW T \in SUBSET Nat, T # {}
    PROVE  \E x \in T : \A y \in T : ~(y < x)
<1>1. PICK x \in T : \A y \in T : <<y, x>> \notin OpToRel(<, Nat)
  BY NatLessThanWellFounded, WFMin
<1>2. ASSUME NEW y \in T PROVE ~(y < x)
  BY <1>1 DEF OpToRel
<1> QED
  BY <1>2

\* Of natural numbers up to n, one is the largest.
LEMMA LargestOf ==
    ASSUME NEW n \in Nat, NEW T \in SUBSET (0..n), T # {}
    PROVE  \E x \in T : \A y \in T : ~(y > x)
<1> DEFINE U == {m \in 0..n : n - m \in T}
<1>1. U # {}
  <2>1. PICK x \in T : TRUE
    OBVIOUS
  <2>2. n - x \in 0..n /\ n - (n - x) = x
    OBVIOUS
  <2> QED
    BY <2>1, <2>2
<1>2. PICK m \in U : \A k \in U : ~(k < m)
  <2>1. U \in SUBSET Nat
    OBVIOUS
  <2> QED
    BY <1>1, <2>1, SmallestOf
<1>3. ASSUME NEW y \in T, y > n - m PROVE FALSE
  <2>1. n - y \in U /\ n - y < m
    BY <1>2, <1>3
  <2> QED
    BY <1>2, <2>1
<1> QED
  BY <1>2, <1>3

\* Either order of a list is a strict total order.
LEMMA BeforeOrder ==
    ASSUME NEW b, NEW i \in Nat, NEW j \in Nat, NEW k \in Nat
    PROVE  /\ ~Before(b, i, i)
           /\ Before(b, i, j) => ~Before(b, j, i)
           /\ Before(b, i, j) /\ Before(b, j, k) => Before(b, i, k)
           /\ Before(b, i, j) \/ i = j \/ Before(b, j, i)
BY DEF Before

\* Some rows have a first one in either order.
LEMMA FirstExists ==
    ASSUME NEW b, NEW n \in Nat, NEW T \in SUBSET (0..n), T # {}
    PROVE  \E x \in T : \A y \in T : ~Before(b, y, x)
<1>1. CASE b
  <2>1. T \in SUBSET Nat
    OBVIOUS
  <2> QED
    BY <1>1, <2>1, SmallestOf DEF Before
<1>2. CASE ~b
  BY <1>2, LargestOf DEF Before
<1> QED
  BY <1>1, <1>2

\* And a last one, which LastOf chooses.
LEMMA LastOfFacts ==
    ASSUME NEW b, NEW n \in Nat, NEW T \in SUBSET (0..n), T # {}
    PROVE  LastOf(T, b) \in T /\ \A y \in T : ~Before(b, LastOf(T, b), y)
<1>1. \E x \in T : \A y \in T : ~Before(b, x, y)
  <2>1. CASE b
    <3>1. PICK x \in T : \A y \in T : ~(y > x)
      BY LargestOf
    <3>2. \A y \in T : ~(x < y)
      BY <3>1
    <3> QED
      BY <2>1, <3>2 DEF Before
  <2>2. CASE ~b
    <3>1. T \in SUBSET Nat
      OBVIOUS
    <3>2. PICK x \in T : \A y \in T : ~(y < x)
      BY <3>1, SmallestOf
    <3>3. \A y \in T : ~(x > y)
      BY <3>2
    <3> QED
      BY <2>2, <3>3 DEF Before
  <2> QED
    BY <2>1, <2>2
<1> QED
  BY <1>1 DEF LastOf

\* The first m rows of a set: with a row come the rows before it, and when they
\* are fewer than m they are all.
LEMMA FirstOfFacts ==
    ASSUME NEW b, NEW n \in Nat, NEW T \in SUBSET (0..n), NEW m \in Nat
    PROVE  /\ FirstOf(m, T, b) \subseteq T
           /\ \A i \in T, j \in FirstOf(m, T, b) : Before(b, i, j) => i \in FirstOf(m, T, b)
           /\ Cardinality(FirstOf(m, T, b)) < m => FirstOf(m, T, b) = T
           /\ m > 0 /\ T # {} => FirstOf(m, T, b) # {}
<1> DEFINE ahead(i) == {j \in T : Before(b, j, i)}
           F == FirstOf(m, T, b)
<1>0. IsFiniteSet(T)
  <2>1. IsFiniteSet(0..n)
    BY FS_Interval
  <2> QED
    BY <2>1, FS_Subset
<1>1. ASSUME NEW i \in T PROVE IsFiniteSet(ahead(i)) /\ Cardinality(ahead(i)) \in Nat
  BY <1>0, FS_Subset, FS_CardinalityType
<1>2. F = {i \in T : Cardinality(ahead(i)) < m}
  BY DEF FirstOf
<1> HIDE DEF F
<1>3. F \subseteq T /\ IsFiniteSet(F) /\ Cardinality(F) \in Nat
  BY <1>0, <1>2, FS_Subset, FS_CardinalityType
<1>4. ASSUME NEW i \in T, NEW j \in F, Before(b, i, j) PROVE i \in F
  <2>1. ahead(i) \subseteq ahead(j)
    <3> SUFFICES ASSUME NEW k \in T, Before(b, k, i) PROVE Before(b, k, j)
      OBVIOUS
    <3>1. i \in Nat /\ j \in Nat /\ k \in Nat
      BY <1>3
    <3> QED
      BY <1>4, <3>1, BeforeOrder
  <2>2. Cardinality(ahead(i)) <= Cardinality(ahead(j))
    BY <1>1, <1>3, <2>1, FS_Subset
  <2>3. Cardinality(ahead(j)) < m /\ Cardinality(ahead(i)) \in Nat /\ Cardinality(ahead(j)) \in Nat
    BY <1>1, <1>2, <1>3
  <2>4. Cardinality(ahead(i)) < m
    BY <2>2, <2>3
  <2> QED
    BY <1>2, <2>4
<1>5. ASSUME F # T PROVE ~(Cardinality(F) < m)
  <2>1. PICK x \in T \ F : \A y \in T \ F : ~Before(b, y, x)
    <3>1. T \ F \in SUBSET (0..n) /\ T \ F # {}
      BY <1>3, <1>5
    <3> QED
      BY <3>1, FirstExists
  <2>2. ahead(x) \subseteq F
    BY <2>1
  <2>3. Cardinality(ahead(x)) <= Cardinality(F)
    BY <1>3, <2>2, FS_Subset
  <2>4. ~(Cardinality(ahead(x)) < m) /\ Cardinality(ahead(x)) \in Nat
    BY <1>1, <1>2, <2>1
  <2> QED
    BY <1>3, <2>3, <2>4
<1>6. ASSUME m > 0, T # {} PROVE F # {}
  <2>1. PICK x \in T : \A y \in T : ~Before(b, y, x)
    BY <1>6, FirstExists
  <2>2. ahead(x) = {}
    BY <2>1
  <2>3. Cardinality(ahead(x)) < m
    BY <1>6, <2>2, FS_EmptySet
  <2> QED
    BY <1>2, <2>1, <2>3
<1> QED
  BY <1>3, <1>4, <1>5, <1>6 DEF F

\* What is read from a cursor on: the rows that match and come after it, but
\* for the first of them when the cursor row does not match.
LEMMA FromCursorFacts ==
    ASSUME NEW b, NEW n \in Nat, NEW match \in SUBSET (1..n), NEW c \in Nat
    PROVE  /\ FromCursor(match, b, c) \subseteq match
           /\ \A i \in FromCursor(match, b, c) : c = 0 \/ Before(b, c, i)
           /\ \A i \in match : c = 0 \/ Before(b, c, i) =>
                \/ i \in FromCursor(match, b, c)
                \/ /\ c # 0 /\ c \notin match
                   /\ \A j \in match : Before(b, c, j) => ~Before(b, j, i)
<1> DEFINE found == {i \in match : c = 0 \/ i = c \/ Before(b, c, i)}
<1>1. FromCursor(match, b, c) = {i \in found : c = 0 \/ \E j \in found : Before(b, j, i)}
  BY DEF FromCursor
<1>2. ASSUME NEW i \in FromCursor(match, b, c), c # 0 PROVE Before(b, c, i)
  <2>1. PICK j \in found : Before(b, j, i)
    BY <1>1, <1>2
  <2>2. i \in found /\ found \subseteq match
    BY <1>1, <1>2
  <2>3. i \in Nat /\ j \in Nat
    BY <2>1, <2>2
  <2>4. j = c \/ Before(b, c, j)
    BY <1>2, <2>1
  <2> QED
    BY <2>1, <2>3, <2>4, BeforeOrder
<1>3. ASSUME NEW i \in match, c = 0 \/ Before(b, c, i), i \notin FromCursor(match, b, c)
      PROVE  c # 0 /\ c \notin match /\ \A j \in match : Before(b, c, j) => ~Before(b, j, i)
  <2>1. i \in found
    BY <1>3
  <2>2. c # 0 /\ \A j \in found : ~Before(b, j, i)
    BY <1>1, <1>3, <2>1
  <2>3. c \notin found
    BY <1>3, <2>2
  <2> QED
    BY <2>2, <2>3
<1> QED
  BY <1>1, <1>2, <1>3

\* What a page a of the rows that match promises about those after cursor c.
PageFacts(a, match, b, remain, c) ==
    /\ a.match = match /\ ItemIds(a) \subseteq match
    /\ \A i \in ItemIds(a) : c = 0 \/ Before(b, c, i)
    /\ a.next # 0 => a.next \in ItemIds(a) /\ \A i \in ItemIds(a) : ~Before(b, a.next, i)
    /\ match \subseteq remain =>
         \A i \in match : (c = 0 \/ Before(b, c, i)) /\ (a.next = 0 \/ ~Before(b, a.next, i)) =>
            \/ i \in ItemIds(a)
            \/ c # 0 /\ c \notin match /\ \A j \in match : Before(b, c, j) => ~Before(b, j, i)

\* A page of Take rows, with one row more read to know whether it is the last.
LEMMA PagedFacts ==
    ASSUME NEW b, NEW match \in SUBSET Ids, NEW remain, NEW c \in Nat,
           Ids = 1..Len(table), Len(table) \in Nat
    PROVE  PageFacts(Paged(match, b, remain, c), match, b, remain, c)
<1> DEFINE n     == Len(table)
           from  == FromCursor(match, b, c)
           read  == FirstOf(Take + 1, from, b)
           kept  == read \cap remain
           items == FirstOf(Take, kept, b)
           next  == IF Cardinality(kept) > Take THEN LastOf(items, b) ELSE 0
           a     == Paged(match, b, remain, c)
<1>0. Take \in Nat /\ Take > 0 /\ Take + 1 \in Nat
  BY AdminListsAssumption
<1>1. a.match = match /\ ItemIds(a) = items /\ a.next = next
  BY DEF Paged, ItemIds
<1> HIDE DEF a
<1>2. /\ from \subseteq match
      /\ \A i \in from : c = 0 \/ Before(b, c, i)
      /\ \A i \in match : c = 0 \/ Before(b, c, i) =>
           \/ i \in from
           \/ c # 0 /\ c \notin match /\ \A j \in match : Before(b, c, j) => ~Before(b, j, i)
  BY FromCursorFacts
<1> HIDE DEF from
<1>3. from \in SUBSET (0..n) /\ n \in Nat
  BY <1>2
<1>4. /\ read \subseteq from
      /\ \A i \in from, j \in read : Before(b, i, j) => i \in read
      /\ Cardinality(read) < Take + 1 => read = from
  BY <1>0, <1>3, FirstOfFacts
<1> HIDE DEF read
<1>5. kept \in SUBSET (0..n) /\ IsFiniteSet(kept) /\ Cardinality(kept) \in Nat
  <2>1. IsFiniteSet(0..n)
    BY <1>3, FS_Interval
  <2>2. kept \in SUBSET (0..n)
    BY <1>3, <1>4
  <2> QED
    BY <2>1, <2>2, FS_Subset, FS_CardinalityType
<1> HIDE DEF kept
<1>6. /\ items \subseteq kept
      /\ \A i \in kept, j \in items : Before(b, i, j) => i \in items
      /\ Cardinality(items) < Take => items = kept
      /\ kept # {} => items # {}
  BY <1>0, <1>3, <1>5, FirstOfFacts
<1>7. Cardinality(kept) <= Take => items = kept
  <2> SUFFICES ASSUME Cardinality(kept) <= Take, items # kept PROVE FALSE
    OBVIOUS
  <2>1. Cardinality(items) <= Cardinality(kept) /\ Cardinality(items) # Cardinality(kept)
    BY <1>5, <1>6, FS_Subset
  <2>2. Cardinality(items) \in Nat
    BY <1>5, <1>6, FS_Subset, FS_CardinalityType
  <2> QED
    BY <1>0, <1>5, <1>6, <2>1, <2>2
<1> HIDE DEF items
<1>8. ASSUME next # 0 PROVE next \in items /\ \A i \in items : ~Before(b, next, i)
  <2>1. Cardinality(kept) > Take /\ next = LastOf(items, b)
    BY <1>8
  <2>2. kept # {}
    BY <1>0, <2>1, FS_EmptySet
  <2>3. items \in SUBSET (0..n) /\ items # {}
    BY <1>5, <1>6, <2>2
  <2> QED
    BY <1>3, <2>1, <2>3, LastOfFacts
<1>9. next = 0 => Cardinality(kept) <= Take
  <2> SUFFICES ASSUME Cardinality(kept) > Take PROVE next # 0
    BY <1>0, <1>5
  <2>1. kept # {}
    BY <1>0, FS_EmptySet
  <2>2. items \in SUBSET (0..n) /\ items # {}
    BY <1>5, <1>6, <2>1
  <2>3. LastOf(items, b) \in items
    BY <1>3, <2>2, LastOfFacts
  <2>4. items \subseteq 1..n
    BY <1>2, <1>4, <1>6 DEF kept
  <2> QED
    BY <2>3, <2>4
<1> HIDE DEF next
<1>10. ASSUME match \subseteq remain, NEW i \in match, c = 0 \/ Before(b, c, i),
              next = 0 \/ ~Before(b, next, i), i \in from
       PROVE  i \in items
  <2>1. kept = read
    BY <1>2, <1>4, <1>10 DEF kept
  <2>2. CASE next = 0
    <3>1. Cardinality(kept) <= Take
      BY <1>9, <2>2
    <3>2. items = kept /\ read = from
      BY <1>0, <1>4, <1>5, <1>7, <2>1, <3>1
    <3> QED
      BY <1>10, <2>1, <3>2
  <2>3. CASE next # 0
    <3>0. items \subseteq 0..n /\ i \in 1..n
      BY <1>5, <1>6
    <3>1. next \in items /\ next \in Nat /\ i \in Nat
      <4>1. next \in items
        BY <1>8, <2>3
      <4>2. next \in 0..n
        BY <3>0, <4>1
      <4> QED
        BY <3>0, <4>1, <4>2
    <3>2. next = i \/ Before(b, i, next)
      BY <1>10, <2>3, <3>1, BeforeOrder
    <3>3. CASE Before(b, i, next)
      BY <1>4, <1>6, <1>10, <2>1, <3>1, <3>3
    <3> QED
      BY <3>1, <3>2, <3>3
  <2> QED
    BY <2>2, <2>3
<1>11. /\ items \subseteq match /\ \A i \in items : c = 0 \/ Before(b, c, i)
  BY <1>2, <1>4, <1>6 DEF kept
<1>12. match \subseteq remain =>
         \A i \in match : (c = 0 \/ Before(b, c, i)) /\ (next = 0 \/ ~Before(b, next, i)) =>
            \/ i \in items
            \/ c # 0 /\ c \notin match /\ \A j \in match : Before(b, c, j) => ~Before(b, j, i)
  BY <1>2, <1>10
<1> QED
  BY <1>1, <1>8, <1>11, <1>12 DEF a, PageFacts

\* Whatever list is read, its answer is one of these pages.
LEMMA PageAnswerOK ==
    ASSUME ListsInv, NEW f, NEW c \in Nat
    PROVE  AnswerOK(f, c, Page(f, c))
<1>1. Ids = 1..Len(table) /\ Len(table) \in Nat
  BY DEF ListsInv, Ids
<1>2. \E match \in SUBSET Ids : \E remain :
         /\ Page(f, c) = Paged(match, OldestFirst(f), remain, c)
         /\ f \notin Split => match \subseteq remain
  <2>1. CASE screen = "outbox"
    <3> DEFINE match == {i \in Ids : OutboxWhere(f, table[i])}
    <3>1. Page(f, c) = Paged(match, f # "processed", Ids, c)
      BY <2>1 DEF Page, OutboxList
    <3>2. OldestFirst(f) = (f # "processed")
      BY <2>1 DEF OldestFirst
    <3>3. match \in SUBSET Ids
      OBVIOUS
    <3> HIDE DEF match
    <3> QED
      BY <3>1, <3>2, <3>3
  <2>2. CASE screen = "dlq"
    <3> DEFINE match == {i \in Ids : DlqWhere(f, table[i])}
               remain == {i \in Ids : f \in Split => (HasDescendant(i) <=> f = "replayed-failed")}
    <3>1. Page(f, c) = Paged(match, FALSE, remain, c)
      BY <2>2 DEF Page, DlqList
    <3>2. OldestFirst(f) = FALSE
      BY <2>2 DEF OldestFirst
    <3>3. match \in SUBSET Ids /\ (f \notin Split => match \subseteq remain)
      OBVIOUS
    <3> HIDE DEF match, remain
    <3> QED
      BY <3>1, <3>2, <3>3
  <2>3. CASE screen = "orders"
    <3> DEFINE match == {i \in Ids : f = "OPEN,PARTIAL" => table[i].state = "pending"}
    <3>1. Page(f, c) = Paged(match, FALSE, Ids, c)
      BY <2>3 DEF Page, OrderList
    <3>2. OldestFirst(f) = FALSE
      BY <2>3 DEF OldestFirst
    <3>3. match \in SUBSET Ids
      OBVIOUS
    <3> HIDE DEF match
    <3> QED
      BY <3>1, <3>2, <3>3
  <2>4. CASE screen \in {"users", "trades", "audit"}
    <3>1. Page(f, c) = Paged(Searched(f), FALSE, Ids, c)
      BY <2>4 DEF Page, UserList, TradeList, AuditList
    <3>2. OldestFirst(f) = FALSE
      BY <2>4 DEF OldestFirst
    <3>3. Searched(f) \in SUBSET Ids
      BY DEF Searched
    <3> QED
      BY <3>1, <3>2, <3>3
  <2> QED
    BY <2>1, <2>2, <2>3, <2>4 DEF ListsInv, Screens
<1>3. PICK match \in SUBSET Ids : \E remain :
         /\ Page(f, c) = Paged(match, OldestFirst(f), remain, c)
         /\ f \notin Split => match \subseteq remain
  BY <1>2
<1>4. PICK remain :
         /\ Page(f, c) = Paged(match, OldestFirst(f), remain, c)
         /\ f \notin Split => match \subseteq remain
  BY <1>3
<1>5. PageFacts(Page(f, c), match, OldestFirst(f), remain, c)
  BY <1>1, <1>4, PagedFacts
<1> QED
  BY <1>4, <1>5 DEF PageFacts, AnswerOK, FirstAfter, After

-----------------------------------------------------------------------------
(* The walk: what pushing, popping and reading again do to it.             *)

Top(stack) == IF stack = <<>> THEN 0 ELSE Last(stack)

\* Reading the list again where the walk stands keeps the walk linked: only the
\* answer of the last cursor is replaced.
LEMMA KeepOK ==
    ASSUME ListsInv, NEW f, NEW stack, NEW kept, WalkOK(f, stack, kept)
    PROVE  WalkOK(f, stack, Keep(kept, <<f, Top(stack)>>, Page(f, Top(stack))))
<1> DEFINE c == Top(stack)
           answer == Page(f, c)
           new == Keep(kept, <<f, c>>, answer)
<1>1. stack \in Seq(Nat \ {0})
  BY DEF WalkOK
<1>2. c \in Nat /\ (stack # <<>> => Len(stack) \in DOMAIN stack /\ c = stack[Len(stack)])
  BY <1>1 DEF Top, Last
<1>3. AnswerOK(f, c, answer)
  BY <1>2, PageAnswerOK
<1>4. /\ DOMAIN new = DOMAIN kept \cup {<<f, c>>} /\ new[<<f, c>>] = answer
      /\ \A key \in DOMAIN kept : key # <<f, c>> => new[key] = kept[key]
  BY DEF Keep
<1> HIDE DEF answer, new
<1>5. ASSUME NEW key \in DOMAIN new
      PROVE  key = <<key[1], key[2]>> /\ key[2] \in Nat /\ AnswerOK(key[1], key[2], new[key])
  <2>1. CASE key = <<f, c>>
    BY <1>2, <1>3, <1>4, <2>1
  <2>2. CASE key # <<f, c>>
    BY <1>4, <1>5, <2>2 DEF WalkOK
  <2> QED
    BY <2>1, <2>2
<1>6. ASSUME NEW k \in DOMAIN stack
      PROVE  LET key == <<f, IF k = 1 THEN 0 ELSE stack[k - 1]>>
             IN  key \in DOMAIN new /\ new[key].next = stack[k]
  <2> DEFINE d == IF k = 1 THEN 0 ELSE stack[k - 1]
  <2>1. stack # <<>> /\ k \in 1..Len(stack) /\ Len(stack) \in Nat /\ c \in Nat \ {0}
    BY <1>1, <1>2
  <2>2. d # c
    <3>1. CASE k = 1
      BY <2>1, <3>1
    <3>2. CASE k # 1
      <4>1. k - 1 \in DOMAIN stack /\ Len(stack) \in DOMAIN stack /\ k - 1 < Len(stack)
        BY <1>1, <2>1, <3>2
      <4>2. Before(OldestFirst(f), stack[k - 1], stack[Len(stack)])
        BY <4>1 DEF WalkOK
      <4>3. stack[k - 1] \in Nat
        BY <1>1, <4>1
      <4>4. stack[k - 1] # stack[Len(stack)]
        BY <4>2, <4>3, BeforeOrder
      <4> QED
        BY <1>2, <2>1, <3>2, <4>4
    <3> QED
      BY <3>1, <3>2
  <2>3. <<f, d>> \in DOMAIN kept /\ kept[<<f, d>>].next = stack[k]
    BY DEF WalkOK
  <2>4. <<f, d>> # <<f, c>>
    BY <2>2
  <2> QED
    BY <1>4, <2>3, <2>4
<1>7. WalkOK(f, stack, new)
  BY <1>1, <1>5, <1>6 DEF WalkOK
<1> QED
  BY <1>7 DEF new, answer

\* The next cursor comes after every cursor of the walk.
LEMMA PushOK ==
    ASSUME ListsInv, NEW f, NEW stack, NEW kept, WalkOK(f, stack, kept),
           <<f, Top(stack)>> \in DOMAIN kept, kept[<<f, Top(stack)>>].next # 0
    PROVE  WalkOK(f, Append(stack, kept[<<f, Top(stack)>>].next), kept)
<1> DEFINE c == Top(stack)
           a == kept[<<f, c>>]
           n == a.next
           m == Len(stack)
           s == Append(stack, n)
<1>1. stack \in Seq(Nat \ {0}) /\ m \in Nat
  BY DEF WalkOK
<1>2. c \in Nat /\ (m = 0 => c = 0) /\ (m > 0 => m \in DOMAIN stack /\ c = stack[m] /\ c # 0)
  BY <1>1 DEF Top, Last
<1>3. AnswerOK(f, c, a)
  <2>1. AnswerOK(<<f, c>>[1], <<f, c>>[2], kept[<<f, c>>])
    BY DEF WalkOK
  <2> QED
    BY <2>1
<1>4. n \in Nat \ {0} /\ (c = 0 \/ Before(OldestFirst(f), c, n))
  <2>1. n \in ItemIds(a) /\ ItemIds(a) \subseteq a.match /\ a.match \subseteq Ids
    BY <1>3 DEF AnswerOK
  <2>2. Ids \subseteq Nat
    BY DEF ListsInv, Ids
  <2> QED
    BY <1>3, <2>1, <2>2 DEF AnswerOK, After
<1>5. <<f, c>> \in DOMAIN kept /\ a.next = n
  OBVIOUS
<1> HIDE DEF c, a, n
<1>6. /\ s \in Seq(Nat \ {0}) /\ DOMAIN s = 1..(m + 1) /\ DOMAIN stack = 1..m
      /\ s[m + 1] = n /\ \A k \in 1..m : s[k] = stack[k] /\ s[k] \in Nat \ {0}
  BY <1>1, <1>4
<1> HIDE DEF s
<1>7. ASSUME NEW j \in DOMAIN s, NEW k \in DOMAIN s, j < k
      PROVE  Before(OldestFirst(f), s[j], s[k])
  <2>1. CASE k \in 1..m
    <3>1. j \in 1..m
      BY <1>6, <1>7, <2>1
    <3> QED
      BY <1>6, <1>7, <2>1, <3>1 DEF WalkOK
  <2>2. CASE k = m + 1
    <3>1. j \in 1..m /\ m > 0
      BY <1>1, <1>6, <1>7, <2>2
    <3>2. Before(OldestFirst(f), c, n)
      BY <1>2, <1>4, <3>1
    <3>3. CASE j = m
      BY <1>2, <1>6, <2>2, <3>1, <3>2, <3>3
    <3>4. CASE j < m
      <4>1. Before(OldestFirst(f), stack[j], stack[m])
        BY <1>2, <1>6, <3>1, <3>4 DEF WalkOK
      <4>2. s[j] = stack[j] /\ stack[j] \in Nat /\ stack[m] = c /\ s[k] = n
        BY <1>2, <1>6, <2>2, <3>1
      <4>3. c \in Nat /\ n \in Nat
        BY <1>2, <1>4
      <4> QED
        BY <3>2, <4>1, <4>2, <4>3, BeforeOrder
    <3> QED
      BY <3>1, <3>3, <3>4
  <2> QED
    BY <1>1, <1>6, <2>1, <2>2
<1>8. ASSUME NEW k \in DOMAIN s
      PROVE  LET key == <<f, IF k = 1 THEN 0 ELSE s[k - 1]>>
             IN  key \in DOMAIN kept /\ kept[key].next = s[k]
  <2>1. CASE k \in 1..m
    <3>1. (IF k = 1 THEN 0 ELSE s[k - 1]) = (IF k = 1 THEN 0 ELSE stack[k - 1])
      BY <1>1, <1>6, <2>1
    <3> QED
      BY <1>6, <2>1, <3>1 DEF WalkOK
  <2>2. CASE k = m + 1
    <3>1. (IF k = 1 THEN 0 ELSE s[k - 1]) = c
      BY <1>1, <1>2, <1>6, <2>2
    <3> QED
      BY <1>5, <1>6, <2>2, <3>1 DEF a
  <2> QED
    BY <1>1, <1>6, <2>1, <2>2
<1>9. WalkOK(f, s, kept)
  BY <1>6, <1>7, <1>8 DEF WalkOK
<1> QED
  BY <1>9 DEF s, n, a, c

\* Going back leaves a shorter walk.
LEMMA PopOK ==
    ASSUME NEW f, NEW stack, NEW kept, WalkOK(f, stack, kept), stack # <<>>
    PROVE  WalkOK(f, Front(stack), kept)
<1> DEFINE m == Len(stack)
           s == Front(stack)
<1>1. stack \in Seq(Nat \ {0}) /\ m \in Nat /\ m > 0 /\ DOMAIN stack = 1..m
  BY DEF WalkOK
<1>2. /\ s \in Seq(Nat \ {0}) /\ DOMAIN s = 1..(m - 1)
      /\ \A k \in 1..(m - 1) : s[k] = stack[k]
  BY <1>1 DEF Front
<1> HIDE DEF s
<1>3. ASSUME NEW j \in DOMAIN s, NEW k \in DOMAIN s, j < k
      PROVE  Before(OldestFirst(f), s[j], s[k])
  <2>1. j \in DOMAIN stack /\ k \in DOMAIN stack /\ s[j] = stack[j] /\ s[k] = stack[k]
    <3>1. j \in 1..(m - 1) /\ k \in 1..(m - 1)
      BY <1>2
    <3>2. s[j] = stack[j] /\ s[k] = stack[k]
      BY <1>2, <3>1
    <3> QED
      BY <1>1, <3>1, <3>2
  <2> QED
    BY <1>3, <2>1 DEF WalkOK
<1>4. ASSUME NEW k \in DOMAIN s
      PROVE  LET key == <<f, IF k = 1 THEN 0 ELSE s[k - 1]>>
             IN  key \in DOMAIN kept /\ kept[key].next = s[k]
  <2>1. (IF k = 1 THEN 0 ELSE s[k - 1]) = (IF k = 1 THEN 0 ELSE stack[k - 1]) /\ k \in DOMAIN stack
    BY <1>1, <1>2
  <2> QED
    BY <1>1, <1>2, <2>1 DEF WalkOK
<1>5. WalkOK(f, s, kept)
  BY <1>2, <1>3, <1>4 DEF WalkOK
<1> QED
  BY <1>5 DEF s

\* A new filter starts a new walk; the answer to the render in between is kept.
LEMMA FilterOK ==
    ASSUME ListsInv, NEW f, NEW stack, NEW kept, WalkOK(f, stack, kept), NEW g
    PROVE  WalkOK(g, <<>>, Keep(kept, <<g, Top(stack)>>, Page(g, Top(stack))))
<1> DEFINE c == Top(stack)
           answer == Page(g, c)
           new == Keep(kept, <<g, c>>, answer)
<1>1. stack \in Seq(Nat \ {0})
  BY DEF WalkOK
<1>2. c \in Nat
  BY <1>1 DEF Top, Last
<1>3. AnswerOK(g, c, answer)
  BY <1>2, PageAnswerOK
<1>4. /\ DOMAIN new = DOMAIN kept \cup {<<g, c>>} /\ new[<<g, c>>] = answer
      /\ \A key \in DOMAIN kept : key # <<g, c>> => new[key] = kept[key]
  BY DEF Keep
<1> HIDE DEF answer, new
<1>5. ASSUME NEW key \in DOMAIN new
      PROVE  key = <<key[1], key[2]>> /\ key[2] \in Nat /\ AnswerOK(key[1], key[2], new[key])
  <2>1. CASE key = <<g, c>>
    BY <1>2, <1>3, <1>4, <2>1
  <2>2. CASE key # <<g, c>>
    BY <1>4, <1>5, <2>2 DEF WalkOK
  <2> QED
    BY <2>1, <2>2
<1>6. WalkOK(g, <<>>, new)
  BY <1>5 DEF WalkOK
<1> QED
  BY <1>6 DEF new, answer

-----------------------------------------------------------------------------
(* The steps of the lists.                                                 *)

\* A walk stays what it is while rows are inserted and change their state.
LEMMA WalkPrimes ==
    ASSUME NEW o, NEW f, NEW stack, NEW kept, WalkOK(f, stack, kept),
           screen' = screen, Ids \subseteq Ids',
           view'[o].filter = f, view'[o].stack = stack, view'[o].kept = kept
    PROVE  WalkOK(view[o].filter, view[o].stack, view[o].kept)'
<1>1. \A g : OldestFirst(g)' = OldestFirst(g)
  BY DEF OldestFirst
<1>2. \A g, c, i : After(g, c, i)' <=> After(g, c, i)
  BY <1>1 DEF After
<1>3. \A g, c, a : AnswerOK(g, c, a) => AnswerOK(g, c, a)'
  BY <1>1, <1>2 DEF AnswerOK, FirstAfter
<1> QED
  BY <1>1, <1>3 DEF WalkOK

\* The rows keep their places and their columns; new ones come at the end.
RowsOK == table \in Seq(Range(table))
          /\ \A i \in Ids : DOMAIN table[i] = {"state", "attempts", "trace", "parent"}

\* The relay's poll writes its batch and nothing else.
LEMMA PollWrites ==
    Poll => UNCHANGED <<screen, table, view, published, done, late>>
  BY Zenon DEF Poll, Others, history

\* Which actions write the table, and what they do to a row.
LEMMA TableStep ==
    ASSUME ListsInv, [ListsNext]_listVars
    PROVE  RowsOK' /\ Ids \subseteq Ids' /\ screen' = screen
<1>0. /\ RowsOK /\ Ids = 1..Len(table) /\ Len(table) \in Nat
      /\ table = [i \in 1..Len(table) |-> table[i]]
  BY DEF ListsInv, RowsOK, Ids
<1>1. ASSUME NEW p, table' = Append(table, NewRow(p)) PROVE RowsOK' /\ Ids \subseteq Ids'
  <2>1. /\ Len(table') = Len(table) + 1 /\ DOMAIN table' = 1..(Len(table) + 1)
        /\ \A i \in 1..Len(table) : table'[i] = table[i]
        /\ table'[Len(table) + 1] = NewRow(p)
        /\ table' = [i \in 1..(Len(table) + 1) |-> table'[i]]
    <3> DEFINE S == Range(table) \cup {NewRow(p)}
    <3>1. table \in Seq(S) /\ NewRow(p) \in S
      <4>1. table \in Seq(Range(table)) /\ Range(table) \subseteq S
        BY <1>0 DEF RowsOK
      <4> HIDE DEF S
      <4>2. table \in Seq(S)
        BY <4>1
      <4> QED
        BY <4>2 DEF S
    <3> HIDE DEF S
    <3>2. table' \in Seq(S) /\ Len(table') = Len(table) + 1
      BY <1>1, <3>1
    <3>3. /\ \A i \in 1..Len(table) : table'[i] = table[i]
          /\ table'[Len(table) + 1] = NewRow(p)
      BY <1>1, <3>1
    <3>4. DOMAIN table' = 1..(Len(table) + 1) /\ table' = [i \in 1..(Len(table) + 1) |-> table'[i]]
      BY <1>0, <3>2
    <3> QED
      BY <3>2, <3>3, <3>4
  <2>2. table' \in Seq(Range(table'))
    BY <1>0, <2>1 DEF Range
  <2>3. DOMAIN NewRow(p) = {"state", "attempts", "trace", "parent"}
    BY DEF NewRow
  <2> QED
    BY <1>0, <2>1, <2>2, <2>3 DEF RowsOK, Ids
<1>2. ASSUME DOMAIN table' = DOMAIN table, table' = [i \in DOMAIN table |-> table'[i]],
             \A i \in Ids : DOMAIN table'[i] = DOMAIN table[i]
      PROVE  RowsOK' /\ Ids \subseteq Ids'
  <2>1. table' \in Seq(Range(table'))
    BY <1>0, <1>2 DEF Range, Ids
  <2> QED
    BY <1>0, <1>2, <2>1 DEF RowsOK, Ids
<1>3. ASSUME table' = table PROVE RowsOK' /\ Ids \subseteq Ids'
  BY <1>0, <1>3 DEF RowsOK, Ids
<1>4. ASSUME NEW h, NEW r, table' = [table EXCEPT ![h] = r],
             h \in Ids => DOMAIN r = DOMAIN table[h]
      PROVE  RowsOK' /\ Ids \subseteq Ids'
  <2>1. DOMAIN table' = DOMAIN table /\ table' = [i \in DOMAIN table |-> table'[i]]
    BY <1>0, <1>4
  <2>2. \A i \in Ids : DOMAIN table'[i] = DOMAIN table[i]
    BY <1>0, <1>4 DEF Ids
  <2> QED
    BY <1>2, <2>1, <2>2
<1>5. ASSUME NEW o \in Operators, Walk(o) PROVE RowsOK' /\ Ids \subseteq Ids' /\ screen' = screen
  BY <1>3, <1>5 DEF Walk, OpenScreen, PushNext, PopPrev, Refetch, SetFilter, Goes
<1>6. ASSUME NEW o \in Operators, Act(o) PROVE RowsOK' /\ Ids \subseteq Ids' /\ screen' = screen
  <2>1. CASE \E kind \in Kinds : Write(o, kind)
    <3>1. PICK kind \in Kinds : Write(o, kind)
      BY <2>1
    <3> DEFINE id == request[o][kind].id
    <3>2. table' = [table EXCEPT ![id] = Written(kind, table[id])] /\ screen' = screen
      BY <3>1 DEF Write
    <3>3. id \in Ids => DOMAIN Written(kind, table[id]) = DOMAIN table[id]
      BY <1>0 DEF RowsOK, Kinds, Written, Retried, Skipped, Replayed, Dismissed
    <3> QED
      BY <1>4, <3>2, <3>3
  <2>2. CASE ~\E kind \in Kinds : Write(o, kind)
    <3>1. table' = table /\ screen' = screen
      BY <1>6, <2>2 DEF Act, OpenDialog, CloseDialog, Confirm, SendReplay, SendReplayFails,
                        Check, Reload, WriteFails
    <3> QED
      BY <1>3, <3>1
  <2> QED
    BY <2>1, <2>2
<1>7. ASSUME World PROVE RowsOK' /\ Ids \subseteq Ids' /\ screen' = screen
  <2>0. screen' = screen
    BY <1>7, PollWrites DEF World, Insert, InsertDescendant, CloseOrder, Mark, SendFails, Others
  <2>1. CASE Insert \/ InsertDescendant
    BY <1>1, <2>0, <2>1 DEF Insert, InsertDescendant
  <2>2. CASE CloseOrder
    <3>1. PICK i \in Ids : table' = [table EXCEPT ![i].state = "closed"]
      BY <2>2 DEF CloseOrder
    <3>2. table' = [table EXCEPT ![i] = [table[i] EXCEPT !.state = "closed"]]
      BY <3>1
    <3> QED
      BY <1>4, <2>0, <3>2
  <2>3. CASE Poll
    BY <1>3, <2>0, <2>3, PollWrites
  <2>4. CASE Mark
    <3> DEFINE h == Head(relay)
    <3>1. table' = [table EXCEPT ![h] = [table[h] EXCEPT !.state = "processed"]]
      BY <2>4 DEF Mark
    <3> QED
      BY <1>4, <2>0, <3>1
  <2>5. CASE SendFails
    <3> DEFINE h == Head(relay)
               r == [[table[h] EXCEPT !.attempts = 1] EXCEPT !.trace = "error"]
    <3>1. table' = [table EXCEPT ![h] = r]
      BY <1>0, <2>5 DEF SendFails
    <3> QED
      BY <1>4, <2>0, <3>1
  <2> QED
    BY <1>7, <2>1, <2>2, <2>3, <2>4, <2>5 DEF World
<1>8. CASE UNCHANGED listVars
  BY <1>3, <1>8 DEF listVars
<1> QED
  BY <1>5, <1>6, <1>7, <1>8 DEF ListsNext

\* Every step keeps every walk: a step of its operator as above, any other
\* because it leaves the view alone.
LEMMA ViewStep ==
    ASSUME ListsInv, [ListsNext]_listVars
    PROVE  /\ view' = [o \in Operators |-> view'[o]]
           /\ \A o \in Operators :
                 /\ DOMAIN view'[o] = {"roles", "filter", "stack", "kept"}
                 /\ WalkOK(view[o].filter, view[o].stack, view[o].kept)'
<1>0. /\ screen' = screen /\ Ids \subseteq Ids' /\ view = [o \in Operators |-> view[o]]
      /\ \A o \in Operators : /\ DOMAIN view[o] = {"roles", "filter", "stack", "kept"}
                              /\ WalkOK(view[o].filter, view[o].stack, view[o].kept)
  BY TableStep DEF ListsInv
<1>1. ASSUME view' = view
      PROVE  /\ view' = [o \in Operators |-> view'[o]]
             /\ \A o \in Operators :
                   /\ DOMAIN view'[o] = {"roles", "filter", "stack", "kept"}
                   /\ WalkOK(view[o].filter, view[o].stack, view[o].kept)'
  BY <1>0, <1>1, WalkPrimes
<1>2. ASSUME NEW o \in Operators, NEW f, NEW stack, NEW kept, WalkOK(f, stack, kept),
             view' = [view EXCEPT ![o].filter = f, ![o].stack = stack, ![o].kept = kept]
      PROVE  /\ view' = [p \in Operators |-> view'[p]]
             /\ \A p \in Operators :
                   /\ DOMAIN view'[p] = {"roles", "filter", "stack", "kept"}
                   /\ WalkOK(view[p].filter, view[p].stack, view[p].kept)'
  <2>1. /\ view' = [p \in Operators |-> view'[p]]
        /\ DOMAIN view'[o] = {"roles", "filter", "stack", "kept"}
        /\ view'[o].filter = f /\ view'[o].stack = stack /\ view'[o].kept = kept
        /\ \A p \in Operators : p # o => view'[p] = view[p]
    BY <1>0, <1>2
  <2>2. WalkOK(view[o].filter, view[o].stack, view[o].kept)'
    BY <1>0, <1>2, <2>1, WalkPrimes
  <2>3. ASSUME NEW p \in Operators, p # o
        PROVE  WalkOK(view[p].filter, view[p].stack, view[p].kept)'
    BY <1>0, <2>1, <2>3, WalkPrimes
  <2> QED
    BY <1>0, <2>1, <2>2, <2>3
<1>3. \A o \in Operators : Cursor(o) = Top(view[o].stack)
  BY DEF Cursor, Top
<1>4. ASSUME NEW o \in Operators, view' = [view EXCEPT ![o] = Reread(o)]
      PROVE  view' = [view EXCEPT ![o].filter = view[o].filter, ![o].stack = view[o].stack,
                                  ![o].kept = Keep(view[o].kept, Key(o), Page(view[o].filter, Cursor(o)))]
  BY <1>0, <1>4 DEF Reread
<1>5. ASSUME NEW o \in Operators
      PROVE  WalkOK(view[o].filter, view[o].stack,
                    Keep(view[o].kept, Key(o), Page(view[o].filter, Cursor(o))))
  BY <1>0, <1>3, KeepOK DEF Key
<1>6. ASSUME NEW o \in Operators, NEW f, NEW stack, NEW held, Goes(o, f, stack, held),
             WalkOK(f, stack, held)
      PROVE  \E kept : WalkOK(f, stack, kept)
                       /\ view' = [view EXCEPT ![o].filter = f, ![o].stack = stack, ![o].kept = kept]
  <2> DEFINE new == Keep(held, <<f, Top(stack)>>, Page(f, Top(stack)))
  <2>1. \E kept \in {new, held} :
           view' = [view EXCEPT ![o].filter = f, ![o].stack = stack, ![o].kept = kept]
    BY <1>6 DEF Goes, Top
  <2>2. WalkOK(f, stack, new)
    BY <1>6, KeepOK
  <2> QED
    BY <1>6, <2>1, <2>2
<1>7. ASSUME NEW o \in Operators, Walk(o)
      PROVE  /\ view' = [p \in Operators |-> view'[p]]
             /\ \A p \in Operators :
                   /\ DOMAIN view'[p] = {"roles", "filter", "stack", "kept"}
                   /\ WalkOK(view[p].filter, view[p].stack, view[p].kept)'
  <2> DEFINE f == view[o].filter
             s == view[o].stack
             k == view[o].kept
  <2>0. WalkOK(f, s, k)
    BY <1>0
  <2>1. CASE OpenScreen(o) \/ Refetch(o)
    BY <1>2, <1>4, <1>5, <2>1 DEF OpenScreen, Refetch
  <2>2. CASE PushNext(o)
    <3>1. /\ <<f, Top(s)>> \in DOMAIN k /\ k[<<f, Top(s)>>].next # 0
          /\ Goes(o, f, Append(s, k[<<f, Top(s)>>].next), k)
      BY <1>3, <2>2 DEF PushNext, Has, Shown, Key
    <3>2. WalkOK(f, Append(s, k[<<f, Top(s)>>].next), k)
      BY <2>0, <3>1, PushOK
    <3> HIDE DEF f, s, k
    <3> QED
      BY <1>2, <1>6, <3>1, <3>2
  <2>3. CASE PopPrev(o)
    <3>1. s # <<>> /\ Goes(o, f, Front(s), k)
      BY <2>3 DEF PopPrev
    <3>2. WalkOK(f, Front(s), k)
      BY <2>0, <3>1, PopOK
    <3> HIDE DEF f, s, k
    <3> QED
      BY <1>2, <1>6, <3>1, <3>2
  <2>4. ASSUME NEW g, SetFilter(o, g)
        PROVE  /\ view' = [p \in Operators |-> view'[p]]
               /\ \A p \in Operators :
                     /\ DOMAIN view'[p] = {"roles", "filter", "stack", "kept"}
                     /\ WalkOK(view[p].filter, view[p].stack, view[p].kept)'
    <3>1. Goes(o, g, <<>>, Rendered(o, g))
      BY <2>4 DEF SetFilter
    <3>2. WalkOK(g, <<>>, Rendered(o, g))
      BY <1>3, <2>0, FilterOK DEF Rendered
    <3> QED
      BY <1>2, <1>6, <3>1, <3>2
  <2> QED
    BY <1>7, <2>1, <2>2, <2>3, <2>4 DEF Walk
<1>8. ASSUME NEW o \in Operators, Act(o), view' # view
      PROVE  view' = [view EXCEPT ![o] = Reread(o)]
  BY <1>8 DEF Act, OpenDialog, CloseDialog, Confirm, SendReplay, SendReplayFails,
              Check, Write, Reload, WriteFails
<1>9. CASE World \/ UNCHANGED listVars
  BY <1>1, <1>9, PollWrites DEF World, Insert, InsertDescendant, CloseOrder, Mark, SendFails, Others, listVars
<1> QED
  BY <1>1, <1>2, <1>4, <1>5, <1>7, <1>8, <1>9 DEF ListsNext

\* Every walk is linked and its cursors advance, whatever happens to the rows.
THEOREM ListsInvariance == ListsSpec => []ListsInv
<1>1. ListsInit => ListsInv
  <2> SUFFICES ASSUME ListsInit PROVE ListsInv
    OBVIOUS
  <2>1. table = <<>> /\ screen \in Screens
    BY DEF ListsInit
  <2>2. table \in Seq(Range(table)) /\ Ids = {}
    BY <2>1 DEF Range, Ids
  <2>3. /\ view = [o \in Operators |-> view[o]]
        /\ \A o \in Operators : /\ DOMAIN view[o] = {"roles", "filter", "stack", "kept"}
                                /\ view[o].stack = <<>> /\ view[o].kept = << >>
    BY DEF ListsInit
  <2>4. \A f : WalkOK(f, <<>>, << >>)
    BY DEF WalkOK
  <2> QED
    BY <2>1, <2>2, <2>3, <2>4 DEF ListsInv
<1>2. ListsInv /\ [ListsNext]_listVars => ListsInv'
  BY TableStep, ViewStep DEF ListsInv, RowsOK
<1> QED
  BY <1>1, <1>2, PTL DEF ListsSpec

-----------------------------------------------------------------------------
(* What a walk shows.                                                      *)

\* A page of the walk, by its place: the answer to its cursor, the cursor that
\* follows, and the order of the cursors.
LEMMA WalkPages ==
    ASSUME ListsInv, NEW o \in Operators, Answered(o)
    PROVE  LET f == view[o].filter
               s == view[o].stack
               C(k) == IF k = 0 THEN 0 ELSE s[k]
               a(k) == view[o].kept[<<f, C(k)>>]
           IN  /\ Len(s) \in Nat
               /\ Cursors(o) = {C(k) : k \in 0..Len(s)}
               /\ Range(s) = {C(k) : k \in 1..Len(s)}
               /\ Shown(o) = a(Len(s))
               /\ \A k \in 0..Len(s) : /\ C(k) \in Nat /\ (k # 0 => C(k) # 0)
                                       /\ <<f, C(k)>> \in DOMAIN view[o].kept
                                       /\ AnswerOK(f, C(k), a(k))
               /\ \A k \in 0..(Len(s) - 1) : a(k).next = C(k + 1)
               /\ \A j, k \in 1..Len(s) : j < k => Before(OldestFirst(f), C(j), C(k))
<1> DEFINE f == view[o].filter
           s == view[o].stack
           kept == view[o].kept
           C(k) == IF k = 0 THEN 0 ELSE s[k]
           a(k) == kept[<<f, C(k)>>]
<1>1. WalkOK(f, s, kept)
  BY DEF ListsInv
<1>2. s \in Seq(Nat \ {0}) /\ Len(s) \in Nat /\ DOMAIN s = 1..Len(s)
  BY <1>1 DEF WalkOK
<1>3. Cursors(o) = {C(k) : k \in 0..Len(s)} /\ Range(s) = {C(k) : k \in 1..Len(s)}
  <2>1. Range(s) = {C(k) : k \in 1..Len(s)}
    BY <1>2 DEF Range
  <2>2. {C(k) : k \in 0..Len(s)} = {0} \cup {C(k) : k \in 1..Len(s)}
    BY <1>2
  <2> QED
    BY <2>1, <2>2 DEF Cursors
<1>4. Cursor(o) = C(Len(s))
  BY <1>2 DEF Cursor, Last
<1>5. Shown(o) = a(Len(s))
  BY <1>4 DEF Shown, Key
<1>6. ASSUME NEW k \in 0..Len(s)
      PROVE  /\ C(k) \in Nat /\ (k # 0 => C(k) # 0) /\ <<f, C(k)>> \in DOMAIN kept
             /\ AnswerOK(f, C(k), a(k))
  <2>1. C(k) \in Nat /\ (k # 0 => C(k) # 0)
    BY <1>2
  <2>2. C(k) \in Cursors(o)
    BY <1>3
  <2>3. <<f, C(k)>> \in DOMAIN kept
    BY <2>2 DEF Answered, Walked
  <2>4. AnswerOK(<<f, C(k)>>[1], <<f, C(k)>>[2], kept[<<f, C(k)>>])
    BY <1>1, <2>3 DEF WalkOK
  <2> QED
    BY <2>1, <2>3, <2>4
<1>7. ASSUME NEW k \in 0..(Len(s) - 1) PROVE a(k).next = C(k + 1)
  <2>1. k + 1 \in DOMAIN s /\ (IF k + 1 = 1 THEN 0 ELSE s[(k + 1) - 1]) = C(k) /\ C(k + 1) = s[k + 1]
    <3> HIDE DEF s
    <3>1. k \in Nat /\ k + 1 \in 1..Len(s) /\ (k + 1) - 1 = k /\ (k + 1 = 1 <=> k = 0)
      BY <1>2
    <3> QED
      BY <1>2, <3>1
  <2>2. kept[<<f, IF k + 1 = 1 THEN 0 ELSE s[(k + 1) - 1]>>].next = s[k + 1]
    BY <1>1, <2>1 DEF WalkOK
  <2> QED
    BY <2>1, <2>2
<1>8. ASSUME NEW j \in 1..Len(s), NEW k \in 1..Len(s), j < k
      PROVE  Before(OldestFirst(f), C(j), C(k))
  <2>1. j \in DOMAIN s /\ k \in DOMAIN s /\ C(j) = s[j] /\ C(k) = s[k]
    BY <1>2
  <2>2. \A x, y \in DOMAIN s : x < y => Before(OldestFirst(f), s[x], s[y])
    BY <1>1 DEF WalkOK
  <2> QED
    BY <1>8, <2>1, <2>2
<1> QED
  BY <1>2, <1>3, <1>5, <1>6, <1>7, <1>8

\* No row is on two pages of a walk: a page ends where the next one starts.
LEMMA PagesDisjoint ==
    ASSUME ListsInv PROVE NoRowTwice
<1> SUFFICES ASSUME NEW o \in Operators, Answered(o),
                    NEW c \in Cursors(o), NEW d \in Cursors(o), c # d,
                    NEW i \in ItemIds(view[o].kept[<<view[o].filter, c>>]),
                    i \in ItemIds(view[o].kept[<<view[o].filter, d>>])
             PROVE  FALSE
  BY DEF NoRowTwice
<1> DEFINE f == view[o].filter
           s == view[o].stack
           m == Len(s)
           C(k) == IF k = 0 THEN 0 ELSE s[k]
           a(k) == view[o].kept[<<f, C(k)>>]
           b == OldestFirst(f)
<1>1. /\ m \in Nat /\ Cursors(o) = {C(k) : k \in 0..m}
      /\ \A k \in 0..m : C(k) \in Nat /\ (k # 0 => C(k) # 0) /\ AnswerOK(f, C(k), a(k))
      /\ \A k \in 0..(m - 1) : a(k).next = C(k + 1)
      /\ \A j, k \in 1..m : j < k => Before(b, C(j), C(k))
  BY WalkPages
<1>2. Ids \subseteq Nat
  BY DEF ListsInv, Ids
<1>3. ASSUME NEW j \in 0..m, NEW k \in 0..m, j < k, i \in ItemIds(a(j)), i \in ItemIds(a(k))
      PROVE  FALSE
  <2> HIDE DEF C, a, b, m
  <2>1. j \in 0..(m - 1) /\ j + 1 \in 1..m /\ k \in 1..m
    BY <1>1, <1>3
  <2>2. a(j).next = C(j + 1) /\ C(j + 1) # 0 /\ C(j + 1) \in Nat /\ C(k) # 0 /\ C(k) \in Nat
    BY <1>1, <2>1
  <2>3. ~Before(b, C(j + 1), i)
    BY <1>1, <1>3, <2>2 DEF AnswerOK, b
  <2>4. Before(b, C(k), i)
    BY <1>1, <1>3, <2>2 DEF AnswerOK, After, b
  <2>5. i \in Nat
    BY <1>1, <1>2, <1>3 DEF AnswerOK
  <2>6. C(j + 1) = C(k) \/ Before(b, C(j + 1), C(k))
    BY <1>1, <1>3, <2>1
  <2> QED
    BY <2>2, <2>3, <2>4, <2>5, <2>6, BeforeOrder
<1>4. PICK j \in 0..m : c = C(j)
  BY <1>1
<1>5. PICK k \in 0..m : d = C(k)
  BY <1>1
<1>6. i \in ItemIds(a(j)) /\ i \in ItemIds(a(k))
  BY <1>4, <1>5
<1>7. j < k \/ k < j
  BY <1>4, <1>5, <1>1
<1> QED
  BY <1>3, <1>6, <1>7

\* A row that every page of a walk to the end could have shown and none did
\* follows a hole directly, and no other such row follows the same hole.
LEMMA MissedRow ==
    ASSUME ListsInv, NEW o \in Operators, Answered(o), Shown(o).next = 0,
           view[o].filter \notin Split,
           NEW i \in Ids,
           \A c \in Cursors(o) :
              /\ i \in view[o].kept[<<view[o].filter, c>>].match
              /\ i \notin ItemIds(view[o].kept[<<view[o].filter, c>>])
    PROVE  \E c \in Range(view[o].stack) :
              /\ c \notin view[o].kept[<<view[o].filter, c>>].match
              /\ FirstAfter(view[o].filter, c, i, view[o].kept[<<view[o].filter, c>>].match)
<1> DEFINE f == view[o].filter
           s == view[o].stack
           m == Len(s)
           C(k) == IF k = 0 THEN 0 ELSE s[k]
           a(k) == view[o].kept[<<f, C(k)>>]
           b == OldestFirst(f)
<1>1. /\ m \in Nat /\ Cursors(o) = {C(k) : k \in 0..m} /\ Range(s) = {C(k) : k \in 1..m}
      /\ a(m).next = 0
      /\ \A k \in 0..m : C(k) \in Nat /\ (k # 0 => C(k) # 0) /\ AnswerOK(f, C(k), a(k))
      /\ \A k \in 0..(m - 1) : a(k).next = C(k + 1)
  BY WalkPages
<1>2. \A k \in 0..m : i \in a(k).match /\ i \notin ItemIds(a(k))
  BY <1>1
<1>3. C(0) = 0
  OBVIOUS
<1> HIDE DEF C, a, b, m
<1>4. PICK k \in 0..m : After(f, C(k), i) /\ \A j \in 0..m : After(f, C(j), i) => ~(j > k)
  <2> DEFINE T == {j \in 0..m : After(f, C(j), i)}
  <2>1. 0 \in T
    BY <1>1, <1>3 DEF After
  <2>2. T \in SUBSET (0..m) /\ T # {}
    BY <2>1
  <2>3. PICK k \in T : \A j \in T : ~(j > k)
    BY <1>1, <2>2, LargestOf
  <2> QED
    BY <2>3
<1>5. a(k).next = 0 \/ ~Before(b, a(k).next, i)
  <2>1. CASE k = m
    BY <1>1, <2>1
  <2>2. CASE k # m
    <3>1. k \in 0..(m - 1) /\ k + 1 \in 0..m /\ k + 1 > k
      BY <1>1, <2>2
    <3>2. a(k).next = C(k + 1) /\ ~After(f, C(k + 1), i)
      BY <1>1, <1>4, <3>1
    <3> QED
      BY <3>2 DEF After, b
  <2> QED
    BY <2>1, <2>2
<1>6. C(k) # 0 /\ C(k) \notin a(k).match /\ FirstAfter(f, C(k), i, a(k).match)
  BY <1>1, <1>2, <1>4, <1>5 DEF AnswerOK, b
<1>7. C(k) \in Range(s)
  BY <1>1, <1>3, <1>6
<1> QED
  BY <1>6, <1>7 DEF a

\* So a walk to the end misses at most one row per hole.
LEMMA MissedAtMostHoles ==
    ASSUME ListsInv PROVE WalkIsComplete
<1> SUFFICES ASSUME NEW o \in Operators, view[o].filter \notin Split, Answered(o), Shown(o).next = 0
             PROVE  LET answers == {view[o].kept[key] : key \in Walked(o)}
                        steady  == {i \in Ids : \A a \in answers : i \in a.match}
                        seen    == UNION {ItemIds(a) : a \in answers}
                        holes   == {c \in Range(view[o].stack) :
                                       c \notin view[o].kept[<<view[o].filter, c>>].match}
                    IN  Cardinality(steady \ seen) <= Cardinality(holes)
  BY DEF WalkIsComplete
<1> DEFINE f == view[o].filter
           s == view[o].stack
           match(c) == view[o].kept[<<f, c>>].match
           answers == {view[o].kept[key] : key \in Walked(o)}
           steady  == {i \in Ids : \A a \in answers : i \in a.match}
           seen    == UNION {ItemIds(a) : a \in answers}
           missed  == steady \ seen
           holes   == {c \in Range(s) : c \notin match(c)}
           row(c)  == CHOOSE i \in missed : FirstAfter(f, c, i, match(c))
           used    == {c \in holes : \E i \in missed : FirstAfter(f, c, i, match(c))}
           g       == [c \in used |-> row(c)]
<1>1. ASSUME NEW i \in missed PROVE \E c \in holes : FirstAfter(f, c, i, match(c))
  <2>1. \A c \in Cursors(o) : view[o].kept[<<f, c>>] \in answers
    BY DEF Walked
  <2>2. \A c \in Cursors(o) : /\ i \in view[o].kept[<<f, c>>].match
                              /\ i \notin ItemIds(view[o].kept[<<f, c>>])
    BY <2>1
  <2> QED
    BY <2>2, MissedRow
<1>2. Ids \subseteq Nat
  BY DEF ListsInv, Ids
<1>3. ASSUME NEW c, NEW i \in missed, NEW j \in missed,
             FirstAfter(f, c, i, match(c)), FirstAfter(f, c, j, match(c))
      PROVE  i = j
  <2>1. i \in Nat /\ j \in Nat
    BY <1>2
  <2>2. ~Before(OldestFirst(f), i, j) /\ ~Before(OldestFirst(f), j, i)
    BY <1>3 DEF FirstAfter
  <2> QED
    BY <2>1, <2>2, BeforeOrder
<1>4. IsFiniteSet(Range(s)) /\ IsFiniteSet(holes) /\ IsFiniteSet(used)
      /\ Cardinality(used) <= Cardinality(holes) /\ Cardinality(holes) \in Nat /\ Cardinality(used) \in Nat
  <2>1. s \in Seq(Nat \ {0}) /\ DOMAIN s = 1..Len(s) /\ Len(s) \in Nat
    BY DEF ListsInv, WalkOK
  <2>2. IsFiniteSet(DOMAIN s)
    BY <2>1, FS_Interval
  <2>3. s \in Surjection(DOMAIN s, Range(s))
    BY <2>1 DEF Surjection, Range
  <2>4. IsFiniteSet(Range(s))
    BY <2>2, <2>3, FS_Surjection
  <2>5. IsFiniteSet(holes) /\ Cardinality(holes) \in Nat
    BY <2>4, FS_Subset, FS_CardinalityType
  <2> HIDE DEF holes
  <2>6. used \in SUBSET holes
    OBVIOUS
  <2> HIDE DEF used
  <2> QED
    BY <2>4, <2>5, <2>6, FS_Subset, FS_CardinalityType
<1> HIDE DEF missed, match
<1>5. \A c \in used : g[c] \in missed /\ FirstAfter(f, c, g[c], match(c))
  OBVIOUS
<1>6. g \in Surjection(used, missed)
  <2>1. g \in [used -> missed]
    BY <1>5
  <2>2. ASSUME NEW i \in missed PROVE \E c \in used : g[c] = i
    <3>1. PICK c \in holes : FirstAfter(f, c, i, match(c))
      BY <1>1
    <3>2. c \in used
      BY <3>1
    <3>3. g[c] = i
      BY <1>3, <1>5, <3>1, <3>2
    <3> QED
      BY <3>2, <3>3
  <2> QED
    BY <2>1, <2>2 DEF Surjection
<1>7. Cardinality(missed) <= Cardinality(used) /\ Cardinality(missed) \in Nat
  <2> HIDE DEF used, g
  <2> QED
    BY <1>4, <1>6, FS_Surjection, FS_CardinalityType
<1>8. Cardinality(missed) <= Cardinality(holes)
  BY <1>4, <1>7
<1> QED
  BY <1>8 DEF missed, match

\* A step keeps the explanation of every row that is processed and was not
\* sent.  What a step does to one row h is enough: the histories only grow.
LEMMA DropStep ==
    ASSUME ListsInv, DropIsExplained, [ListsNext]_listVars
    PROVE  DropIsExplained'
<1> DEFINE Explained(i) ==
              table[i].state = "processed" /\ i \notin published =>
                /\ <<"skip", i>> \in done
                /\ table[i].trace = "SKIPPED" \/ <<"retry", i>> \in done \/ i \in late
<1>0. /\ screen' = screen /\ Ids = 1..Len(table) /\ Len(table) \in Nat
      /\ table = [i \in 1..Len(table) |-> table[i]] /\ table \in Seq(Range(table))
      /\ \A i \in Ids : DOMAIN table[i] = {"state", "attempts", "trace", "parent"}
  BY TableStep DEF ListsInv, Ids
<1> SUFFICES ASSUME screen = "outbox", NEW i \in Ids' PROVE Explained(i)'
  BY <1>0 DEF DropIsExplained
<1>1. i \in Ids => Explained(i)
  BY DEF DropIsExplained
<1>2. ASSUME i \in Ids, table'[i].state = table[i].state, table'[i].trace = table[i].trace,
             published \subseteq published', done \subseteq done', late \subseteq late'
      PROVE  Explained(i)'
  BY <1>1, <1>2
<1>3. ASSUME table' = table, published \subseteq published', done \subseteq done', late \subseteq late'
      PROVE  Explained(i)'
  BY <1>2, <1>3 DEF Ids
<1>4. ASSUME NEW o \in Operators, Walk(o) PROVE Explained(i)'
  BY <1>3, <1>4 DEF Walk, OpenScreen, PushNext, PopPrev, Refetch, SetFilter, Goes, history
<1>5. ASSUME NEW o \in Operators, Act(o) PROVE Explained(i)'
  <2>1. ASSUME NEW kind \in Kinds, Write(o, kind) PROVE Explained(i)'
    <3> DEFINE h == request[o][kind].id
    <3>1. /\ table' = [table EXCEPT ![h] = Written(kind, table[h])]
          /\ done' = done \cup {<<kind, h>>} /\ published' = published /\ late' = late
      BY <2>1 DEF Write
    <3>2. i \in Ids /\ (i # h => table'[i] = table[i]) /\ (i = h => table'[i] = Written(kind, table[i]))
      BY <1>0, <3>1 DEF Ids
    <3>3. CASE i # h
      BY <1>2, <3>1, <3>2, <3>3
    <3>4. CASE i = h /\ kind = "retry"
      <4>1. table'[i].state = table[i].state /\ <<"retry", i>> \in done'
        BY <1>0, <3>1, <3>2, <3>4 DEF Written, Retried
      <4> QED
        BY <1>1, <3>1, <3>2, <4>1
    <3>5. CASE i = h /\ kind = "skip"
      <4>1. table'[i].trace = "SKIPPED" /\ <<"skip", i>> \in done'
        BY <1>0, <3>1, <3>2, <3>5 DEF Written, Skipped
      <4> QED
        BY <4>1
    <3>6. CASE i = h /\ kind \in {"replay", "dismiss"}
      <4>1. table'[i].state # "processed"
        BY <1>0, <3>2, <3>6 DEF Written, Replayed, Dismissed
      <4> QED
        BY <4>1
    <3>7. CASE i = h /\ kind = "cancel"
      <4>1. table'[i] = table[i]
        BY <3>2, <3>7 DEF Written
      <4> QED
        BY <1>2, <3>1, <3>2, <4>1
    <3> QED
      BY <3>3, <3>4, <3>5, <3>6, <3>7 DEF Kinds
  <2>2. CASE ~\E kind \in Kinds : Write(o, kind)
    <3>1. table' = table /\ published \subseteq published' /\ done' = done /\ late' = late
      BY <1>5, <2>2 DEF Act, OpenDialog, CloseDialog, Confirm, SendReplay, SendReplayFails,
                        Check, Reload, WriteFails, history
    <3> QED
      BY <1>3, <3>1
  <2> QED
    BY <2>1, <2>2
<1>6. ASSUME World PROVE Explained(i)'
  <2>1. CASE Insert
    <3>1. /\ Len(table') = Len(table) + 1 /\ DOMAIN table' = 1..(Len(table) + 1)
          /\ \A j \in 1..Len(table) : table'[j] = table[j]
          /\ table'[Len(table) + 1] = NewRow(0)
      <4> DEFINE S == Range(table) \cup {NewRow(0)}
      <4>1. table \in Seq(Range(table)) /\ Range(table) \subseteq S /\ NewRow(0) \in S
        BY <1>0
      <4> HIDE DEF S
      <4>2. table \in Seq(S)
        BY <4>1
      <4>3. table' = Append(table, NewRow(0))
        BY <2>1 DEF Insert
      <4>4. table' \in Seq(S) /\ Len(table') = Len(table) + 1
        BY <4>1, <4>2, <4>3
      <4> QED
        BY <4>1, <4>2, <4>3, <4>4
    <3>2. published' = published /\ done' = done /\ late' = late
      BY <2>1 DEF Insert, history
    <3>3. CASE i \in Ids
      BY <1>0, <1>2, <3>1, <3>2, <3>3
    <3>4. CASE i \notin Ids
      <4>1. table'[i].state = "pending"
        BY <1>0, <3>1, <3>4 DEF Ids, NewRow
      <4> QED
        BY <4>1
    <3> QED
      BY <3>3, <3>4
  <2>2. CASE Poll
    BY <1>3, <2>2, PollWrites
  <2>3. CASE Mark
    <3> DEFINE h == Head(relay)
    <3>1. /\ table' = [table EXCEPT ![h].state = "processed"]
          /\ published' = published \cup {h} /\ done' = done /\ late' = late
      BY <2>3 DEF Mark, history
    <3>2. i \in Ids /\ (i # h => table'[i] = table[i])
      BY <1>0, <3>1 DEF Ids
    <3> QED
      BY <1>2, <3>1, <3>2
  <2>4. CASE SendFails
    <3> DEFINE h == Head(relay)
               r == [[table[h] EXCEPT !.attempts = 1] EXCEPT !.trace = "error"]
    <3>1. /\ table' = [table EXCEPT ![h] = r] /\ published' = published /\ done' = done
          /\ late' = IF table[h].state = "processed" THEN late \cup {h} ELSE late
      BY <1>0, <2>4 DEF SendFails
    <3>2. i \in Ids /\ (i # h => table'[i] = table[i]) /\ (i = h => table'[i] = r)
      BY <1>0, <3>1 DEF Ids
    <3>3. CASE i # h
      BY <1>2, <3>1, <3>2, <3>3
    <3>4. CASE i = h
      <4>1. table'[i].state = table[i].state
        BY <1>0, <3>2, <3>4
      <4> QED
        BY <1>1, <3>1, <3>2, <3>4, <4>1
    <3> QED
      BY <3>3, <3>4
  <2> QED
    BY <1>6, <2>1, <2>2, <2>3, <2>4 DEF World, InsertDescendant, CloseOrder
<1>7. CASE UNCHANGED listVars
  BY <1>3, <1>7 DEF listVars
<1> QED
  BY <1>4, <1>5, <1>6, <1>7 DEF ListsNext

-----------------------------------------------------------------------------
(* The properties of the lists.                                            *)

\* No row is on two pages of a walk, for any page size, number of operators
\* and table, and however old the kept answers are (useCursorPagination).
THEOREM NoRowIsListedTwice == ListsSpec => []NoRowTwice
<1>1. ListsInv => NoRowTwice
  BY PagesDisjoint
<1> QED
  BY <1>1, ListsInvariance, PTL

\* A walk to its last page misses no steady row but for one for each hole
\* (the cursor queries of the list endpoints).
THEOREM WalksAreComplete == ListsSpec => []WalkIsComplete
<1>1. ListsInv => WalkIsComplete
  BY MissedAtMostHoles
<1> QED
  BY <1>1, ListsInvariance, PTL

\* An outbox row that leaves the queue unsent was skipped by an operator, and
\* its trace is lost only to a retry or a late failure (AdminOutboxService).
THEOREM DropsAreExplained == ListsSpec => []DropIsExplained
<1>1. ListsInit => DropIsExplained
  BY DEF ListsInit, DropIsExplained, Ids
<1>2. ListsInv /\ DropIsExplained /\ [ListsNext]_listVars => DropIsExplained'
  BY DropStep
<1> QED
  BY <1>1, <1>2, ListsInvariance, PTL DEF ListsSpec
=============================================================================
