-------------------------- MODULE IdempotencyProofs --------------------------
(***************************************************************************)
(* Proofs about the Idempotency-Key interceptor: both halves of its        *)
(* contract, for any number of users, keys, calls and attempts, and for    *)
(* every interleaving of lookups, handlers, inserts, sweeps and crashes.   *)
(***************************************************************************)
EXTENDS Idempotency, TLAPS

-----------------------------------------------------------------------------
(* Calls and scopes.                                                       *)

\* A call names a user and is a submission of a body or a cancel.
LEMMA CallFacts ==
    ASSUME NEW c \in Calls
    PROVE  /\ c.user \in Users /\ c.key \in Keys \cup {NoKey, BadKey}
           /\ c.op \in {"POST", "DELETE"} /\ (c.op = "POST" => c.arg \in Bodies)
<1>1. c \in Call
  BY IdempotencyAssumption
<1> QED
  BY <1>1 DEF Call

\* The calls with a key that share a scope share user, key and operation.
LEMMA ScopeFacts ==
    ASSUME NEW c \in Calls, c.key \in Keys
    PROVE  /\ Scope(c) \in Scopes
           /\ \A d \in Calls : Scope(d) = Scope(c) =>
                  d.user = c.user /\ d.key = c.key /\ d.op = c.op
<1> QED
  BY DEF Scope, Scopes

\* Two submissions of one scope and one hash are the same form of one user.
LEMMA SameSubmission ==
    ASSUME NEW c \in Calls, NEW d \in Calls, c.key \in Keys, c.op = "POST",
           Scope(d) = Scope(c), Hash(d) = Hash(c)
    PROVE  d.op = "POST" /\ d.user = c.user /\ d.arg = c.arg
<1> QED
  BY ScopeFacts DEF Hash

\* What the type invariant says of one attempt.
LEMMA AttemptFacts ==
    ASSUME TypeOK, NEW i \in Id
    PROVE  /\ attempt[i] \in [call : Calls, stage : {"lookup", "handle", "persist", "done"},
                              answer : [status : {"none", "ok", "conflict", "rejected", "error"},
                                        order : Nat],
                              known : SUBSET Nat]
           /\ attempt[i].call \in Calls
<1> DEFINE R == [call : Calls, stage : {"lookup", "handle", "persist", "done"},
                 answer : [status : {"none", "ok", "conflict", "rejected", "error"},
                           order : Nat],
                 known : SUBSET Nat]
<1>1. attempt \in Seq(R) /\ i \in DOMAIN attempt
  BY DEF TypeOK, Id
<1>2. attempt[i] \in R
  <2> HIDE DEF R
  <2> QED BY <1>1
<1> QED
  BY <1>2

-----------------------------------------------------------------------------
(* What no step takes back.                                                *)

\* Attempts stay, and what one was answered in the end stays; orders stay with
\* their user and body; a row is only added, by an attempt that is answered
\* with it, or dropped for the record.
Past ==
    /\ \A j \in Id : /\ j \in Id'
                     /\ attempt'[j].call = attempt[j].call
                     /\ attempt'[j].known = attempt[j].known
                     /\ attempt[j].stage = "done" => attempt'[j] = attempt[j]
    /\ dropped \subseteq dropped'
    /\ \A o \in DOMAIN orders : /\ o \in DOMAIN orders'
                                /\ orders'[o].user = orders[o].user
                                /\ orders'[o].body = orders[o].body
    /\ \A s \in Scopes : \/ kept'[s] = kept[s]
                         \/ kept'[s] = NoRow /\ s \in dropped'
                         \/ kept[s] = NoRow /\ \E j \in Id' : Source(s, j)'

\* The source of a row stays its source.
LEMMA SourceStays ==
    ASSUME Past, NEW s \in Scopes, kept'[s] = kept[s], NEW j, Source(s, j)
    PROVE  Source(s, j)'
<1>1. j \in Id' /\ attempt'[j] = attempt[j]
  BY DEF Past, Source
<1>2. kept'[s].hash = kept[s].hash /\ kept'[s].answer = kept[s].answer
  OBVIOUS
<1> QED
  BY <1>1, <1>2 DEF Source

\* A step that takes nothing back keeps what the rows and the known answers say.
LEMMA PastKeeps ==
    ASSUME InterceptInv, Past
    PROVE  /\ RowHasSource'
           /\ \A i \in Id : KnownAreAnswered(i)' /\ RetryIsPrepared(i)'
<1>1. RowHasSource'
  <2> SUFFICES ASSUME NEW s \in Scopes, kept'[s] # NoRow PROVE \E j \in Id' : Source(s, j)'
    BY DEF RowHasSource
  <2>1. CASE kept'[s] = kept[s]
    <3>1. PICK j \in Id : Source(s, j)
      BY <2>1 DEF InterceptInv, RowHasSource
    <3>2. Source(s, j)' /\ j \in Id'
      BY <2>1, <3>1, SourceStays DEF Past
    <3> QED BY <3>2
  <2> QED BY <2>1 DEF Past
<1>2. ASSUME NEW i \in Id PROVE KnownAreAnswered(i)' /\ RetryIsPrepared(i)'
  <2>1. attempt'[i].call = attempt[i].call /\ attempt'[i].known = attempt[i].known
    BY DEF Past
  <2>2. KnownAreAnswered(i)'
    BY <2>1 DEF InterceptInv, KnownAreAnswered, Past
  <2>3. /\ Scope(attempt[i].call)' = Scope(attempt[i].call)
        /\ Hash(attempt[i].call)' = Hash(attempt[i].call)
    BY <2>1 DEF Scope, Hash
  <2>4. ASSUME attempt[i].known # {}, Protected(i)', NEW s, s = Scope(attempt[i].call)
        PROVE  /\ kept'[s] # NoRow
               /\ kept'[s].hash = Hash(attempt[i].call)
                    => \E j \in attempt[i].known : Source(s, j)'
    <3>1. s \notin dropped' /\ attempt[i].call.key \in Keys
      BY <2>1, <2>3, <2>4 DEF Protected
    <3>2. Protected(i)
      BY <2>4, <3>1 DEF Protected, Past
    <3>3. s \in Scopes
      BY <2>4, <3>1, AttemptFacts, ScopeFacts DEF InterceptInv
    <3>4. /\ kept[s] # NoRow
          /\ kept[s].hash = Hash(attempt[i].call) => \E j \in attempt[i].known : Source(s, j)
      BY <2>4, <3>2 DEF InterceptInv, RetryIsPrepared
    <3>5. kept'[s] = kept[s]
      BY <3>1, <3>3, <3>4 DEF Past
    <3>6. ASSUME kept'[s].hash = Hash(attempt[i].call)
          PROVE  \E j \in attempt[i].known : Source(s, j)'
      <4>1. PICK j \in attempt[i].known : Source(s, j)
        BY <3>4, <3>5, <3>6
      <4>2. Source(s, j)'
        BY <3>3, <3>5, <4>1, SourceStays
      <4> QED BY <4>2
    <3> QED BY <3>4, <3>5, <3>6
  <2>5. RetryIsPrepared(i)'
    BY <2>1, <2>3, <2>4 DEF RetryIsPrepared, Source
  <2> QED BY <2>2, <2>5
<1> QED
  BY <1>1, <1>2

\* An attempt that the step does not touch keeps the rest of the invariant.
LEMMA UntouchedKeeps ==
    ASSUME InterceptInv, Past, NEW i \in Id, attempt'[i] = attempt[i]
    PROVE  AnswerIsLate(i)' /\ AnswerIsOwn(i)' /\ AnsweredIsKept(i)' /\ RetryIsAnswered(i)'
<1>1. AnswerIsLate(i)' /\ AnswerIsOwn(i)'
  BY DEF InterceptInv, AnswerIsLate, AnswerIsOwn, Past
<1>2. Protected(i)' => Protected(i)
  BY DEF Protected, Past
<1>3. ASSUME attempt[i].stage = "done", attempt[i].answer.status = "ok", Protected(i)',
             NEW s, s = Scope(attempt[i].call)
      PROVE  kept'[s] # NoRow
  <2>1. Scope(attempt[i].call)' = s
    BY <1>3 DEF Scope
  <2>2. s \in Scopes /\ s \notin dropped'
    BY <1>2, <1>3, <2>1, AttemptFacts, ScopeFacts DEF InterceptInv, Protected
  <2>3. kept[s] # NoRow
    BY <1>2, <1>3, <2>1 DEF InterceptInv, AnsweredIsKept
  <2> QED BY <2>2, <2>3 DEF Past
<1>4. AnsweredIsKept(i)'
  <2>1. Scope(attempt[i].call)' = Scope(attempt[i].call)
    BY DEF Scope
  <2> QED BY <1>3, <2>1 DEF AnsweredIsKept
<1>5. \A j \in attempt[i].known : attempt'[j] = attempt[j]
  BY DEF InterceptInv, KnownAreAnswered, Past
<1>6. RetryIsAnswered(i)'
  BY <1>2, <1>5 DEF InterceptInv, RetryIsAnswered
<1> QED
  BY <1>1, <1>4, <1>6

\* A step that advances one attempt and takes nothing back keeps the invariant
\* when the attempt's new stage and answer do.
LEMMA AdvanceKeeps ==
    ASSUME InterceptInv, Past, TypeOK', NEW i \in Id, Id' = Id,
           \A j \in Id : j # i => attempt'[j] = attempt[j],
           AnswerIsLate(i)', AnswerIsOwn(i)', AnsweredIsKept(i)', RetryIsAnswered(i)'
    PROVE  InterceptInv'
<1>1. RowHasSource' /\ \A j \in Id : KnownAreAnswered(j)' /\ RetryIsPrepared(j)'
  BY PastKeeps
<1>2. ASSUME NEW j \in Id
      PROVE  AnswerIsLate(j)' /\ AnswerIsOwn(j)' /\ AnsweredIsKept(j)' /\ RetryIsAnswered(j)'
  <2>1. CASE j = i
    BY <2>1
  <2>2. CASE j # i
    BY <2>2, UntouchedKeeps
  <2> QED BY <2>1, <2>2
<1> QED
  BY <1>1, <1>2 DEF InterceptInv

\* So does a step that touches no attempt.
LEMMA IdleKeeps ==
    ASSUME InterceptInv, Past, TypeOK', attempt' = attempt
    PROVE  InterceptInv'
<1>1. RowHasSource' /\ \A j \in Id : KnownAreAnswered(j)' /\ RetryIsPrepared(j)'
  BY PastKeeps
<1>2. \A j \in Id : AnswerIsLate(j)' /\ AnswerIsOwn(j)' /\ AnsweredIsKept(j)' /\ RetryIsAnswered(j)'
  BY UntouchedKeeps
<1>3. Id' = Id
  BY DEF Id
<1> QED
  BY <1>1, <1>2, <1>3 DEF InterceptInv

\* Goes changes the stage and the answer of one attempt.
LEMMA GoesFacts ==
    ASSUME TypeOK, NEW i \in Id,
           NEW stage \in {"lookup", "handle", "persist", "done"},
           NEW answer \in [status : {"none", "ok", "conflict", "rejected", "error"}, order : Nat],
           Goes(i, stage, answer)
    PROVE  /\ Id' = Id /\ attempt'[i].stage = stage /\ attempt'[i].answer = answer
           /\ attempt'[i].call = attempt[i].call /\ attempt'[i].known = attempt[i].known
           /\ \A j \in Id : j # i => attempt'[j] = attempt[j]
           /\ attempt' \in Seq([call : Calls, stage : {"lookup", "handle", "persist", "done"},
                        answer : [status : {"none", "ok", "conflict", "rejected", "error"},
                                  order : Nat],
                        known : SUBSET Nat])
<1> DEFINE R == [call : Calls, stage : {"lookup", "handle", "persist", "done"},
                 answer : [status : {"none", "ok", "conflict", "rejected", "error"},
                           order : Nat],
                 known : SUBSET Nat]
<1>1. attempt' = [attempt EXCEPT ![i] = [attempt[i] EXCEPT !.stage = stage, !.answer = answer]]
  <2>1. attempt[i] \in R
    BY AttemptFacts
  <2> QED BY <2>1 DEF Goes, Id, TypeOK
<1>2. [attempt[i] EXCEPT !.stage = stage, !.answer = answer] \in R
  BY AttemptFacts
<1>3. attempt \in Seq(R) /\ i \in DOMAIN attempt
  BY DEF TypeOK, Id
<1>4. attempt' \in Seq(R)
  BY <1>1, <1>2, <1>3
<1>5. attempt[i] \in R
  BY AttemptFacts
<1>6. /\ Id' = Id /\ attempt'[i] = [attempt[i] EXCEPT !.stage = stage, !.answer = answer]
      /\ \A j \in Id : j # i => attempt'[j] = attempt[j]
  BY <1>1, <1>3 DEF Id
<1> QED
  BY <1>4, <1>5, <1>6

-----------------------------------------------------------------------------
(* The steps.                                                              *)

AnswerType == [status : {"none", "ok", "conflict", "rejected", "error"}, order : Nat]

\* An attempt that is answered anything but 2xx says nothing that could be
\* wrong, wherever it stood.
LEMMA NotOkKeeps ==
    ASSUME InterceptInv, NEW i \in Id, attempt[i].stage # "done",
           NEW answer \in AnswerType, answer.status # "ok", Goes(i, "done", answer),
           UNCHANGED <<orders, funds, kept, expired, dropped>>
    PROVE  InterceptInv'
<1>1. /\ Id' = Id /\ attempt'[i].stage = "done" /\ attempt'[i].answer = answer
      /\ attempt'[i].call = attempt[i].call /\ attempt'[i].known = attempt[i].known
      /\ \A j \in Id : j # i => attempt'[j] = attempt[j]
  BY GoesFacts DEF InterceptInv, AnswerType
<1>2. TypeOK'
  BY GoesFacts DEF InterceptInv, TypeOK, AnswerType
<1>3. Past
  BY <1>1 DEF Past
<1>4. AnswerIsLate(i)' /\ AnswerIsOwn(i)' /\ AnsweredIsKept(i)' /\ RetryIsAnswered(i)'
  BY <1>1 DEF AnswerIsLate, AnswerIsOwn, AnsweredIsKept, RetryIsAnswered
<1> QED
  BY <1>1, <1>2, <1>3, <1>4, AdvanceKeeps

\* A lookup passes the request on only when no answer is kept for it, and
\* otherwise answers what is kept for the same body.
LEMMA InterceptKeeps ==
    ASSUME InterceptInv, NEW i \in Id, Intercept(i)
    PROVE  InterceptInv'
<1> DEFINE c == attempt[i].call
           s == Scope(c)
<1>1. /\ attempt[i].stage = "lookup" /\ c \in Calls
      /\ UNCHANGED <<orders, funds, kept, expired, dropped>>
  BY AttemptFacts DEF Intercept, InterceptInv
<1>2. c.key \in Keys \cup {NoKey, BadKey} /\ NoKey \notin Keys /\ BadKey \notin Keys /\ NoKey # BadKey
  BY <1>1, CallFacts, IdempotencyAssumption
<1>3. ASSUME Goes(i, "handle", Answer("none")), c.key # BadKey,
             attempt[i].known # {} => ~Protected(i)
      PROVE  InterceptInv'
  <2>0. Answer("none") \in AnswerType /\ Answer("none").status # "ok"
    BY DEF Answer, AnswerType
  <2>1. /\ Id' = Id /\ attempt'[i].stage = "handle" /\ attempt'[i].answer = Answer("none")
        /\ attempt'[i].call = c /\ attempt'[i].known = attempt[i].known
        /\ \A j \in Id : j # i => attempt'[j] = attempt[j]
    BY <1>3, <2>0, GoesFacts DEF InterceptInv, AnswerType
  <2>2. TypeOK'
    BY <1>1, <1>3, <2>0, GoesFacts DEF InterceptInv, TypeOK, AnswerType
  <2>3. Past
    BY <1>1, <2>1 DEF Past
  <2>4. AnswerIsLate(i)' /\ AnswerIsOwn(i)' /\ AnsweredIsKept(i)'
    BY <1>3, <2>0, <2>1 DEF AnswerIsLate, AnswerIsOwn, AnsweredIsKept, Answer
  <2>5. RetryIsAnswered(i)'
    BY <1>1, <1>3, <2>1 DEF RetryIsAnswered, Protected, Scope
  <2> QED BY <2>1, <2>2, <2>3, <2>4, <2>5, AdvanceKeeps
<1>4. CASE c.key = NoKey
  <2>1. Goes(i, "handle", Answer("none"))
    BY <1>2, <1>4 DEF Intercept
  <2> QED BY <1>2, <1>3, <1>4, <2>1 DEF Protected
<1>5. ASSUME Goes(i, "done", Answer("conflict")) PROVE InterceptInv'
  BY <1>1, <1>5, NotOkKeeps DEF Answer, AnswerType
<1>6. CASE c.key = BadKey
  BY <1>2, <1>5, <1>6 DEF Intercept
<1>7. CASE c.key \in Keys
  <2>1. s \in Scopes
    BY <1>1, <1>7, ScopeFacts
  <2>2. CASE kept[s] = NoRow
    <3>1. Goes(i, "handle", Answer("none"))
      BY <1>2, <1>7, <2>2 DEF Intercept
    <3>2. attempt[i].known # {} => ~Protected(i)
      BY <2>2 DEF InterceptInv, RetryIsPrepared
    <3> QED BY <1>2, <1>3, <1>7, <3>1, <3>2
  <2>3. CASE kept[s] # NoRow /\ kept[s].hash # Hash(c)
    BY <1>2, <1>5, <1>7, <2>3 DEF Intercept
  <2>4. CASE kept[s] # NoRow /\ kept[s].hash = Hash(c)
    <3>1. Goes(i, "done", kept[s].answer)
      BY <1>2, <1>7, <2>4 DEF Intercept
    <3>2. PICK j \in Id : Source(s, j)
      BY <2>1, <2>4 DEF InterceptInv, RowHasSource
    <3>3. /\ kept[s].answer = attempt[j].answer /\ attempt[j].answer.status = "ok"
          /\ attempt[j].call \in Calls /\ attempt[j].answer \in AnswerType
          /\ Scope(attempt[j].call) = s /\ Hash(attempt[j].call) = Hash(c)
      BY <2>4, <3>2, AttemptFacts DEF Source, InterceptInv, AnswerType
    <3>4. /\ Id' = Id /\ attempt'[i].stage = "done" /\ attempt'[i].answer = attempt[j].answer
          /\ attempt'[i].call = c /\ attempt'[i].known = attempt[i].known
          /\ \A l \in Id : l # i => attempt'[l] = attempt[l]
      BY <3>1, <3>3, GoesFacts DEF InterceptInv, AnswerType
    <3>5. TypeOK'
      BY <1>1, <3>1, <3>3, GoesFacts DEF InterceptInv, TypeOK, AnswerType
    <3>6. Past
      BY <1>1, <3>4 DEF Past
    <3>7. AnswerIsLate(i)'
      BY <3>4 DEF AnswerIsLate
    <3>8. AnswerIsOwn(i)'
      <4>1. c.op = "POST" => /\ attempt[j].call.op = "POST" /\ attempt[j].call.user = c.user
                             /\ attempt[j].call.arg = c.arg
        BY <1>1, <1>7, <3>3, SameSubmission
      <4>2. AnswerIsOwn(j)
        BY DEF InterceptInv
      <4> QED BY <1>1, <3>3, <3>4, <4>1, <4>2 DEF AnswerIsOwn
    <3>9. Scope(attempt[i].call)' = s /\ (Protected(i)' => Protected(i))
      BY <1>1, <3>4 DEF Scope, Protected
    <3>10. AnsweredIsKept(i)'
      BY <1>1, <2>4, <3>9 DEF AnsweredIsKept
    <3>11. ASSUME attempt[i].known # {}, Protected(i)
           PROVE  \E l \in attempt[i].known : attempt'[i].answer = attempt'[l].answer
      <4>1. PICK l \in attempt[i].known : Source(s, l)
        BY <2>4, <3>11 DEF InterceptInv, RetryIsPrepared
      <4>2. l \in Id /\ attempt[l].answer = kept[s].answer /\ attempt[l].stage = "done"
        BY <4>1 DEF Source
      <4> QED BY <1>1, <3>3, <3>4, <4>2
    <3>12. RetryIsAnswered(i)'
      BY <3>4, <3>9, <3>11 DEF RetryIsAnswered
    <3> QED BY <3>4, <3>5, <3>6, <3>7, <3>8, <3>10, <3>12, AdvanceKeeps
  <2> QED BY <2>2, <2>3, <2>4
<1> QED
  BY <1>2, <1>4, <1>6, <1>7

\* A handler that succeeds, for a request nobody has an answer for yet.
LEMMA HandledKeeps ==
    ASSUME InterceptInv, NEW i \in Id, attempt[i].stage = "handle",
           NEW order \in Nat, AfterHandler(i, Ok(order)),
           UNCHANGED <<kept, expired, dropped>>,
           orders' \in Seq([user : Users, body : Bodies, active : BOOLEAN]),
           funds' \in [Users -> Nat],
           \A o \in DOMAIN orders : o \in DOMAIN orders' /\ orders'[o] = orders[o],
           attempt[i].call.op = "POST" =>
               /\ order \in DOMAIN orders'
               /\ orders'[order].user = attempt[i].call.user
               /\ orders'[order].body = attempt[i].call.arg
    PROVE  InterceptInv'
<1>1. attempt[i].call.key \in Keys \cup {NoKey} /\ NoKey \notin Keys
  BY AttemptFacts, CallFacts, IdempotencyAssumption DEF InterceptInv, AnswerIsLate
<1>2. Ok(order) \in AnswerType /\ Ok(order).order = order /\ Ok(order).status = "ok"
  BY DEF Ok, AnswerType
<1>3. PICK stage \in {"persist", "done"} :
          /\ Goes(i, stage, Ok(order))
          /\ stage = IF attempt[i].call.key = NoKey THEN "done" ELSE "persist"
  BY DEF AfterHandler
<1>4. /\ Id' = Id /\ attempt'[i].stage = stage /\ attempt'[i].answer = Ok(order)
      /\ attempt'[i].call = attempt[i].call /\ attempt'[i].known = attempt[i].known
      /\ \A j \in Id : j # i => attempt'[j] = attempt[j]
  BY <1>2, <1>3, GoesFacts DEF InterceptInv, AnswerType
<1>5. TypeOK'
  BY <1>2, <1>3, GoesFacts DEF InterceptInv, TypeOK, AnswerType
<1>6. Past
  BY <1>4 DEF Past
<1>7. AnswerIsLate(i)'
  BY <1>1, <1>2, <1>3, <1>4 DEF AnswerIsLate
<1>8. AnswerIsOwn(i)'
  BY <1>2, <1>4 DEF AnswerIsOwn
<1>9. AnsweredIsKept(i)'
  BY <1>1, <1>3, <1>4 DEF AnsweredIsKept, Protected
<1>10. ~(attempt[i].known # {} /\ Protected(i))
  BY DEF InterceptInv, RetryIsAnswered
<1>11. RetryIsAnswered(i)'
  BY <1>4, <1>10 DEF RetryIsAnswered, Protected, Scope
<1> QED
  BY <1>4, <1>5, <1>6, <1>7, <1>8, <1>9, <1>11, AdvanceKeeps

\* The two handlers.
LEMMA HandleKeeps ==
    ASSUME InterceptInv, NEW i \in Id, HandleSubmit(i) \/ HandleCancel(i)
    PROVE  InterceptInv'
<1> DEFINE c == attempt[i].call
<1>1. /\ attempt[i].stage = "handle" /\ c \in Calls /\ UNCHANGED <<kept, expired, dropped>>
      /\ orders \in Seq([user : Users, body : Bodies, active : BOOLEAN])
      /\ funds \in [Users -> Nat] /\ c.user \in Users
      /\ c.op = "POST" => c.arg \in Bodies
  BY AttemptFacts, CallFacts DEF HandleSubmit, HandleCancel, InterceptInv, TypeOK
<1>2. ASSUME Goes(i, "done", Answer("rejected")), UNCHANGED <<orders, funds>> PROVE InterceptInv'
  BY <1>1, <1>2, NotOkKeeps DEF Answer, AnswerType
<1>3. CASE HandleSubmit(i) /\ funds[c.user] > 0
  <2>1. /\ orders' = Append(orders, [user |-> c.user, body |-> c.arg, active |-> TRUE])
        /\ funds' = [funds EXCEPT ![c.user] = @ - 1]
        /\ AfterHandler(i, Ok(Len(orders'))) /\ c.op = "POST"
    BY <1>3 DEF HandleSubmit
  <2>2. PICK order : order = Len(orders')
    OBVIOUS
  <2>3. /\ orders' \in Seq([user : Users, body : Bodies, active : BOOLEAN])
        /\ order \in Nat /\ order \in DOMAIN orders'
        /\ orders'[order] = [user |-> c.user, body |-> c.arg, active |-> TRUE]
        /\ \A o \in DOMAIN orders : o \in DOMAIN orders' /\ orders'[o] = orders[o]
    <3> DEFINE O == [user : Users, body : Bodies, active : BOOLEAN]
               e == [user |-> c.user, body |-> c.arg, active |-> TRUE]
    <3>1. e \in O
      BY <1>1, <2>1
    <3>2. orders \in Seq(O) /\ orders' = Append(orders, e)
      BY <1>1, <2>1
    <3> HIDE DEF O, e
    <3>3. /\ orders' \in Seq(O) /\ order \in Nat /\ order \in DOMAIN orders' /\ orders'[order] = e
          /\ \A o \in DOMAIN orders : o \in DOMAIN orders' /\ orders'[o] = orders[o]
      BY <2>2, <3>1, <3>2
    <3> QED BY <3>3 DEF O, e
  <2>4. funds' \in [Users -> Nat]
    BY <1>1, <1>3, <2>1
  <2>5. AfterHandler(i, Ok(order))
    BY <2>1, <2>2
  <2>6. orders'[order].user = c.user /\ orders'[order].body = c.arg
    BY <2>3
  <2> QED BY <1>1, <2>3, <2>4, <2>5, <2>6, HandledKeeps
<1>4. CASE HandleSubmit(i) /\ ~(funds[c.user] > 0)
  BY <1>2, <1>4 DEF HandleSubmit
<1>5. CASE HandleCancel(i) /\ c.arg \in DOMAIN orders /\ orders[c.arg].user = c.user
                           /\ orders[c.arg].active
  <2>1. AfterHandler(i, Ok(c.arg)) /\ c.op # "POST" /\ UNCHANGED <<orders, funds>>
    BY <1>5 DEF HandleCancel
  <2>2. c.arg \in Nat
    BY <1>1, <1>5
  <2> QED BY <1>1, <2>1, <2>2, HandledKeeps
<1>6. CASE HandleCancel(i) /\ ~(c.arg \in DOMAIN orders /\ orders[c.arg].user = c.user
                                /\ orders[c.arg].active)
  BY <1>2, <1>6 DEF HandleCancel
<1> QED
  BY <1>3, <1>4, <1>5, <1>6

\* The insert: the first one of a scope is its source, a failed one is on record.
LEMMA PersistKeeps ==
    ASSUME InterceptInv, NEW i \in Id, Persist(i) \/ PersistFails(i)
    PROVE  InterceptInv'
<1>1. /\ attempt[i].stage = "persist" /\ Goes(i, "done", attempt[i].answer)
      /\ UNCHANGED <<orders, funds, expired>>
  BY DEF Persist, PersistFails
<1>2. /\ attempt[i].answer \in AnswerType /\ attempt[i].call \in Calls
      /\ attempt[i].answer.status = "ok" /\ attempt[i].call.key \in Keys /\ AnswerIsOwn(i)
  BY <1>1, AttemptFacts DEF InterceptInv, AnswerIsLate, AnswerType
<1>3. /\ Id' = Id /\ attempt'[i].stage = "done" /\ attempt'[i].answer = attempt[i].answer
      /\ attempt'[i].call = attempt[i].call /\ attempt'[i].known = attempt[i].known
      /\ \A j \in Id : j # i => attempt'[j] = attempt[j]
  BY <1>1, <1>2, GoesFacts DEF InterceptInv, AnswerType
<1>4. PICK s : s = Scope(attempt[i].call)
  OBVIOUS
<1>5. s \in Scopes /\ Scope(attempt[i].call)' = s /\ Hash(attempt[i].call)' = Hash(attempt[i].call)
  BY <1>2, <1>3, <1>4, ScopeFacts DEF Scope, Hash
<1>6. PICK row : row = [hash |-> Hash(attempt[i].call), answer |-> attempt[i].answer]
  OBVIOUS
<1>7. row # NoRow /\ DOMAIN kept = Scopes
  BY <1>2, <1>6 DEF NoRow, Answer, InterceptInv, TypeOK
<1>8. /\ dropped \subseteq dropped' /\ DOMAIN kept' = Scopes
      /\ s \in dropped' \/ kept'[s] # NoRow
      /\ \A x \in Scopes : kept'[x] = kept[x] \/ (x = s /\ kept[s] = NoRow /\ kept'[s] = row)
  <2>1. CASE Persist(i)
    <3>1. /\ kept' = IF kept[s] = NoRow THEN [kept EXCEPT ![s] = row] ELSE kept
          /\ dropped' = dropped
      BY <1>4, <1>6, <2>1 DEF Persist
    <3> QED BY <1>5, <1>7, <3>1
  <2>2. CASE PersistFails(i)
    BY <1>4, <1>7, <2>2 DEF PersistFails
  <2> QED BY <2>1, <2>2
<1>9. TypeOK'
  BY <1>1, <1>2, <1>8, GoesFacts DEF InterceptInv, TypeOK, AnswerType
<1>10. kept'[s] = row => Source(s, i)'
  BY <1>2, <1>3, <1>5, <1>6 DEF Source
<1>11. Past
  BY <1>1, <1>3, <1>8, <1>10 DEF Past
<1>12. AnswerIsLate(i)' /\ AnswerIsOwn(i)'
  BY <1>1, <1>2, <1>3 DEF AnswerIsLate, AnswerIsOwn
<1>13. AnsweredIsKept(i)'
  BY <1>5, <1>8 DEF AnsweredIsKept, Protected
<1>14. ~(attempt[i].known # {} /\ Protected(i))
  BY <1>1 DEF InterceptInv, RetryIsAnswered
<1>15. RetryIsAnswered(i)'
  BY <1>3, <1>4, <1>5, <1>8, <1>14 DEF RetryIsAnswered, Protected
<1> QED
  BY <1>3, <1>9, <1>11, <1>12, <1>13, <1>15, AdvanceKeeps

\* The process dies: what was under way ends in an error.
LEMMA CrashKeeps ==
    ASSUME InterceptInv, Crash
    PROVE  InterceptInv'
<1>1. /\ attempt' = [i \in Id |-> IF attempt[i].stage = "done" THEN attempt[i]
                                  ELSE [attempt[i] EXCEPT !.stage = "done", !.answer = Answer("error")]]
      /\ UNCHANGED <<orders, funds, kept, expired, dropped>>
  BY DEF Crash
<1> DEFINE R == [call : Calls, stage : {"lookup", "handle", "persist", "done"},
                 answer : [status : {"none", "ok", "conflict", "rejected", "error"},
                           order : Nat],
                 known : SUBSET Nat]
<1>2. ASSUME NEW i \in Id
      PROVE  /\ attempt'[i] \in R
             /\ attempt'[i].call = attempt[i].call /\ attempt'[i].known = attempt[i].known
             /\ \/ attempt'[i] = attempt[i]
                \/ /\ attempt[i].stage # "done" /\ attempt'[i].stage = "done"
                   /\ attempt'[i].answer = Answer("error")
  BY <1>1, AttemptFacts DEF InterceptInv, Answer
<1>3. Id' = Id /\ Len(attempt) \in Nat /\ Id = 1..Len(attempt)
  <2>1. attempt \in Seq(R)
    BY DEF InterceptInv, TypeOK
  <2> HIDE DEF R
  <2>2. Len(attempt) \in Nat /\ Id = 1..Len(attempt)
    BY <2>1 DEF Id
  <2>3. DOMAIN attempt' = Id
    BY <1>1
  <2> QED BY <2>2, <2>3 DEF Id
<1>4. attempt' \in Seq(R)
  <2>1. attempt' \in [1..Len(attempt) -> R]
    BY <1>1, <1>2, <1>3
  <2> HIDE DEF R
  <2> QED BY <1>3, <2>1
<1>5. TypeOK'
  BY <1>1, <1>4 DEF TypeOK, InterceptInv
<1>6. Past
  BY <1>1, <1>2, <1>3 DEF Past
<1>7. RowHasSource' /\ \A i \in Id : KnownAreAnswered(i)' /\ RetryIsPrepared(i)'
  BY <1>6, PastKeeps
<1>8. ASSUME NEW i \in Id
      PROVE  AnswerIsLate(i)' /\ AnswerIsOwn(i)' /\ AnsweredIsKept(i)' /\ RetryIsAnswered(i)'
  <2>1. CASE attempt'[i] = attempt[i]
    BY <1>6, <2>1, UntouchedKeeps
  <2>2. CASE attempt'[i].stage = "done" /\ attempt'[i].answer = Answer("error")
    BY <2>2 DEF AnswerIsLate, AnswerIsOwn, AnsweredIsKept, RetryIsAnswered, Answer
  <2> QED BY <1>2, <2>1, <2>2
<1> QED
  BY <1>3, <1>5, <1>7, <1>8 DEF InterceptInv

\* A client sends, knowing the answers it has got: the row they left behind is
\* there, unless it is on record as lost.
LEMMA SendKeeps ==
    ASSUME InterceptInv, NEW c \in Calls, Send(c)
    PROVE  InterceptInv'
<1> DEFINE R == [call : Calls, stage : {"lookup", "handle", "persist", "done"},
                 answer : [status : {"none", "ok", "conflict", "rejected", "error"},
                           order : Nat],
                 known : SUBSET Nat]
           e == [call |-> c, stage |-> "lookup", answer |-> Answer("none"), known |-> Answered(c)]
<1>0. PICK n : n = Len(attempt) + 1
  OBVIOUS
<1>1. attempt' = Append(attempt, e) /\ UNCHANGED <<orders, funds, kept, expired, dropped>>
  BY DEF Send
<1>2. Id \subseteq Nat /\ Answered(c) \subseteq Id
  BY DEF Id, InterceptInv, TypeOK, Answered
<1>3. e \in R
  BY <1>2 DEF Answer
<1>4. attempt \in Seq(R)
  BY DEF InterceptInv, TypeOK
<1>5. /\ attempt' \in Seq(R) /\ Id' = Id \cup {n} /\ attempt'[n] = e
      /\ \A i \in Id : attempt'[i] = attempt[i]
  <2> HIDE DEF e, R
  <2> QED BY <1>0, <1>1, <1>3, <1>4 DEF Id
<1>6. TypeOK'
  BY <1>1, <1>5 DEF TypeOK, InterceptInv
<1>7. Past
  BY <1>1, <1>5 DEF Past
<1>8. RowHasSource' /\ \A i \in Id : KnownAreAnswered(i)' /\ RetryIsPrepared(i)'
  BY <1>7, PastKeeps
<1>9. \A i \in Id : AnswerIsLate(i)' /\ AnswerIsOwn(i)' /\ AnsweredIsKept(i)' /\ RetryIsAnswered(i)'
  BY <1>5, <1>7, UntouchedKeeps
<1>10. /\ attempt'[n].stage = "lookup" /\ attempt'[n].answer = Answer("none")
       /\ attempt'[n].call = c /\ attempt'[n].known = Answered(c)
  BY <1>5
<1>11. AnswerIsLate(n)' /\ AnswerIsOwn(n)' /\ AnsweredIsKept(n)' /\ RetryIsAnswered(n)'
  BY <1>10 DEF AnswerIsLate, AnswerIsOwn, AnsweredIsKept, RetryIsAnswered, Answer
<1>12. KnownAreAnswered(n)'
  BY <1>2, <1>5, <1>10 DEF KnownAreAnswered, Answered
<1>13. ASSUME Answered(c) # {}, c.key \in Keys, NEW s, s = Scope(c), s \notin dropped
       PROVE  kept[s] # NoRow /\ (kept[s].hash = Hash(c) => \E j \in Answered(c) : Source(s, j)')
  <2>1. PICK i \in Answered(c) : TRUE
    BY <1>13
  <2>2. /\ i \in Id /\ attempt[i].stage = "done" /\ attempt[i].answer.status = "ok"
        /\ Scope(attempt[i].call) = s /\ attempt[i].call \in Calls
    BY <1>13, <2>1, AttemptFacts DEF Answered, InterceptInv
  <2>3. attempt[i].call.key \in Keys /\ s \in Scopes
    BY <1>13, <2>2, ScopeFacts
  <2>4. kept[s] # NoRow
    BY <1>13, <2>2, <2>3 DEF InterceptInv, AnsweredIsKept, Protected
  <2>5. PICK j \in Id : Source(s, j)
    BY <2>3, <2>4 DEF InterceptInv, RowHasSource
  <2>6. Source(s, j)'
    BY <1>1, <1>7, <2>3, <2>5, SourceStays
  <2>7. kept[s].hash = Hash(c) => j \in Answered(c)
    BY <1>13, <2>5 DEF Source, Answered
  <2> QED BY <2>4, <2>6, <2>7
<1>14. RetryIsPrepared(n)'
  <2>1. Scope(attempt[n].call)' = Scope(c) /\ Hash(attempt[n].call)' = Hash(c)
    BY <1>10 DEF Scope, Hash
  <2>2. Protected(n)' => c.key \in Keys /\ Scope(c) \notin dropped
    BY <1>1, <1>10, <2>1 DEF Protected
  <2>3. PICK s : s = Scope(c)
    OBVIOUS
  <2>4. ASSUME Answered(c) # {}, Protected(n)'
        PROVE  kept'[s] # NoRow /\ (kept'[s].hash = Hash(c) => \E j \in Answered(c) : Source(s, j)')
    BY <1>1, <1>13, <2>2, <2>3, <2>4
  <2> QED BY <1>10, <2>1, <2>3, <2>4 DEF RetryIsPrepared, Source
<1> QED
  BY <1>5, <1>6, <1>8, <1>9, <1>11, <1>12, <1>14 DEF InterceptInv

\* Time, the sweep and the matcher take nothing back that is not on record.
LEMMA BackgroundKeeps ==
    ASSUME InterceptInv,
           \/ \E s \in Scopes : Expire(s)
           \/ Clean
           \/ \E o \in DOMAIN orders : Settle(o)
    PROVE  InterceptInv'
<1>1. CASE \E s \in Scopes : Expire(s)
  <2>1. /\ UNCHANGED <<attempt, orders, funds, kept, dropped>> /\ expired' \subseteq Scopes
    BY <1>1 DEF Expire, InterceptInv, TypeOK
  <2>2. TypeOK' /\ Past
    BY <2>1 DEF InterceptInv, TypeOK, Past, Id
  <2> QED BY <2>1, <2>2, IdleKeeps
<1>2. CASE Clean
  <2>1. PICK S \in SUBSET expired : Sweep(S)
    BY <1>2 DEF Clean
  <2>2. /\ kept' = [s \in Scopes |-> IF s \in S THEN NoRow ELSE kept[s]]
        /\ expired' = expired \ S /\ dropped' = dropped \cup S
        /\ UNCHANGED <<attempt, orders, funds>>
    BY <2>1 DEF Sweep
  <2>3. TypeOK'
    BY <2>2 DEF InterceptInv, TypeOK
  <2>4. Past
    BY <2>2 DEF Past, Id
  <2> QED BY <2>2, <2>3, <2>4, IdleKeeps
<1>3. CASE \E o \in DOMAIN orders : Settle(o)
  <2>1. PICK o \in DOMAIN orders : Settle(o)
    BY <1>3
  <2>2. /\ orders' = [orders EXCEPT ![o].active = FALSE]
        /\ UNCHANGED <<attempt, funds, kept, expired, dropped>>
    BY <2>1 DEF Settle
  <2> DEFINE O == [user : Users, body : Bodies, active : BOOLEAN]
  <2>3. orders \in Seq(O)
    BY DEF InterceptInv, TypeOK
  <2>4. orders[o] \in O
    <3> HIDE DEF O
    <3> QED BY <2>3
  <2>5. [orders[o] EXCEPT !.active = FALSE] \in O
    BY <2>4
  <2>6. orders' \in Seq(O) /\ DOMAIN orders' = DOMAIN orders
    <3> HIDE DEF O
    <3> QED BY <2>2, <2>3, <2>5
  <2>7. \A x \in DOMAIN orders : orders'[x].user = orders[x].user /\ orders'[x].body = orders[x].body
    BY <2>2, <2>4
  <2>8. TypeOK'
    BY <2>2, <2>6 DEF InterceptInv, TypeOK
  <2>9. Past
    BY <2>2, <2>6, <2>7 DEF Past, Id
  <2> QED BY <2>2, <2>8, <2>9, IdleKeeps
<1> QED
  BY <1>1, <1>2, <1>3

\* The invariant is inductive.
LEMMA NextInterceptInv == InterceptInv /\ [Next]_vars => InterceptInv'
<1> SUFFICES ASSUME InterceptInv, [Next]_vars PROVE InterceptInv'
  OBVIOUS
<1>1. ASSUME NEW i \in Id, RequestFails(i) PROVE InterceptInv'
  <2>1. /\ attempt[i].stage # "done" /\ Goes(i, "done", Answer("error"))
        /\ UNCHANGED <<orders, funds, kept, expired, dropped>>
    BY <1>1 DEF RequestFails
  <2>2. Answer("error") \in AnswerType /\ Answer("error").status # "ok"
    BY DEF Answer, AnswerType
  <2> QED BY <2>1, <2>2, NotOkKeeps
<1>2. CASE UNCHANGED vars
  <2>1. UNCHANGED <<attempt, orders, funds, kept, expired, dropped>>
    BY <1>2 DEF vars
  <2>2. TypeOK' /\ Past
    BY <2>1 DEF InterceptInv, TypeOK, Past, Id
  <2> QED BY <2>1, <2>2, IdleKeeps
<1>3. ASSUME NEW i \in Id, Serve(i) \/ PersistFails(i) PROVE InterceptInv'
  BY <1>3, InterceptKeeps, HandleKeeps, PersistKeeps DEF Serve
<1> QED
  BY <1>1, <1>2, <1>3, SendKeeps, CrashKeeps, BackgroundKeeps DEF Next

-----------------------------------------------------------------------------
\* The inductive invariant holds of every behaviour of the interceptor.
THEOREM InterceptInvariance == Spec => []InterceptInv
<1>1. Init => InterceptInv
  BY IdempotencyAssumption
     DEF Init, InterceptInv, TypeOK, RowHasSource, Id, Scopes, NoRow
<1> QED
  BY <1>1, NextInterceptInv, PTL DEF Spec

\* Once the client has a 2xx for a key, a further attempt gets an answer given
\* before and the handler does not run again, whatever raced, failed or died,
\* as long as the row was stored and has not been swept (intercept, persist).
THEOREM NoSecondRun == Spec => []RetryGetsOldAnswer
<1>1. InterceptInv => RetryGetsOldAnswer
  BY DEF InterceptInv, RetryGetsOldAnswer, RetryIsAnswered, Protected
<1> QED
  BY <1>1, InterceptInvariance, PTL

\* A 2xx to a submission is about an order of that user with that body: keys
\* that are reused, by others or for other forms, never answer for it.
THEOREM OwnAnswers == Spec => []SubmitAnswersOwnBody
<1>1. InterceptInv => SubmitAnswersOwnBody
  BY DEF InterceptInv, SubmitAnswersOwnBody, AnswerIsOwn
<1> QED
  BY <1>1, InterceptInvariance, PTL
=============================================================================
