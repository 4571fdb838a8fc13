----------------------------- MODULE Idempotency -----------------------------
(***************************************************************************)
(* The Idempotency-Key interceptor of the order endpoints, with the sweep  *)
(* of expired keys.                                                        *)
(*                                                                         *)
(* An attempt is one HTTP request; a client that retries makes another     *)
(* attempt of the same call.  The interceptor looks the key up, runs the   *)
(* handler on a miss, stores the answer and only then responds; each of    *)
(* these awaits is a step, and attempts interleave freely: no lock is held *)
(* from the lookup to the insert.  A stored row is found by user, key,     *)
(* method and ROUTE path, which for a cancel is '/orders/:id' whatever the *)
(* id, and the hash covers the body only.  Users' money is counted in      *)
(* orders they can still pay for.                                          *)
(***************************************************************************)
EXTENDS Integers, Sequences, FiniteSets

CONSTANTS Users,
          Bodies,       \* order forms a client may submit
          Keys,         \* well-formed Idempotency-Keys
          NoKey,        \* the header is absent
          BadKey,       \* the header is not a UUID v4
          Calls,        \* the calls clients make, and make again
          Funds,        \* orders a user can pay for
          SweepBatch,   \* BATCH_SIZE of the sweep
          MaxAttempts,  \* bound: requests ever sent
          MaxFaults,    \* bound: failing queries
          MaxCrashes    \* bound: deaths of the API process

OrderId == 1..MaxAttempts

\* A call: submit one of the bodies, or cancel one of the orders.
Call == [user : Users, key : Keys \cup {NoKey, BadKey}, op : {"POST"}, arg : Bodies]
        \cup [user : Users, key : Keys \cup {NoKey, BadKey}, op : {"DELETE"}, arg : OrderId]

ASSUME IdempotencyAssumption ==
    /\ NoKey \notin Keys /\ BadKey \notin Keys /\ NoKey # BadKey
    /\ Calls \subseteq Call
    /\ Funds \in Nat /\ SweepBatch \in Nat \ {0}
    /\ MaxAttempts \in Nat /\ MaxFaults \in Nat /\ MaxCrashes \in Nat

VARIABLES
    attempt,   \* the requests, in the order they were sent
    orders,    \* Order rows: who, which form, and whether it is still active
    funds,     \* orders each user can still pay for
    kept,      \* IdempotencyKey rows, by scope
    expired,   \* scopes whose row is past expiresAt
    dropped,   \* history: scopes whose row was not stored or was swept
    faults, crashes

vars == <<attempt, orders, funds, kept, expired, dropped, faults, crashes>>
bounds == <<faults, crashes>>

Id == DOMAIN attempt
Ok(order) == [status |-> "ok", order |-> order]
Answer(status) == [status |-> status, order |-> 0]

\* The unique key of IdempotencyKey: the path is the route's pattern.
\* Mutant: the user is left out.
ScopeAnyUser(c) == <<NoKey, c.key, c.op>>
Scope(c) == <<c.user, c.key, c.op>>

\* hashBody: a DELETE carries no body.
Hash(c) == IF c.op = "POST" THEN c.arg ELSE "empty"

Scopes == {Scope(c) : c \in {d \in Calls : d.key \in Keys}}
NoRow == [hash |-> "none", answer |-> Answer("none")]

Init ==
    /\ attempt = <<>>
    /\ orders = <<>>
    /\ funds = [u \in Users |-> Funds]
    /\ kept = [s \in Scopes |-> NoRow]
    /\ expired = {} /\ dropped = {}
    /\ faults = 0 /\ crashes = 0

-----------------------------------------------------------------------------
(* Clients.                                                                *)

\* What the earlier attempts of this call told the client: the attempts with
\* the same key and hash that have been answered 2xx.
Answered(c) ==
    {i \in Id : /\ attempt[i].stage = "done" /\ attempt[i].answer.status = "ok"
                /\ Scope(attempt[i].call) = Scope(c) /\ Hash(attempt[i].call) = Hash(c)}

Send(c) ==
    /\ Len(attempt) < MaxAttempts
    /\ attempt' = Append(attempt, [call |-> c, stage |-> "lookup", answer |-> Answer("none"),
                                   known |-> Answered(c)])
    /\ UNCHANGED <<orders, funds, kept, expired, dropped, bounds>>

-----------------------------------------------------------------------------
(* The interceptor: intercept.                                             *)

Goes(i, stage, answer) ==
    attempt' = [attempt EXCEPT ![i].stage = stage, ![i].answer = answer]

\* Without a key the handler runs unguarded; a row answers or refuses the
\* request whether or not it has expired.
Intercept(i) ==
    LET c == attempt[i].call IN
    /\ attempt[i].stage = "lookup"
    /\ CASE c.key = NoKey  -> Goes(i, "handle", Answer("none"))
         [] c.key = BadKey -> Goes(i, "done", Answer("conflict"))
         [] OTHER ->
              LET row == kept[Scope(c)] IN
              CASE row = NoRow -> Goes(i, "handle", Answer("none"))
                [] row # NoRow /\ row.hash # Hash(c) -> Goes(i, "done", Answer("conflict"))
                [] OTHER -> Goes(i, "done", row.answer)
    /\ UNCHANGED <<orders, funds, kept, expired, dropped, bounds>>

\* After the handler a keyed request goes on to the insert.
\* Mutant: the answer is returned without being stored.
AfterHandlerAtOnce(i, answer) == Goes(i, "done", answer)
AfterHandler(i, answer) ==
    Goes(i, IF attempt[i].call.key = NoKey THEN "done" ELSE "persist", answer)

\* OrderService.submit: reserve, insert the order and its command, all or none.
\* What it throws leaves through the interceptor and is not stored.
HandleSubmit(i) ==
    LET c == attempt[i].call IN
    /\ attempt[i].stage = "handle" /\ c.op = "POST"
    /\ IF funds[c.user] > 0
       THEN /\ orders' = Append(orders, [user |-> c.user, body |-> c.arg, active |-> TRUE])
            /\ funds' = [funds EXCEPT ![c.user] = @ - 1]
            /\ AfterHandler(i, Ok(Len(orders')))
       ELSE Goes(i, "done", Answer("rejected")) /\ UNCHANGED <<orders, funds>>
    /\ UNCHANGED <<kept, expired, dropped, bounds>>

\* OrderService.cancel: the order must be the caller's and active; the command
\* it publishes ends the order later (Settle).
HandleCancel(i) ==
    LET c == attempt[i].call IN
    /\ attempt[i].stage = "handle" /\ c.op = "DELETE"
    /\ IF c.arg \in DOMAIN orders /\ orders[c.arg].user = c.user /\ orders[c.arg].active
       THEN AfterHandler(i, Ok(c.arg))
       ELSE Goes(i, "done", Answer("rejected"))
    /\ UNCHANGED <<orders, funds, kept, expired, dropped, bounds>>

\* persist: the first insert of a scope wins, a later one is swallowed.
Persist(i) ==
    LET s == Scope(attempt[i].call)
        row == [hash |-> Hash(attempt[i].call), answer |-> attempt[i].answer] IN
    /\ attempt[i].stage = "persist"
    /\ kept' = IF kept[s] = NoRow THEN [kept EXCEPT ![s] = row] ELSE kept
    /\ Goes(i, "done", attempt[i].answer)
    /\ UNCHANGED <<orders, funds, expired, dropped, bounds>>

PersistFails(i) ==
    /\ attempt[i].stage = "persist"
    /\ faults < MaxFaults
    /\ faults' = faults + 1
    /\ dropped' = dropped \cup {Scope(attempt[i].call)}
    /\ Goes(i, "done", attempt[i].answer)
    /\ UNCHANGED <<orders, funds, kept, expired, crashes>>

\* The lookup or the handler's transaction fails: a 5xx, nothing is stored.
RequestFails(i) ==
    /\ attempt[i].stage \in {"lookup", "handle"}
    /\ faults < MaxFaults
    /\ faults' = faults + 1
    /\ Goes(i, "done", Answer("error"))
    /\ UNCHANGED <<orders, funds, kept, expired, dropped, crashes>>

\* The process dies: every request under way ends without an answer.
Crash ==
    /\ \E i \in Id : attempt[i].stage # "done"
    /\ crashes < MaxCrashes
    /\ crashes' = crashes + 1
    /\ attempt' = [i \in Id |-> IF attempt[i].stage = "done" THEN attempt[i]
                                ELSE [attempt[i] EXCEPT !.stage = "done", !.answer = Answer("error")]]
    /\ UNCHANGED <<orders, funds, kept, expired, dropped, faults>>

-----------------------------------------------------------------------------
(* Time, the sweep and the matcher.                                        *)

\* 24 hours pass: expiresAt < NOW().
Expire(s) ==
    /\ kept[s] # NoRow
    /\ expired' = expired \cup {s}
    /\ UNCHANGED <<attempt, orders, funds, kept, dropped, bounds>>

\* Mutant: a batch that is not full is left for later.
SweepFullBatches(S) ==
    /\ S \subseteq expired /\ Cardinality(S) = SweepBatch + 1
    /\ kept' = [s \in Scopes |-> IF s \in S THEN NoRow ELSE kept[s]]
    /\ expired' = expired \ S /\ dropped' = dropped \cup S
    /\ UNCHANGED <<attempt, orders, funds, bounds>>

\* sweep: some SweepBatch of the expired rows go, or all if they are fewer.
Sweep(S) ==
    /\ S # {} /\ S \subseteq expired
    /\ Cardinality(S) = SweepBatch \/ (Cardinality(S) < SweepBatch /\ S = expired)
    /\ kept' = [s \in Scopes |-> IF s \in S THEN NoRow ELSE kept[s]]
    /\ expired' = expired \ S /\ dropped' = dropped \cup S
    /\ UNCHANGED <<attempt, orders, funds, bounds>>

\* The matcher ends an order (fills it or applies a cancel).
Settle(o) ==
    /\ o \in DOMAIN orders /\ orders[o].active
    /\ orders' = [orders EXCEPT ![o].active = FALSE]
    /\ UNCHANGED <<attempt, funds, kept, expired, dropped, bounds>>

-----------------------------------------------------------------------------
Serve(i) == Intercept(i) \/ HandleSubmit(i) \/ HandleCancel(i) \/ Persist(i)
Clean == \E S \in SUBSET expired : Sweep(S)

Next ==
    \/ \E c \in Calls : Send(c)
    \/ \E i \in Id : Serve(i) \/ PersistFails(i) \/ RequestFails(i)
    \/ Crash
    \/ \E s \in Scopes : Expire(s)
    \/ Clean
    \/ \E o \in DOMAIN orders : Settle(o)
Spec == Init /\ [][Next]_vars

(* The sweep's timer fires every five minutes.                             *)
FairSpec == Spec /\ WF_vars(Clean)

-----------------------------------------------------------------------------
(* Properties.                                                             *)

\* The interceptor's contract: once the client has a 2xx for a key, a further
\* attempt of the call gets one of the answers given before, word for word,
\* and the handler does not run again: no second order and no second
\* reservation, whatever raced, failed or died in between, as long as the row
\* was stored and has not been swept.
RetryGetsOldAnswer ==
    \A i \in Id :
        LET a == attempt[i] IN
        (a.call.key \in Keys /\ a.known # {} /\ Scope(a.call) \notin dropped)
            => /\ a.stage \in {"lookup", "done"}
               /\ a.answer.status = "ok" => \E j \in a.known : a.answer = attempt[j].answer

\* The interceptor's contract on reused keys, for submissions: a 2xx to a POST
\* is always about an order of that user with that body, never the stored
\* answer to another user's or another form's request.
SubmitAnswersOwnBody ==
    \A i \in Id :
        LET a == attempt[i] IN
        (a.call.op = "POST" /\ a.answer.status = "ok")
            => orders[a.answer.order].user = a.call.user /\ orders[a.answer.order].body = a.call.arg

\* The strengthening of the two.  An answer, given or stored, is about an order
\* of its scope's user and body; a stored row is what some attempt was
\* answered; and as long as the row was neither lost nor swept, whoever was
\* answered left it behind, for the attempts that know of the answer to find.
TypeOK ==
    /\ attempt \in Seq([call : Calls, stage : {"lookup", "handle", "persist", "done"},
                        answer : [status : {"none", "ok", "conflict", "rejected", "error"},
                                  order : Nat],
                        known : SUBSET Nat])
    /\ orders \in Seq([user : Users, body : Bodies, active : BOOLEAN])
    /\ funds \in [Users -> Nat]
    /\ DOMAIN kept = Scopes /\ expired \subseteq Scopes
Source(s, j) ==
    /\ j \in Id /\ attempt[j].stage = "done" /\ attempt[j].answer.status = "ok"
    /\ Scope(attempt[j].call) = s /\ Hash(attempt[j].call) = kept[s].hash
    /\ attempt[j].answer = kept[s].answer
RowHasSource == \A s \in Scopes : kept[s] # NoRow => \E j \in Id : Source(s, j)

AnswerIsLate(i) ==
    /\ attempt[i].stage \in {"lookup", "handle"} => attempt[i].answer = Answer("none")
    /\ attempt[i].stage = "handle" => attempt[i].call.key # BadKey
    /\ attempt[i].stage = "persist" => attempt[i].answer.status = "ok"
                                       /\ attempt[i].call.key \in Keys
AnswerIsOwn(i) ==
    attempt[i].answer.status = "ok" /\ attempt[i].call.op = "POST" =>
        /\ attempt[i].answer.order \in DOMAIN orders
        /\ orders[attempt[i].answer.order].user = attempt[i].call.user
        /\ orders[attempt[i].answer.order].body = attempt[i].call.arg
Protected(i) == attempt[i].call.key \in Keys /\ Scope(attempt[i].call) \notin dropped
AnsweredIsKept(i) ==
    attempt[i].stage = "done" /\ attempt[i].answer.status = "ok" /\ Protected(i)
        => kept[Scope(attempt[i].call)] # NoRow
KnownAreAnswered(i) ==
    \A j \in attempt[i].known :
        j \in Id /\ attempt[j].stage = "done" /\ attempt[j].answer.status = "ok"
RetryIsPrepared(i) ==
    attempt[i].known # {} /\ Protected(i) =>
        /\ kept[Scope(attempt[i].call)] # NoRow
        /\ kept[Scope(attempt[i].call)].hash = Hash(attempt[i].call)
               => \E j \in attempt[i].known : Source(Scope(attempt[i].call), j)
RetryIsAnswered(i) ==
    attempt[i].known # {} /\ Protected(i) =>
        /\ attempt[i].stage \in {"lookup", "done"}
        /\ attempt[i].answer.status = "ok"
               => \E j \in attempt[i].known : attempt[i].answer = attempt[j].answer
InterceptInv ==
    /\ TypeOK /\ RowHasSource
    /\ \A i \in Id : /\ AnswerIsLate(i) /\ AnswerIsOwn(i) /\ AnsweredIsKept(i)
                     /\ KnownAreAnswered(i) /\ RetryIsPrepared(i) /\ RetryIsAnswered(i)

\* A key does not stay taken: every expired row is swept in the end, although
\* a sweep takes a limited number of arbitrary rows.
ExpiredKeysAreFreed == \A s \in Scopes : s \in expired ~> s \notin expired
=============================================================================
