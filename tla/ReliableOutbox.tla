--------------------------- MODULE ReliableOutbox ----------------------------
(***************************************************************************)
(* What the transactional outbox promises the services that write to it:   *)
(* at-least-once publication of committed rows.  A row is published only   *)
(* after its transaction committed, as often as it takes; it is closed     *)
(* because it was published or because an operator gave it up, and a row   *)
(* that was closed by publication is never published again.  Nothing is    *)
(* said of batches, acknowledgements, failures or crashes.                 *)
(***************************************************************************)
EXTENDS Sequences

CONSTANT Row

VARIABLES committed, closed, skipped, published

promise == <<committed, closed, skipped, published>>

IsPublished(i) == \E n \in DOMAIN published : published[n] = i

Init == committed = {} /\ closed = {} /\ skipped = {} /\ published = <<>>

Commit(i) ==
    /\ committed' = committed \cup {i}
    /\ UNCHANGED <<closed, skipped, published>>

Publish(i) ==
    /\ i \in committed
    /\ i \notin closed \/ i \in skipped
    /\ published' = Append(published, i)
    /\ UNCHANGED <<committed, closed, skipped>>

Close(i) ==
    /\ IsPublished(i)
    /\ closed' = closed \cup {i}
    /\ UNCHANGED <<committed, skipped, published>>

Skip(i) ==
    /\ i \in committed
    /\ closed' = closed \cup {i} /\ skipped' = skipped \cup {i}
    /\ UNCHANGED <<committed, published>>

Next == \E i \in Row : Commit(i) \/ Publish(i) \/ Close(i) \/ Skip(i)

Spec == Init /\ [][Next]_promise
==============================================================================
