--------------------------- MODULE MCIdempotency ----------------------------
(* Instances of Idempotency for TLC.                                       *)
EXTENDS Idempotency

CONSTANTS u1, u2, b1, b2, k

C(u, key, op, arg) == [user |-> u, key |-> key, op |-> op, arg |-> arg]

\* One key used by one user for two forms and a cancel and by another user,
\* beside requests without a key and with a malformed one.
MCCalls == {C(u1, k, "POST", b1), C(u1, k, "POST", b2), C(u2, k, "POST", b1),
            C(u1, k, "DELETE", 1), C(u1, NoKey, "POST", b2), C(u1, BadKey, "POST", b1)}
=============================================================================
