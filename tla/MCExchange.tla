----------------------------- MODULE MCExchange -----------------------------
(* Small instances of Exchange: two users, prices 1 and 2, quantities 1    *)
(* and 2, and for each question the orders that make its cases happen.     *)
EXTENDS Exchange

MCUsers == {"alice", "bob"}

Order(u, s, t, p, q) == [user |-> u, side |-> s, type |-> t, price |-> p, quantity |-> q]

\* Two price levels, a taker that crosses both with price improvement, and a
\* sweep that may run out of money on either.
SweepMenu ==
    {Order("alice", "ASK", "LIMIT", 1, 1), Order("alice", "ASK", "LIMIT", 2, 2),
     Order("bob", "BID", "LIMIT", 2, 2), Order("bob", "BID", "MARKET", 0, 2)}

\* A maker larger than its taker, and a sweep that may leave a rest.
RestartMenu ==
    {Order("alice", "ASK", "LIMIT", 1, 2), Order("bob", "BID", "LIMIT", 2, 1),
     Order("alice", "ASK", "MARKET", 0, 2)}

\* A resting order to cancel or to trade with, and a sweep that leaves a rest.
LiveMenu ==
    {Order("bob", "BID", "LIMIT", 2, 1), Order("alice", "ASK", "MARKET", 0, 2)}

MCDeposit ==
    [u \in MCUsers |-> [a \in Assets |->
        IF u = "alice" THEN (IF a = "base" THEN 40 ELSE 0)
                       ELSE (IF a = "base" THEN 0 ELSE 50)]]
=============================================================================
