------------------------------ MODULE Exchange ------------------------------
(***************************************************************************)
(* One market of orbit-exchange, from the API's order transaction to the   *)
(* matcher's settlement:                                                   *)
(*                                                                         *)
(*   API  -- tx: lock funds, insert Order, insert OutboxEvent -->  Postgres*)
(*   outbox relay --> Kafka partition of the market (at least once)        *)
(*   matcher: one command at a time against the in-memory book, then one   *)
(*   settlement transaction; errors are logged and the offset advances.    *)
(*                                                                         *)
(* Abstractions.  A settlement handler is one action: the market's p-queue *)
(* has concurrency 1, nobody else writes Order rows, and the API's wallet  *)
(* writes are relative, so no interleaving inside the handler is visible   *)
(* except a transaction that fails after the book has changed, which is an *)
(* action of its own.  Order ids are the autoincrement ids.  Wallet        *)
(* amounts are counted in 1/FeeBase units, so that a fee of MakerFeeBp or  *)
(* TakerFeeBp out of FeeBase is exact.  The matching engine is a library:  *)
(* it fills better prices first, and the choice among makers of one price  *)
(* is left open.  The relay is abstract here: OutboxRelay has its details. *)
(***************************************************************************)
EXTENDS Integers, Sequences, FiniteSets, Functions

CONSTANTS Users,          \* user ids
          Menu,           \* order requests that pass the API's validation
          Deposit,        \* [Users -> [Assets -> Nat]], initial free balances
          FeeBase,        \* BP, the denominator of fee rates
          MakerFeeBp, TakerFeeBp,
          Depth,          \* price levels the engine's snapshot shows (15)
          StartsUp,       \* is the matcher up before the first order?
          GroupExists,    \* has the matcher's group a committed offset yet?
          MaxQty,         \* bound: the largest order quantity
          MaxOrders,      \* bound: Order rows
          MaxCancels,     \* bound: CANCEL commands
          MaxDuplicates,  \* bound: rows the relay publishes once more
          MaxAborts,      \* bound: database requests that fail or time out
          MaxCrashes      \* bound: crashes of the matcher process

Assets == {"base", "quote"}
Sides == {"BID", "ASK"}
Types == {"LIMIT", "MARKET"}
OrderId == 1..MaxOrders
Request == [user : Users, side : Sides, type : Types, price : Nat, quantity : 1..MaxQty]

ASSUME BoundsAssumption ==
    /\ MaxQty \in Nat /\ MaxOrders \in Nat /\ MaxCancels \in Nat
    /\ MaxDuplicates \in Nat /\ MaxAborts \in Nat /\ MaxCrashes \in Nat
    /\ Depth \in Nat \ {0} /\ StartsUp \in BOOLEAN /\ GroupExists \in BOOLEAN

ASSUME RequestAssumption ==
    /\ Users # {} /\ IsFiniteSet(Users)
    /\ Menu \subseteq Request
    /\ \A r \in Menu : r.type = "LIMIT" => r.price > 0

ASSUME AmountAssumption ==
    /\ Deposit \in [Users -> [Assets -> Nat]]
    /\ FeeBase \in Nat \ {0}
    /\ MakerFeeBp \in 0..FeeBase /\ TakerFeeBp \in 0..FeeBase

VARIABLES
    wallet,      \* Wallet rows: balance and locked per user and asset
    orders,      \* Order rows; status ABSENT for an id not yet assigned
    placed,      \* the last order id assigned
    trades,      \* Trade rows
    cancelling,  \* orders whose cancel request has passed the status check
    outbox,      \* OutboxEvent rows of the command topic, by row id
    processed,   \* outbox rows with processedAt set
    log,         \* the market's Kafka partition: outbox row ids
    committed,   \* the consumer group's committed offset (0: none)
    matcher,     \* the matcher process: down, replaying or running
    todo,        \* orders the boot replay has read and not yet added
    book,        \* in-memory book: open quantity per order, 0 when absent
    position,    \* offset of the next message the matcher handles
    failed,      \* history, read by properties only: has a command failed?
    aborts, crashes

database == <<wallet, orders, placed, trades>>
kafka == <<outbox, processed, log>>
process == <<matcher, todo, book, position, failed>>
vars == <<database, cancelling, kafka, committed, process, aborts, crashes>>

OrderRow == [user : Users, side : Sides, type : Types, price : Nat,
             quantity : Nat, filled : Nat, leave : Nat,
             status : {"ABSENT", "OPEN", "PARTIAL", "FILLED", "CANCELLED"}]
Command == [type : {"SUBMIT", "CANCEL"}, order : OrderId]
Trade == [taker : OrderId, maker : OrderId, price : Nat, qty : Nat]

NoOrder == [user |-> CHOOSE u \in Users : TRUE, side |-> "BID", type |-> "LIMIT",
            price |-> 0, quantity |-> 0, filled |-> 0, leave |-> 0, status |-> "ABSENT"]
EmptyBook == [o \in OrderId |-> 0]

\* Mutant of Active: a filled order is taken for active.
NotFilled(o) == orders[o].status \in {"OPEN", "PARTIAL", "CANCELLED"}

Active(o) == orders[o].status \in {"OPEN", "PARTIAL"}
Terminal(o) == orders[o].status \in {"FILLED", "CANCELLED"}

Init ==
    /\ wallet = [u \in Users |-> [a \in Assets |->
                    [balance |-> Deposit[u][a], locked |-> 0]]]
    /\ orders = [o \in OrderId |-> NoOrder]
    /\ placed = 0
    /\ trades = {}
    /\ cancelling = {}
    /\ outbox = <<>> /\ processed = {} /\ log = <<>>
    /\ committed = IF GroupExists THEN 1 ELSE 0
    /\ matcher = IF StartsUp THEN "running" ELSE "down"
    /\ todo = {} /\ book = EmptyBook /\ position = 1 /\ failed = FALSE
    /\ aborts = 0 /\ crashes = 0

-----------------------------------------------------------------------------
(* Wallet arithmetic.                                                      *)

\* CHECK (balance >= 0), CHECK (locked >= 0) on the Wallet table.
NonNegative(w) ==
    \A u \in Users, a \in Assets : w[u][a].balance \in Nat /\ w[u][a].locked \in Nat

\* Mutant of Net: the fee is recorded on the trade but not withheld.
NetWithoutFee(amount, feeBp) == amount * FeeBase

Net(amount, feeBp) == amount * (FeeBase - feeBp)
Gross(amount) == amount * FeeBase

\* What an order of this shape reserves for a quantity: the asset, the amount.
ReserveAsset(side) == IF side = "ASK" THEN "base" ELSE "quote"
Reserve(r, qty) == IF r.side = "ASK" THEN Gross(qty)
                   ELSE IF r.type = "LIMIT" THEN Gross(r.price * qty) ELSE 0

-----------------------------------------------------------------------------
(* API: order.service.ts                                                   *)

\* Mutant of Submit: the lock does not look at the balance it takes from.
SubmitUnchecked(r) ==
    LET o == placed + 1
        asset == ReserveAsset(r.side)
        amt == Reserve(r, r.quantity)
    IN  /\ placed < MaxOrders
        /\ wallet' = [wallet EXCEPT ![r.user][asset] =
                        [balance |-> @.balance - amt, locked |-> @.locked + amt]]
        /\ orders' = [orders EXCEPT ![o] =
                        [user |-> r.user, side |-> r.side, type |-> r.type,
                         price |-> r.price, quantity |-> r.quantity,
                         filled |-> 0, leave |-> r.quantity, status |-> "OPEN"]]
        /\ placed' = o
        /\ outbox' = Append(outbox, [type |-> "SUBMIT", order |-> o])
        /\ UNCHANGED <<trades, cancelling, processed, log, committed, process, aborts, crashes>>

\* atomicLock: UPDATE ... WHERE balance >= amt, in the transaction that also
\* inserts the Order row and the SUBMIT outbox row.
Submit(r) ==
    LET o == placed + 1
        asset == ReserveAsset(r.side)
        amt == Reserve(r, r.quantity)
    IN  /\ placed < MaxOrders
        /\ wallet[r.user][asset].balance >= amt
        /\ wallet' = [wallet EXCEPT ![r.user][asset] =
                        [balance |-> @.balance - amt, locked |-> @.locked + amt]]
        /\ orders' = [orders EXCEPT ![o] =
                        [user |-> r.user, side |-> r.side, type |-> r.type,
                         price |-> r.price, quantity |-> r.quantity,
                         filled |-> 0, leave |-> r.quantity, status |-> "OPEN"]]
        /\ placed' = o
        /\ outbox' = Append(outbox, [type |-> "SUBMIT", order |-> o])
        /\ UNCHANGED <<trades, cancelling, processed, log, committed, process, aborts, crashes>>

Cancels == Cardinality({i \in DOMAIN outbox : outbox[i].type = "CANCEL"})

\* The handler reads the row and refuses a terminal one; the outbox insert is
\* a later statement, and the row may have changed by then.
CancelRead(o) ==
    /\ Active(o)
    /\ Cancels + Cardinality(cancelling) < MaxCancels
    /\ cancelling' = cancelling \cup {o}
    /\ UNCHANGED <<database, kafka, committed, process, aborts, crashes>>

CancelPublish(o) ==
    /\ o \in cancelling
    /\ cancelling' = cancelling \ {o}
    /\ outbox' = Append(outbox, [type |-> "CANCEL", order |-> o])
    /\ UNCHANGED <<database, processed, log, committed, process, aborts, crashes>>

-----------------------------------------------------------------------------
(* The relay, as the matcher sees it: any unprocessed row may be published *)
(* next (a failed send is passed over and retried later), and a row whose  *)
(* processedAt update fails is published again.                            *)

Published(i) == \E k \in DOMAIN log : log[k] = i
Duplicates == Len(log) - Cardinality({log[k] : k \in DOMAIN log})
PublishedTwice == Duplicates + Cardinality({i \in DOMAIN outbox \ processed : Published(i)})

RelayPublish(i) ==
    /\ i \notin processed
    /\ log' = Append(log, i)
    /\ processed' = processed \cup {i}
    /\ UNCHANGED <<database, cancelling, outbox, committed, process, aborts, crashes>>

RelayPublishUnmarked(i) ==
    /\ i \notin processed
    /\ PublishedTwice < MaxDuplicates
    /\ log' = Append(log, i)
    /\ UNCHANGED <<database, cancelling, outbox, processed, committed, process, aborts, crashes>>

-----------------------------------------------------------------------------
(* The matching engine (external): which quantities a new order takes from *)
(* the makers on the book.                                                 *)

Better(side, p, q) == IF side = "ASK" THEN p < q ELSE p > q
Resting(side) == {m \in OrderId : book[m] > 0 /\ orders[m].side = side}
Opposite(o) == Resting(IF orders[o].side = "BID" THEN "ASK" ELSE "BID")

\* The number of price levels in front of m's on its side of the book.
LevelsAhead(m) ==
    Cardinality({orders[n].price : n \in
        {x \in Resting(orders[m].side) :
            Better(orders[m].side, orders[x].price, orders[m].price)}})

\* A LIMIT order meets the makers it crosses; a MARKET order sweeps the first
\* k levels of the snapshot, one book.add per level.
Makers(o, k) ==
    {m \in Opposite(o) :
        IF orders[o].type = "LIMIT"
        THEN \/ orders[m].price = orders[o].price
             \/ Better(orders[m].side, orders[m].price, orders[o].price)
        ELSE LevelsAhead(m) < k}

\* book.add takes leaveQty of a LIMIT order; a MARKET sweep starts from quantity.
Wanted(o) == IF orders[o].type = "LIMIT" THEN orders[o].leave ELSE orders[o].quantity

\* The fills the engine may produce: better prices are exhausted first, and
\* the order is filled as far as its makers reach.
Fills(o, k) ==
    {f \in [OrderId -> 0..MaxQty] :
        /\ \A m \in OrderId : IF m \in Makers(o, k) THEN f[m] <= book[m] ELSE f[m] = 0
        /\ SumFunction(f) \in 0..Wanted(o)
        /\ \A m, n \in Makers(o, k) :
              f[m] > 0 /\ Better(orders[n].side, orders[n].price, orders[m].price)
                => f[n] = book[n]
        /\ SumFunction(f) < Wanted(o) => \A m \in Makers(o, k) : f[m] = book[m]}

\* What the fills leave of the order: its residual rests on the book when it
\* is a LIMIT order.
Residual(o, f) == Wanted(o) - SumFunction(f)
BookAfter(o, f) ==
    [x \in OrderId |-> IF x = o THEN (IF orders[o].type = "LIMIT" THEN Residual(o, f) ELSE 0)
                       ELSE book[x] - f[x]]

\* The engine refuses an id that is on the book already.
AddAccepted(o) == book[o] = 0

-----------------------------------------------------------------------------
(* Settlement: settler.service.ts                                          *)

\* What a side of a trade hands over and what it gets.
Given(side, price, qty) == IF side = "ASK" THEN qty ELSE price * qty
Received(side, price, qty) == IF side = "ASK" THEN price * qty ELSE qty

NoChange == [balance |-> 0, locked |-> 0]

\* What a trade adds to the maker's wallet row (u, a).  It is at the maker's
\* price: the reservation is spent to the unit, the proceeds arrive net of fee.
MakerChange(m, qty, u, a) ==
    LET r == orders[m] IN
    IF r.user # u THEN NoChange
    ELSE IF a = ReserveAsset(r.side)
    THEN [balance |-> 0, locked |-> -Gross(Given(r.side, r.price, qty))]
    ELSE [balance |-> Net(Received(r.side, r.price, qty), MakerFeeBp), locked |-> 0]

\* Mutant of TakerChange: the price improvement stays locked.
TakerKeepsLocked(o, m, qty, u, a) ==
    LET r == orders[o]
        paid == Gross(Given(r.side, orders[m].price, qty))
        free == r.side = "BID" /\ r.type = "MARKET"
    IN  IF r.user # u THEN NoChange
        ELSE IF a = ReserveAsset(r.side)
        THEN [balance |-> IF free THEN -paid ELSE 0, locked |-> IF free THEN 0 ELSE -paid]
        ELSE [balance |-> Net(Received(r.side, orders[m].price, qty), TakerFeeBp), locked |-> 0]

\* And to the taker's: a LIMIT bid gets back what it reserved above the
\* trade's price; a MARKET bid reserved nothing and pays from its free balance.
TakerChange(o, m, qty, u, a) ==
    LET r == orders[o]
        reserved == Reserve(r, qty)
        paid == Gross(Given(r.side, orders[m].price, qty))
    IN  IF r.user # u THEN NoChange
        ELSE IF a = ReserveAsset(r.side)
        THEN [balance |-> reserved - paid, locked |-> -reserved]
        ELSE [balance |-> Net(Received(r.side, orders[m].price, qty), TakerFeeBp), locked |-> 0]

\* The wallets after the trades of the fills f; every write is relative.
AfterTrades(o, f) ==
    [u \in Users |-> [a \in Assets |->
        [balance |-> wallet[u][a].balance + SumFunction([m \in OrderId |->
                        MakerChange(m, f[m], u, a).balance + TakerChange(o, m, f[m], u, a).balance]),
         locked  |-> wallet[u][a].locked + SumFunction([m \in OrderId |->
                        MakerChange(m, f[m], u, a).locked + TakerChange(o, m, f[m], u, a).locked])]]]

\* Funds released at the end of an order's life: its unfilled reservation.
Release(w, o, qty) ==
    LET amt == Reserve(orders[o], qty)
    IN  [w EXCEPT ![orders[o].user][ReserveAsset(orders[o].side)] =
            [balance |-> @.balance + amt, locked |-> @.locked - amt]]

TradeRows(o, f) ==
    {[taker |-> o, maker |-> m, price |-> orders[m].price, qty |-> f[m]] :
        m \in {x \in OrderId : f[x] > 0}}

\* Trade.matchId is commandId#0, commandId#1, ... in every run of a command,
\* and unique: a second run of a command that traded cannot trade again.
MatchIdTaken(o, f) == TradeRows(o, f) # {} /\ \E t \in trades : t.taker = o

\* The CHECK constraints hold after the trades of the first k price levels.
UpTo(k, f) == [m \in OrderId |-> IF LevelsAhead(m) < k THEN f[m] ELSE 0]
Funded(o, f, k) == NonNegative(AfterTrades(o, UpTo(k, f)))

\* tx.order.update: the three columns a settlement may write.
Update(r, filled, leave, status) ==
    [user |-> r.user, side |-> r.side, type |-> r.type, price |-> r.price,
     quantity |-> r.quantity, filled |-> filled, leave |-> leave, status |-> status]

\* Mutant of AfterMatch: a partial fill leaves the status alone.
AfterMatchOpen(r, leave) ==
    Update(r, r.quantity - leave, leave, IF leave = 0 THEN "FILLED" ELSE "OPEN")

\* updateOrderAfterMatch
AfterMatch(r, leave) ==
    Update(r, r.quantity - leave, leave,
           IF leave = 0 THEN "FILLED" ELSE IF leave < r.quantity THEN "PARTIAL" ELSE "OPEN")

\* Mutant of AfterSweep: the final status update is missing.
AfterSweepRests(r, leave) == AfterMatch(r, leave)

\* A MARKET order never rests: what the sweep left over ends it.
AfterSweep(r, leave) ==
    Update(r, r.quantity - leave, leave,
           IF leave > 0 /\ leave = r.quantity THEN "CANCELLED" ELSE "FILLED")

TakerAfter(o, f) ==
    IF orders[o].type = "LIMIT" THEN AfterMatch(orders[o], Residual(o, f))
                                ELSE AfterSweep(orders[o], Residual(o, f))

\* Mutant of MakerAfter: the filled quantity is overwritten.
MakerAfterOverwrites(r, qty) ==
    Update(r, qty, r.leave - qty, IF r.leave - qty <= 0 THEN "FILLED" ELSE "PARTIAL")

MakerAfter(r, qty) ==
    Update(r, r.filled + qty, r.leave - qty,
           IF r.leave - qty <= 0 THEN "FILLED" ELSE "PARTIAL")

\* handleMessage runs this command; whatever its outcome the offset advances.
Handling(type, o) ==
    /\ matcher = "running"
    /\ position \in DOMAIN log
    /\ outbox[log[position]] = [type |-> type, order |-> o]
    /\ position' = position + 1
    /\ UNCHANGED <<placed, cancelling, kafka, committed, matcher, todo, crashes>>

\* settleSubmit returns null for an order that is missing or terminal: a
\* duplicate, or a cancel got there first.
SubmitSkip(o) ==
    /\ Handling("SUBMIT", o)
    /\ ~Active(o)
    /\ UNCHANGED <<wallet, orders, trades, book, failed, aborts>>

SubmitCommit(o) ==
    /\ Handling("SUBMIT", o)
    /\ Active(o)
    /\ AddAccepted(o)
    /\ \E f \in Fills(o, Depth) :
        /\ ~MatchIdTaken(o, f)
        /\ \A k \in 1..MaxOrders : Funded(o, f, k)
        /\ book' = BookAfter(o, f)
        /\ trades' = trades \cup TradeRows(o, f)
        /\ orders' = [x \in OrderId |-> IF x = o THEN TakerAfter(o, f)
                                        ELSE IF f[x] > 0 THEN MakerAfter(orders[x], f[x])
                                        ELSE orders[x]]
        /\ wallet' = IF orders[o].type = "MARKET"
                     THEN Release(AfterTrades(o, f), o, Residual(o, f))
                     ELSE AfterTrades(o, f)
        /\ NonNegative(wallet')
    /\ UNCHANGED <<failed, aborts>>

\* book.add throws on an id that is on the book; nothing has changed yet.
SubmitDuplicate(o) ==
    /\ Handling("SUBMIT", o)
    /\ Active(o)
    /\ ~AddAccepted(o)
    /\ UNCHANGED <<wallet, orders, trades, book, failed, aborts>>

\* The transaction fails after k levels of matching: on a CHECK violation, on
\* a taken matchId, or on a timeout.  Postgres rolls back; the book does not.
SubmitRollback(o) ==
    /\ Handling("SUBMIT", o)
    /\ Active(o)
    /\ AddAccepted(o)
    /\ \E k \in 1..Depth : \E f \in Fills(o, k) :
        /\ \A j \in 1..(k - 1) : Funded(o, f, j)
        /\ book' = BookAfter(o, f)
        /\ IF MatchIdTaken(o, f) \/ ~Funded(o, f, k)
           THEN aborts' = aborts
           ELSE aborts < MaxAborts /\ aborts' = aborts + 1
    /\ failed' = TRUE
    /\ UNCHANGED <<wallet, orders, trades>>

CancelSkip(o) ==
    /\ Handling("CANCEL", o)
    /\ ~Active(o)
    /\ UNCHANGED <<wallet, orders, trades, book, failed, aborts>>

\* Mutant of CancelCommit: the book keeps the order.
CancelKeepsBook(o) ==
    /\ Handling("CANCEL", o)
    /\ Active(o)
    /\ wallet' = Release(wallet, o, orders[o].leave)
    /\ NonNegative(wallet')
    /\ orders' = [orders EXCEPT ![o] = Update(@, @.filled, @.leave, "CANCELLED")]
    /\ UNCHANGED <<trades, book, failed, aborts>>

\* book.cancel of an absent id throws and is ignored: the refund follows the row.
CancelCommit(o) ==
    /\ Handling("CANCEL", o)
    /\ Active(o)
    /\ book' = [book EXCEPT ![o] = 0]
    /\ wallet' = Release(wallet, o, orders[o].leave)
    /\ NonNegative(wallet')
    /\ orders' = [orders EXCEPT ![o] = Update(@, @.filled, @.leave, "CANCELLED")]
    /\ UNCHANGED <<trades, failed, aborts>>

CancelRollback(o) ==
    /\ Handling("CANCEL", o)
    /\ Active(o)
    /\ aborts < MaxAborts
    /\ aborts' = aborts + 1
    /\ book' = [book EXCEPT ![o] = 0]
    /\ failed' = TRUE
    /\ UNCHANGED <<wallet, orders, trades>>

\* The reads in front of the transaction fail, or it cannot start: the error
\* is logged and the command is gone.
CommandLost(o) ==
    /\ \E type \in {"SUBMIT", "CANCEL"} : Handling(type, o)
    /\ aborts < MaxAborts
    /\ aborts' = aborts + 1
    /\ failed' = TRUE
    /\ UNCHANGED <<wallet, orders, trades, book>>

-----------------------------------------------------------------------------
(* Life of the matcher process.                                            *)

\* Mutant of ReplayRead: the status filter is missing.
ReplayReadAll ==
    /\ matcher = "down"
    /\ matcher' = "replaying"
    /\ todo' = {o \in 1..placed : orders[o].type = "LIMIT"}
    /\ UNCHANGED <<database, cancelling, kafka, committed, book, position, failed, aborts, crashes>>

\* replayOpenOrders: one SELECT, then book.add per row in id order.  The
\* trades that book.add returns are dropped.
ReplayRead ==
    /\ matcher = "down"
    /\ matcher' = "replaying"
    /\ todo' = {o \in OrderId : Active(o) /\ orders[o].type = "LIMIT"}
    /\ UNCHANGED <<database, cancelling, kafka, committed, book, position, failed, aborts, crashes>>

ReplayAdd(o) ==
    /\ matcher = "replaying"
    /\ o \in todo /\ \A x \in todo : o <= x
    /\ todo' = todo \ {o}
    /\ \E f \in Fills(o, Depth) : book' = BookAfter(o, f)
    /\ UNCHANGED <<database, cancelling, kafka, committed, matcher, position, failed, aborts, crashes>>

\* Mutant of Subscribe: every start skips to the end of the log.
SubscribeLatest ==
    /\ matcher = "replaying" /\ todo = {}
    /\ matcher' = "running"
    /\ position' = Len(log) + 1
    /\ UNCHANGED <<database, cancelling, kafka, committed, todo, book, failed, aborts, crashes>>

\* consumer.subscribe({fromBeginning: false}) and run: start at the committed
\* offset, or at the end of the log when the group has none.
Subscribe ==
    /\ matcher = "replaying" /\ todo = {}
    /\ matcher' = "running"
    /\ position' = IF committed = 0 THEN Len(log) + 1 ELSE committed
    /\ UNCHANGED <<database, cancelling, kafka, committed, todo, book, failed, aborts, crashes>>

\* kafkajs commits the resolved offset from time to time.  (Bound: after the
\* last crash the committed offset is not read again, and is left alone.)
CommitOffset ==
    /\ matcher = "running"
    /\ crashes < MaxCrashes
    /\ committed # position
    /\ committed' = position
    /\ UNCHANGED <<database, cancelling, kafka, process, aborts, crashes>>

Crash ==
    /\ matcher # "down"
    /\ crashes < MaxCrashes
    /\ crashes' = crashes + 1
    /\ matcher' = "down" /\ todo' = {} /\ book' = EmptyBook /\ position' = 1
    /\ UNCHANGED <<database, cancelling, kafka, committed, failed, aborts>>

-----------------------------------------------------------------------------
Api == \/ \E r \in Menu : Submit(r)
       \/ \E o \in OrderId : CancelRead(o) \/ CancelPublish(o)

Relay == \E i \in DOMAIN outbox : RelayPublish(i) \/ RelayPublishUnmarked(i)

Handle(o) == \/ SubmitSkip(o) \/ SubmitCommit(o) \/ SubmitDuplicate(o) \/ SubmitRollback(o)
             \/ CancelSkip(o) \/ CancelCommit(o) \/ CancelRollback(o) \/ CommandLost(o)

Boot == ReplayRead \/ Subscribe \/ \E o \in OrderId : ReplayAdd(o)

Next == Api \/ Relay \/ Boot \/ CommitOffset \/ Crash \/ \E o \in OrderId : Handle(o)

Spec == Init /\ [][Next]_vars

(* The relay loops for ever, kafkajs polls for ever, the process manager   *)
(* restarts the matcher, and a handler that passed its check goes on.      *)
Fairness ==
    /\ \A i \in 1..(MaxOrders + MaxCancels) : WF_vars(i \in DOMAIN outbox /\ RelayPublish(i))
    /\ \A o \in OrderId : WF_vars(CancelPublish(o))
    /\ WF_vars(Boot)
    /\ WF_vars(\E o \in OrderId : Handle(o))

FairSpec == Spec /\ Fairness

-----------------------------------------------------------------------------
(* Properties.                                                             *)

WalletRow == [balance : Nat, locked : Nat]

\* Type invariant.  That balance and locked are natural numbers is the CHECK
\* constraint of the Wallet table.
TypeOK ==
    /\ wallet \in [Users -> [Assets -> WalletRow]]
    /\ orders \in [OrderId -> OrderRow]
    /\ placed \in 0..MaxOrders
    /\ trades \subseteq Trade
    /\ cancelling \subseteq OrderId
    /\ outbox \in Seq(Command)
    /\ processed \subseteq DOMAIN outbox
    /\ log \in Seq(Nat)
    /\ \A k \in DOMAIN log : log[k] \in DOMAIN outbox
    /\ committed \in Nat
    /\ matcher \in {"down", "replaying", "running"}
    /\ todo \subseteq OrderId
    /\ book \in [OrderId -> Nat]
    /\ position \in Nat \ {0}
    /\ failed \in BOOLEAN /\ aborts \in Nat /\ crashes \in Nat

\* What an order still holds of a wallet row.
Reserved(o, u, a) ==
    IF Active(o) /\ orders[o].user = u /\ ReserveAsset(orders[o].side) = a
    THEN Reserve(orders[o], orders[o].leave) ELSE 0

\* Every locked amount is the reservation of orders that are still active, to
\* the unit: what submit locks, fills consume, price improvement refunds and
\* cancels release never leaves a residue and never takes too much.
LockedMatchesOpenOrders ==
    \A u \in Users, a \in Assets :
        wallet[u][a].locked = SumFunction([o \in OrderId |-> Reserved(o, u, a)])

\* The fee the exchange kept of a trade in an asset: each side pays in the
\* asset it receives.
FeeKept(t, a) ==
    LET taken(o, bp) == IF ReserveAsset(orders[o].side) = a THEN 0
                        ELSE bp * (IF a = "base" THEN t.qty ELSE t.price * t.qty)
    IN  taken(t.maker, MakerFeeBp) + taken(t.taker, TakerFeeBp)

\* Settlement neither mints nor burns an asset: wallets plus the fees of the
\* recorded trades are what was deposited, whatever was rolled back, replayed
\* or delivered twice.
Conservation ==
    \A a \in Assets :
        SumFunction([u \in Users |-> wallet[u][a].balance + wallet[u][a].locked])
          + SumFunction([t \in trades |-> FeeKept(t, a)])
        = SumFunction([u \in Users |-> Deposit[u][a]])

\* filledQty and leaveQty split the quantity, and the status says how: a LIMIT
\* order is FILLED exactly when nothing is left, and rows that never traded
\* are OPEN or CANCELLED.
OrderAccounting ==
    \A o \in OrderId :
        LET r == orders[o] IN
        /\ r.filled + r.leave = r.quantity
        /\ r.status = "OPEN" => r.filled = 0 /\ r.leave > 0
        /\ r.status = "PARTIAL" => r.type = "LIMIT" /\ r.filled > 0 /\ r.leave > 0
        /\ r.status = "FILLED" => r.filled > 0 /\ (r.type = "LIMIT" => r.leave = 0)

\* The Trade table explains every fill: filledQty of an order is what it
\* traded as maker plus what it traded as taker.
TradesExplainFills ==
    \A o \in OrderId :
        orders[o].filled =
            SumFunction([t \in trades |-> IF o \in {t.maker, t.taker} THEN t.qty ELSE 0])

\* The book never offers more than the database has left of an order: an entry
\* is an active LIMIT order with at most its leaveQty.  So no settlement can
\* overfill a maker, whatever rollbacks, restarts and redeliveries came before.
BookWithinOrders ==
    \A o \in OrderId : book[o] > 0 =>
        Active(o) /\ orders[o].type = "LIMIT" /\ book[o] <= orders[o].leave

\* The strengthening that makes BookWithinOrders inductive: ids beyond the
\* last insert are unused, and the orders a boot replay still has to add stay
\* active LIMIT orders until it adds them.
IdsUnused == \A o \in OrderId : orders[o].status = "ABSENT" <=> o > placed
ReplayReadsActive ==
    /\ \A o \in todo : Active(o) /\ orders[o].type = "LIMIT"
    /\ matcher = "running" => todo = {}
IInv == TypeOK /\ OrderAccounting /\ BookWithinOrders /\ IdsUnused /\ ReplayReadsActive

\* And for the money: a trade is between orders that have been placed, so the
\* sides FeeKept reads are those of the trade for good.
TradesOfPlacedOrders ==
    /\ IsFiniteSet(trades)
    /\ \A t \in trades : orders[t.maker].status # "ABSENT" /\ orders[t.taker].status # "ABSENT"

\* A FILLED or CANCELLED row is never written again: no late command, duplicate
\* or stale maker on the book revives it or moves its quantities.
TerminalIsFinal == [][\A o \in OrderId : Terminal(o) => orders'[o] = orders[o]]_vars

\* All commands have been published and consumed.
CaughtUp == matcher = "running" /\ position > Len(log) /\ processed = DOMAIN outbox

\* The in-memory book is the persisted truth (the class comment of
\* MatchingEngineService): once caught up, exactly the active LIMIT orders
\* rest on it, each with its leaveQty.
BookMatchesPersistedTruth ==
    CaughtUp => book = [o \in OrderId |-> IF Active(o) /\ orders[o].type = "LIMIT"
                                          THEN orders[o].leave ELSE 0]

\* While no command has failed (a rollback, or one that was lost) and the
\* matcher, up since before the first order, has not crashed, the book is
\* exactly that, whatever the order in which the commands arrive and however
\* often: a cancel ahead of its order, a duplicate, a sweep that leaves a rest.
Faultless == StartsUp /\ crashes = 0 /\ ~failed
BookExactUntilFault == Faultless => BookMatchesPersistedTruth

\* The strengthening that makes it inductive says what is on the book before
\* the matcher has caught up: the active LIMIT orders whose SUBMIT it has
\* handled, and no MARKET order that it has handled is still active.
Consumed(o) ==
    \E k \in DOMAIN log : k < position /\ outbox[log[k]] = [type |-> "SUBMIT", order |-> o]
OnBook(o) == Active(o) /\ orders[o].type = "LIMIT" /\ Consumed(o)
SubmitRowPerOrder ==
    /\ \A o \in 1..placed : \E i \in DOMAIN outbox : outbox[i] = [type |-> "SUBMIT", order |-> o]
    /\ \A i \in DOMAIN outbox : outbox[i].type = "SUBMIT" => outbox[i].order <= placed
ProcessedIsPublished == \A i \in processed : Published(i)
BookExact ==
    /\ matcher = "running" /\ position <= Len(log) + 1
    /\ \A o \in OrderId : book[o] = IF OnBook(o) THEN orders[o].leave ELSE 0
    /\ \A o \in OrderId : Active(o) /\ orders[o].type = "MARKET" => ~Consumed(o)
ExactInv == SubmitRowPerOrder /\ ProcessedIsPublished /\ (Faultless => BookExact)

\* A cancel the API has accepted takes the order to a terminal status, across
\* reordering, duplicates and restarts of the matcher.
CancelIsApplied ==
    \A o \in OrderId :
        (\E i \in DOMAIN outbox : outbox[i] = [type |-> "CANCEL", order |-> o]) ~> Terminal(o)

\* A MARKET order never stays open.
MarketOrderEnds ==
    \A o \in OrderId : (Active(o) /\ orders[o].type = "MARKET") ~> Terminal(o)
=============================================================================
