------------------------------ MODULE MarketData ------------------------------
(***************************************************************************)
(* Market data from the matcher to one browser.                            *)
(*                                                                         *)
(* A settled command changes the book of a symbol and puts an event in the *)
(* feed (outbox and Kafka, in order per symbol); fanout publishes the feed *)
(* to Redis and the gateway emits it to the sockets in the symbol's room.  *)
(* Apart from the feed the matcher writes the book to a Redis cache,       *)
(* throttled; the gateway sends the cached book to a client that           *)
(* subscribes, and the API answers from it.  A panel of the trade page     *)
(* shows whatever reached it last; a row of the market list shows the last *)
(* live price, or the polled one until there is one.  Books, trades and    *)
(* bars are represented by the number of the command that made them.       *)
(***************************************************************************)
EXTENDS Integers, Sequences, FiniteSets

CONSTANTS Symbols,
          NoSymbol,
          MaxSettles,  \* bound: commands settled
          MaxSelects,  \* bound: symbols the user opens
          MaxFaults,   \* bound: faults of any kind
          MaxRestarts, \* bound: restarts of the matcher
          TapeLength   \* rows of the trade tape

ASSUME MarketDataAssumption ==
    /\ NoSymbol \notin Symbols
    /\ {MaxSettles, MaxSelects, MaxFaults, MaxRestarts} \subseteq Nat /\ TapeLength \in Nat \ {0}

VARIABLES
    panel,     \* the panel of this behaviour
    book,      \* matcher: version of each book
    saved,     \* version of each book that the committed rows give
    trades,    \* Trade rows of each symbol, newest first
    feed,      \* events of each symbol, not yet fanned out
    later,     \* events waiting in the retry tier
    cache,     \* ob:snapshot keys, -1 when missing
    writing,   \* SET commands on their way to Redis
    hot,       \* less than THROTTLE_MS since the last write
    pending,   \* a timer is set
    online,    \* the socket is connected
    joining,   \* subscribe messages on their way to the gateway
    rooms,     \* rooms the socket is in
    snapshot,  \* gateway: subscribe handlers at their cache read
    wire,      \* messages on their way to the browser
    selected,  \* symbol of the page
    rest,      \* requests of the panel's query, by symbol
    kept,      \* data the query of the strip or the list holds, by symbol
    ticks,     \* live tick of each row of the list
    shown,     \* what the panel shows, newest first, and how it came
    since,     \* history: what came last since the symbol was selected
    settles, selects, faults, restarts

matcher == <<book, saved, trades, cache, writing, hot, pending>>
gateway == <<online, joining, rooms, snapshot, wire>>
browser == <<selected, rest, kept, ticks, shown, since>>
bounds == <<settles, selects, faults, restarts>>
vars == <<panel, matcher, feed, later, gateway, browser, bounds>>

\* What the panel of a behaviour cannot see is left out of the behaviour: the
\* books and their cache from those of the panels that show trades, the trades
\* from the others.  "none": nobody looks on; the matcher restarts there only.
Panels == {"orderbook", "chart", "tape", "strip", "list", "none"}
Cached == {"orderbook", "none"}
None == -2                            \* no request, no read under way
Unread == -3                          \* asked for, not read yet
Missing == -1
Msg(via, s, v) == [via |-> via, symbol |-> s, version |-> v]
NoTick == Msg("poll", NoSymbol, None)

Init ==
    /\ panel \in Panels
    /\ book = [s \in Symbols |-> 0] /\ saved = book /\ trades = [s \in Symbols |-> <<>>]
    /\ feed = [s \in Symbols |-> <<>>] /\ later = {}
    /\ cache = [s \in Symbols |-> 0]
    /\ writing = [s \in Symbols |-> <<>>]
    /\ hot = [s \in Symbols |-> FALSE] /\ pending = [s \in Symbols |-> FALSE]
    /\ online = TRUE /\ joining = {} /\ rooms = {}
    /\ snapshot = [s \in Symbols |-> None] /\ wire = <<>>
    /\ selected = NoSymbol /\ rest = [s \in Symbols |-> None]
    /\ kept = [s \in Symbols |-> None] /\ ticks = [s \in Symbols |-> NoTick]
    /\ shown = <<>> /\ since = "nothing"
    /\ settles = 0 /\ selects = 0 /\ faults = 0 /\ restarts = 0

Fault == faults < MaxFaults /\ faults' = faults + 1 /\ UNCHANGED <<settles, selects, restarts>>

-----------------------------------------------------------------------------
(* The matcher: events and the throttled snapshot.                         *)

\* schedule: the write is issued at once, with the book as it is, or by the one
\* timer of the symbol; lastWrite is set only when a write was acknowledged.
\* Mutant: a book that changes while the throttle is on is not written.
ScheduleDrops(s, v) ==
    /\ writing' = IF hot[s] THEN writing ELSE [writing EXCEPT ![s] = Append(@, v)]
    /\ UNCHANGED pending
Schedule(s, v) ==
    IF panel \notin Cached THEN UNCHANGED <<writing, pending>>
    ELSE IF hot[s] THEN /\ pending' = [pending EXCEPT ![s] = TRUE]
                        /\ UNCHANGED writing
    ELSE /\ writing' = [writing EXCEPT ![s] = Append(@, v)]
         /\ UNCHANGED pending

\* A command changes the book of s and the rows; its event for the panel is
\* committed with them, and the snapshot is scheduled after the commit.
Settle(s) ==
    /\ settles < MaxSettles /\ settles' = settles + 1
    /\ IF panel \in Cached THEN book' = [book EXCEPT ![s] = settles'] /\ saved' = [saved EXCEPT ![s] = settles']
       ELSE UNCHANGED <<book, saved>>
    /\ Schedule(s, settles')
    /\ UNCHANGED <<panel, later, cache, hot, gateway, browser, selects, faults, restarts>>

\* An order that trades: a TradeEvent and an OrderbookEvent.
SettleTrade(s) ==
    /\ Settle(s)
    /\ trades' = IF panel \in Cached THEN trades ELSE [trades EXCEPT ![s] = <<settles'>> \o @]
    /\ feed' = [feed EXCEPT ![s] = Append(@, Msg("feed", s, settles'))]
\* A cancelled order: an OrderbookEvent only (so an order that only rests).
SettleCancel(s) ==
    /\ panel \in Cached /\ Settle(s)
    /\ feed' = [feed EXCEPT ![s] = Append(@, Msg("feed", s, settles'))]
    /\ UNCHANGED trades

\* The transaction rolls back after the book was changed: no event, no snapshot.
SettleRollsBack(s) ==
    /\ panel \in Cached /\ settles < MaxSettles /\ settles' = settles + 1
    /\ faults < MaxFaults /\ faults' = faults + 1
    /\ book' = [book EXCEPT ![s] = settles']
    /\ UNCHANGED <<panel, saved, trades, feed, later, cache, writing, hot, pending, gateway, browser, selects, restarts>>

TimerFires(s) ==
    /\ pending[s] /\ pending' = [pending EXCEPT ![s] = FALSE]
    /\ writing' = [writing EXCEPT ![s] = Append(@, book[s])]
    /\ UNCHANGED <<panel, book, saved, trades, feed, later, cache, hot, gateway, browser, bounds>>

WriteDone(s) ==
    /\ writing[s] # <<>> /\ writing' = [writing EXCEPT ![s] = Tail(@)]
    /\ cache' = [cache EXCEPT ![s] = Head(writing[s])]
    /\ hot' = [hot EXCEPT ![s] = TRUE]
    /\ UNCHANGED <<panel, book, saved, trades, feed, later, pending, gateway, browser, bounds>>

\* A failed write is logged and not repeated.
WriteFails(s) ==
    /\ writing[s] # <<>> /\ writing' = [writing EXCEPT ![s] = Tail(@)]
    /\ Fault
    /\ UNCHANGED <<panel, book, saved, trades, feed, later, cache, hot, pending, gateway, browser>>

CoolsDown(s) ==
    /\ hot[s] /\ hot' = [hot EXCEPT ![s] = FALSE]
    /\ UNCHANGED <<panel, book, saved, trades, feed, later, cache, writing, pending, gateway, browser, bounds>>

\* The key outlives ORDERBOOK_SNAPSHOT_TTL_SEC without a write.
CacheExpires(s) ==
    /\ panel \in Cached /\ cache[s] # Missing /\ cache' = [cache EXCEPT ![s] = Missing]
    /\ Fault
    /\ UNCHANGED <<panel, book, saved, trades, feed, later, writing, hot, pending, gateway, browser>>

\* The matcher restarts: timers and writes under way are lost, the books are
\* replayed from the rows, and every book is written before commands are read.
Restart ==
    /\ panel = "none" /\ restarts < MaxRestarts /\ restarts' = restarts + 1
    /\ book' = saved
    /\ writing' = [s \in Symbols |-> <<saved[s]>>]
    /\ hot' = [s \in Symbols |-> FALSE] /\ pending' = [s \in Symbols |-> FALSE]
    /\ UNCHANGED <<panel, saved, trades, feed, later, cache, gateway, browser, settles, selects, faults>>

-----------------------------------------------------------------------------
(* Fanout and gateway.                                                     *)

Emit(m) == IF online THEN wire' = Append(wire, m) ELSE UNCHANGED wire

\* Redis pub/sub reaches the sockets in the room; nobody else ever gets it.
\* Mutant: the newest event first.
FanoutNewest(s) ==
    /\ feed[s] # <<>> /\ feed' = [feed EXCEPT ![s] = SubSeq(@, 1, Len(@) - 1)]
    /\ IF s \in rooms THEN Emit(feed[s][Len(feed[s])]) ELSE UNCHANGED wire
    /\ UNCHANGED <<panel, matcher, later, online, joining, rooms, snapshot, browser, bounds>>
Fanout(s) ==
    /\ feed[s] # <<>> /\ feed' = [feed EXCEPT ![s] = Tail(@)]
    /\ IF s \in rooms THEN Emit(Head(feed[s])) ELSE UNCHANGED wire
    /\ UNCHANGED <<panel, matcher, later, online, joining, rooms, snapshot, browser, bounds>>

\* The handler fails: the event goes through the retry tier and comes back
\* behind what was published meanwhile.
\* Mutant: it is retried though it has been published.
FanoutFailsAfterPublish(s) ==
    /\ feed[s] # <<>> /\ feed' = [feed EXCEPT ![s] = Tail(@)]
    /\ later' = later \cup {Head(feed[s])}
    /\ IF s \in rooms THEN Emit(Head(feed[s])) ELSE UNCHANGED wire
    /\ Fault
    /\ UNCHANGED <<panel, matcher, online, joining, rooms, snapshot, browser>>
FanoutFails(s) ==
    /\ feed[s] # <<>> /\ feed' = [feed EXCEPT ![s] = Tail(@)]
    /\ later' = later \cup {Head(feed[s])}
    /\ Fault
    /\ UNCHANGED <<panel, matcher, gateway, browser>>
FanoutAgain(s) ==
    \E m \in later :
      /\ m.symbol = s /\ later' = later \ {m}
      /\ feed' = [feed EXCEPT ![s] = Append(@, [m EXCEPT !.via = "again"])]
      /\ UNCHANGED <<panel, matcher, gateway, browser, bounds>>

\* onSubscribe: join, read the cache, send what was read unless it is missing.
Subscribe(s) ==
    /\ online /\ s \in joining /\ joining' = joining \ {s}
    /\ rooms' = rooms \cup {s}
    /\ snapshot' = [snapshot EXCEPT ![s] = IF panel = "orderbook" THEN Unread ELSE @]
    /\ UNCHANGED <<panel, matcher, feed, later, online, wire, browser, bounds>>
SnapshotRead(s) ==
    /\ snapshot[s] = Unread
    /\ snapshot' = [snapshot EXCEPT ![s] = IF cache[s] = Missing THEN None ELSE cache[s]]
    /\ UNCHANGED <<panel, matcher, feed, later, online, joining, rooms, wire, browser, bounds>>
SnapshotSend(s) ==
    /\ snapshot[s] >= 0
    /\ Emit(Msg("snapshot", s, snapshot[s]))
    /\ snapshot' = [snapshot EXCEPT ![s] = None]
    /\ UNCHANGED <<panel, matcher, feed, later, online, joining, rooms, browser, bounds>>

\* A reconnected socket is in no room, and nothing subscribes again.
Disconnect ==
    /\ online /\ online' = FALSE /\ rooms' = {} /\ wire' = <<>>
    /\ Fault
    /\ UNCHANGED <<panel, matcher, feed, later, joining, snapshot, browser>>
Reconnect ==
    /\ ~online /\ online' = TRUE
    /\ UNCHANGED <<panel, matcher, feed, later, joining, rooms, snapshot, wire, browser, bounds>>

-----------------------------------------------------------------------------
(* The browser.                                                            *)

Cut(list) == SubSeq(list, 1, IF Len(list) < TapeLength THEN Len(list) ELSE TapeLength)
Mine(s) == IF s = selected THEN "own" ELSE "other"

\* A symbol is opened: the panel keeps what it shows, subscribes once more and
\* asks the API, unless the same question is under way.  It leaves no room.
\* The strip, whose query is keyed, shows what it holds for the symbol.
Select(s) ==
    /\ panel \notin {"none", "list"} /\ selects < MaxSelects /\ selects' = selects + 1
    /\ s # selected /\ selected' = s
    /\ joining' = joining \cup {s}
    /\ rest' = [rest EXCEPT ![s] = IF @ = None THEN Unread ELSE @]
    /\ IF panel = "strip" /\ kept[s] >= 0
       THEN shown' = <<Msg("rest", s, kept[s])>> /\ since' = "own"
       ELSE UNCHANGED shown /\ since' = "nothing"
    /\ UNCHANGED <<panel, matcher, feed, later, online, rooms, snapshot, wire, kept, ticks,
                   settles, faults, restarts>>

\* The list has the enabled markets: it subscribes to the trades of all, and
\* asks for the last trade of each, now and every five seconds.
OpenList ==
    /\ panel = "list" /\ selects = 0 /\ selects' = 1
    /\ joining' = Symbols /\ rest' = [s \in Symbols |-> Unread]
    /\ UNCHANGED <<panel, matcher, feed, later, online, rooms, snapshot, wire,
                   selected, kept, ticks, shown, since, settles, faults, restarts>>
PollTickers ==
    /\ panel = "list" /\ selects = 1 /\ \A s \in Symbols : rest[s] = None
    /\ rest' = [s \in Symbols |-> Unread]
    /\ UNCHANGED <<panel, matcher, feed, later, gateway, selected, kept, ticks, shown, since, bounds>>

\* What the API reads: the cached book or an empty one, the newest trade, the
\* candles (which lag behind the trades).
OrderbookRest(s) == {IF cache[s] = Missing THEN 0 ELSE cache[s]}
TradesRest(s) == {IF trades[s] = <<>> THEN 0 ELSE Head(trades[s])}
CandlesRest(s) == {0} \cup {trades[s][i] : i \in DOMAIN trades[s]}
RestRead(s) ==
    /\ rest[s] = Unread
    /\ \E v \in CASE panel = "orderbook" -> OrderbookRest(s)
                  [] panel = "chart"     -> CandlesRest(s)
                  [] OTHER               -> TradesRest(s) :
          rest' = [rest EXCEPT ![s] = v]
    /\ UNCHANGED <<panel, matcher, feed, later, gateway, selected, kept, ticks, shown, since, bounds>>

\* The answer.  Book, chart and tape take it whatever symbol they show by now.
Answered(s) ==
    /\ rest[s] >= 0 /\ rest' = [rest EXCEPT ![s] = None]
    /\ UNCHANGED <<panel, matcher, feed, later, gateway, selected, ticks, bounds>>
OrderbookAnswer(s) ==
    /\ panel = "orderbook" /\ Answered(s)
    /\ shown' = <<Msg("rest", s, rest[s])>> /\ since' = Mine(s)
    /\ UNCHANGED kept
ChartAnswer(s) ==
    /\ panel = "chart" /\ Answered(s)
    /\ shown' = <<Msg("rest", s, rest[s])>> /\ since' = Mine(s)
    /\ UNCHANGED kept
\* The tape gets the trades from the one that was the newest when they were read.
TapeRows(s, n) == [i \in 1..(Len(trades[s]) - n) |-> Msg("rest", s, trades[s][n + i])]
TapeAnswer(s) ==
    /\ panel = "tape" /\ Answered(s)
    /\ \E n \in 0..Len(trades[s]) :
          /\ IF rest[s] = 0 THEN n = Len(trades[s])
             ELSE n < Len(trades[s]) /\ trades[s][n + 1] = rest[s]
          /\ shown' = Cut(TapeRows(s, n))
    /\ since' = Mine(s)
    /\ UNCHANGED kept
\* The strip takes it for its symbol, and when it brings something new.
StripAnswer(s) ==
    /\ panel = "strip" /\ Answered(s)
    /\ IF s = selected /\ rest[s] \notin {0, kept[s]}
       THEN shown' = <<Msg("rest", s, rest[s])>> /\ since' = "own"
       ELSE UNCHANGED <<shown, since>>
    /\ kept' = [kept EXCEPT ![s] = IF rest[s] = 0 THEN None ELSE rest[s]]
\* The list takes the answers of all its requests together.
ListAnswer ==
    /\ panel = "list" /\ \A s \in Symbols : rest[s] >= 0
    /\ kept' = rest /\ rest' = [s \in Symbols |-> None]
    /\ UNCHANGED <<panel, matcher, feed, later, gateway, selected, ticks, shown, since, bounds>>

\* The socket handler of a panel: the event is for the symbol it shows.
\* Mutant: the symbol is not compared.
TakesAny(m) == selected # NoSymbol /\ (m.via = "snapshot" => panel = "orderbook")
Takes(m) == m.symbol = selected /\ (m.via = "snapshot" => panel = "orderbook")
Received(m) ==
    /\ wire # <<>> /\ m = Head(wire) /\ wire' = Tail(wire)
    /\ UNCHANGED <<panel, matcher, feed, later, online, joining, rooms, snapshot,
                   selected, rest, kept, bounds>>
\* The book is replaced, the last bar is extended or begun, the price is set.
PanelReceive ==
    LET m == Head(wire) IN
    /\ panel \in {"orderbook", "chart", "strip"} /\ Received(m)
    /\ IF Takes(m) THEN shown' = <<m>> /\ since' = "own" ELSE UNCHANGED <<shown, since>>
    /\ UNCHANGED ticks
TapeReceive ==
    LET m == Head(wire) IN
    /\ panel = "tape" /\ Received(m)
    /\ IF Takes(m) THEN shown' = Cut(<<m>> \o shown) /\ since' = "own"
       ELSE UNCHANGED <<shown, since>>
    /\ UNCHANGED ticks
\* A live tick replaces the tick of its market, whatever was polled.
ListReceive ==
    LET m == Head(wire) IN
    /\ panel = "list" /\ Received(m)
    /\ ticks' = [ticks EXCEPT ![m.symbol] = m]
    /\ UNCHANGED <<shown, since>>
Row(s) == IF ticks[s] # NoTick THEN ticks[s] ELSE Msg("poll", s, kept[s])

Flow(s) ==
    \/ TimerFires(s) \/ WriteDone(s) \/ Fanout(s) \/ FanoutAgain(s)
    \/ Subscribe(s) \/ SnapshotRead(s) \/ SnapshotSend(s) \/ RestRead(s)
    \/ OrderbookAnswer(s) \/ ChartAnswer(s) \/ TapeAnswer(s) \/ StripAnswer(s)
Disturb(s) ==
    \/ SettleTrade(s) \/ SettleCancel(s) \/ SettleRollsBack(s) \/ WriteFails(s) \/ CoolsDown(s)
    \/ CacheExpires(s) \/ FanoutFails(s) \/ Select(s)
Browser == OpenList \/ PollTickers \/ ListAnswer \/ PanelReceive \/ TapeReceive \/ ListReceive

Next == (\E s \in Symbols : Flow(s) \/ Disturb(s)) \/ Browser \/ Restart \/ Disconnect \/ Reconnect
Spec == Init /\ [][Next]_vars

-----------------------------------------------------------------------------
(* Properties.                                                             *)

\* Once something for the selected symbol has come, the panel shows that
\* symbol: rooms of symbols left long ago are still joined and their events
\* still arrive, and only a late answer of the query of another symbol can put
\* a foreign book, chart or tape there (OrderbookPanel, ChartPanel, TradesPanel).
OwnSymbolUnlessLateAnswer ==
    since = "own" => \A i \in DOMAIN shown :
                        i = 1 \/ (\A j \in DOMAIN shown : shown[j].via = "rest") =>
                        shown[i].symbol = selected

\* Along the live feed neither a panel nor a row of the market list goes back
\* to an older book or trade of a symbol, whatever is lost by disconnecting; it
\* goes back only by an answer, by the snapshot sent on subscribing, or by an
\* event that was retried.
FeedNeverGoesBack ==
    [][/\ LET old == shown[1]
              new == shown'[1]
          IN  (shown # <<>> /\ shown' # <<>> /\ old.symbol = new.symbol
                 /\ old.via = "feed" /\ new.via = "feed") => new.version >= old.version
       /\ \A s \in Symbols :
             Row(s).via = "feed" /\ Row(s)'.via = "feed" => Row(s)'.version >= Row(s).version]_vars

\* The tape shows a trade at most twice, and then one copy is from the query
\* and one from the feed.
TapeCopies ==
    \A i, j \in DOMAIN shown :
      (i < j /\ shown[i].symbol = shown[j].symbol /\ shown[i].version = shown[j].version) =>
         shown[i].via # "rest" /\ shown[j].via = "rest"

\* The throttle loses no last write: when nothing is on its way to the cache
\* and no timer is set, the cache holds the current book, unless a write
\* failed, the key expired or a transaction rolled back (SnapshotService).
CacheCaughtUp ==
    panel \in Cached /\ faults = 0 =>
      \A s \in Symbols : writing[s] = <<>> /\ ~pending[s] => cache[s] = book[s]

\* What the proofs of the four rest on.  The types:
Message == [via : {"feed", "again", "snapshot", "rest", "poll"}, symbol : Symbols \cup {NoSymbol},
            version : Int]
TypeOK ==
    /\ book \in [Symbols -> Int] /\ saved \in [Symbols -> Int] /\ cache \in [Symbols -> Int]
    /\ pending \in [Symbols -> BOOLEAN] /\ writing \in [Symbols -> Seq(Int)]
    /\ trades \in [Symbols -> Seq(Nat)] /\ settles \in Nat /\ faults \in Nat
    /\ feed \in [Symbols -> Seq(Message)] /\ later \subseteq Message /\ wire \in Seq(Message)
    /\ snapshot \in [Symbols -> Int] /\ rest \in [Symbols -> Int] /\ kept \in [Symbols -> Int]
    /\ shown \in Seq(Message) /\ ticks \in [Symbols -> Message]

\* The last write under way, or else the cache, holds the book, unless a timer
\* is set.
CacheInv ==
    panel \in Cached /\ faults = 0 =>
      \A s \in Symbols : ~pending[s] =>
         book[s] = IF writing[s] = <<>> THEN cache[s] ELSE writing[s][Len(writing[s])]

\* Messages come along the feed f in order and, where the tape is concerned,
\* once: what was received comes before what is on the wire w, and that before
\* what has not been fanned out; what waits for its retry is nowhere else.
Content(f) == {f[i] : i \in DOMAIN f}
Contents(f) == UNION {Content(f[s]) : s \in Symbols}
Apart(m, n) == panel = "tape" => m.symbol # n.symbol \/ m.version # n.version
Before(m, n) ==
    /\ Apart(m, n)
    /\ m.symbol = n.symbol /\ m.via = "feed" /\ n.via = "feed" => m.version <= n.version
Ordered(f) == \A i, j \in DOMAIN f : i < j => Before(f[i], f[j])
Sent(m, newest) ==
    \/ m.via \in {"feed", "again"} /\ m.version <= newest
    \/ m.via \in {"snapshot", "poll"} /\ panel # "tape"
FeedFits(f, w, past, waiting, newest) ==
    /\ Ordered(w) /\ \A s \in Symbols : Ordered(f[s])
    /\ \A m \in Content(w), n \in Contents(f) : Before(m, n)
    /\ \A m \in past, n \in Content(w) \cup Contents(f) : Before(m, n)
    /\ \A m \in waiting, n \in past \cup Content(w) \cup Contents(f) : Apart(m, n)
    /\ \A m, n \in waiting : m # n => Apart(m, n)
    /\ \A m \in past \cup Content(w) : Sent(m, newest)
    /\ \A m \in Contents(f) \cup waiting : m.via \in {"feed", "again"} /\ m.version <= newest
    /\ \A m \in Content(w) : m.symbol \in Symbols /\ m.via # "rest"
    /\ \A s \in Symbols : \A m \in Content(f[s]) : m.symbol = s
Past == {m \in Content(shown) : m.via # "rest"}
        \cup {ticks[s] : s \in {t \in Symbols : panel = "list"}}
FeedInv ==
    /\ FeedFits(feed, wire, Past, later, settles)
    /\ panel # "orderbook" => \A s \in Symbols : snapshot[s] = None
    /\ \A s \in Symbols : ticks[s] = NoTick \/ (ticks[s].symbol = s /\ panel = "list")

\* A trade is in the table once; only the tape shows more than one thing.
TapeInv ==
    /\ \A s \in Symbols : \A i, j \in DOMAIN trades[s] : trades[s][i] = trades[s][j] => i = j
    /\ \A s \in Symbols : \A i \in DOMAIN trades[s] : trades[s][i] <= settles
    /\ panel # "tape" => Len(shown) <= 1
DataInv == TypeOK /\ CacheInv /\ FeedInv /\ TapeInv /\ OwnSymbolUnlessLateAnswer /\ TapeCopies
=============================================================================
