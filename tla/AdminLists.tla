------------------------------ MODULE AdminLists ------------------------------
(***************************************************************************)
(* The paged tables of the admin SPA over the list endpoints of the API:   *)
(* outbox rows, dead letters and orders, with the operator actions their   *)
(* rows offer, and users, trades and the audit log.                        *)
(*                                                                         *)
(* An operator walks a list by cursor while rows are inserted and change   *)
(* their state under the walk.  The SPA keeps the answers it got, by       *)
(* filter and cursor, and offers buttons from those answers, however old.  *)
(* One behaviour is about one screen, chosen at the start.                 *)
(***************************************************************************)
EXTENDS Integers, Sequences, FiniteSets, SequencesExt

CONSTANTS Operators,
          RoleSets,    \* the realm roles an operator may have
          Take,        \* rows of a page
          MaxRows,     \* bound: rows ever inserted
          MaxFailures, \* bound: failing sends of the relay
          MaxClicks    \* bound: clicks that page, filter, refresh or open a dialog

ASSUME AdminListsAssumption ==
    /\ Take \in Nat \ {0}
    /\ {MaxRows, MaxFailures, MaxClicks} \subseteq Nat

Screens == {"outbox", "dlq", "orders", "users", "trades", "audit"}

\* The filters a page offers and the one it opens with.  Where a filter is
\* typed (a user, a market, an actor), "some" stands for what was typed; it
\* selects rows by something that never changes.
OutboxPage == [filters |-> {"pending", "failed", "processed", "all"}, first |-> "pending"]
DlqPage == [filters |-> {"pending", "replayed-failed", "replayed-success", "dismissed", "all"},
            first |-> "pending"]
OrdersPage == [filters |-> {"OPEN,PARTIAL", "all"}, first |-> "OPEN,PARTIAL"]
UsersPage == [filters |-> {"all", "some"}, first |-> "all"]
TradesPage == [filters |-> {"all", "some"}, first |-> "all"]
AuditPage == [filters |-> {"all", "some"}, first |-> "all"]

PageOf(s) == CASE s = "outbox" -> OutboxPage
               [] s = "dlq"    -> DlqPage
               [] s = "orders" -> OrdersPage
               [] s = "users"  -> UsersPage
               [] s = "trades" -> TradesPage
               [] s = "audit"  -> AuditPage

\* The routes of the console and of the API with the roles they ask for.
App == [outbox |-> {"SUPPORT_READ", "MARKET_OPS"}, dlq |-> {"SUPPORT_READ", "MARKET_OPS"},
        orders |-> {"SUPPORT_READ"}, users |-> {"SUPPORT_READ"}, trades |-> {"SUPPORT_READ"},
        audit |-> {"AUDITOR", "SUPPORT_READ"}]
Readers == {"SUPPORT_READ", "MARKET_OPS", "WALLET_ADJUST"}
AdminOutbox == [list |-> Readers, retry |-> {"MARKET_OPS"}, skip |-> {"MARKET_OPS"}]
AdminDlq == [list |-> Readers, replay |-> {"MARKET_OPS"}, dismiss |-> {"MARKET_OPS"}]
AdminOrders == [list |-> Readers, cancel |-> {"MARKET_OPS"}]
AdminUsers == [list |-> Readers]
AdminTrades == [list |-> Readers]
AdminAudit == [list |-> Readers \cup {"AUDITOR"}]
Routes == [outbox |-> AdminOutbox, dlq |-> AdminDlq, orders |-> AdminOrders, users |-> AdminUsers,
           trades |-> AdminTrades, audit |-> AdminAudit]

VARIABLES
    screen,
    table,     \* the rows, in id order: state, failed attempts, trace, parent
    relay,     \* outbox: the ids of the relay's batch still to be sent
    view,      \* per operator: realm roles, filter, cursor stack, kept answers
    dialog,    \* per operator: the ConfirmDialog, open or closed
    request,   \* per operator and kind: the mutation under way
    published, \* outbox rows and dead letters sent to their topic
    done,      \* history: operator writes that took effect
    late,      \* history: rows whose failure was recorded after they were processed
    failures, clicks

listVars == <<screen, table, relay, view, dialog, request, published, done, late,
              failures, clicks>>
history == <<done, late>>
bounds == <<failures, clicks>>

NoDialog == [kind |-> "none", id |-> 0]
NoRequest == [id |-> 0, stage |-> "none"]
Kinds == {"retry", "skip", "replay", "dismiss", "cancel"}
Ids == DOMAIN table
NewRow(parent) == [state |-> "pending", attempts |-> 0, trace |-> "none", parent |-> parent]

ListsInit ==
    /\ screen \in Screens
    /\ table = <<>> /\ relay = <<>>
    /\ \E roles \in [Operators -> RoleSets] :
          view = [o \in Operators |-> [roles |-> roles[o], filter |-> PageOf(screen).first,
                                       stack |-> <<>>, kept |-> << >>]]
    /\ dialog = [o \in Operators |-> NoDialog]
    /\ request = [o \in Operators |-> [kind \in Kinds |-> NoRequest]]
    /\ published = {} /\ done = {} /\ late = {}
    /\ failures = 0 /\ clicks = 0

-----------------------------------------------------------------------------
(* The list endpoints.                                                     *)

Before(oldestFirst, i, j) == IF oldestFirst THEN i < j ELSE i > j
FirstOf(n, ids, oldestFirst) ==
    {i \in ids : Cardinality({j \in ids : Before(oldestFirst, j, i)}) < n}
LastOf(ids, oldestFirst) == CHOOSE i \in ids : \A j \in ids : ~Before(oldestFirst, i, j)

\* cursor and skip 1: the database starts at the cursor row's place and drops
\* the first row it finds, the cursor row or, when that no longer matches, the
\* one after it.
FromCursor(match, oldestFirst, c) ==
    LET found == {i \in match : c = 0 \/ i = c \/ Before(oldestFirst, c, i)}
    IN  {i \in found : c = 0 \/ \E j \in found : Before(oldestFirst, j, i)}

\* The buttons a row carries.
OutboxOffers(r) ==
    IF r.state = "pending" THEN {"skip"} \cup (IF r.attempts > 0 THEN {"retry"} ELSE {}) ELSE {}
DlqOffers(r) == IF r.state = "pending" THEN {"replay", "dismiss"} ELSE {}
OrderOffers(r) == IF r.state = "pending" THEN {"cancel"} ELSE {}
Offers(r) == CASE screen = "outbox" -> OutboxOffers(r)
               [] screen = "dlq"    -> DlqOffers(r)
               [] screen = "orders" -> OrderOffers(r)
               [] OTHER -> {}

\* A page of the matching rows that remain: one row more is read to know
\* whether there is a next page.  The page keeps the buttons of its rows.
\* "match" is history: the rows that matched.
\* Mutant: the cursor is the extra row.
PagedCursorExtra(match, oldestFirst, remain, c) ==
    LET kept  == FirstOf(Take + 1, FromCursor(match, oldestFirst, c), oldestFirst) \cap remain
        items == FirstOf(Take, kept, oldestFirst)
    IN  [offers |-> [i \in items |-> Offers(table[i])],
         next   |-> IF Cardinality(kept) > Take THEN LastOf(kept, oldestFirst) ELSE 0,
         match  |-> match]
Paged(match, oldestFirst, remain, c) ==
    LET kept  == FirstOf(Take + 1, FromCursor(match, oldestFirst, c), oldestFirst) \cap remain
        items == FirstOf(Take, kept, oldestFirst)
    IN  [offers |-> [i \in items |-> Offers(table[i])],
         next   |-> IF Cardinality(kept) > Take THEN LastOf(items, oldestFirst) ELSE 0,
         match  |-> match]

\* What is to be sent is listed oldest first.
OutboxWhere(f, r) ==
    CASE f = "pending"   -> r.state = "pending"
      [] f = "failed"    -> r.state = "pending" /\ r.attempts > 0
      [] f = "processed" -> r.state = "processed"
      [] f = "all"       -> TRUE
OutboxList(f, c) == Paged({i \in Ids : OutboxWhere(f, table[i])}, f # "processed", Ids, c)

\* The split of the replayed dead letters is made on the page, after the query.
Split == {"replayed-failed", "replayed-success"}
DlqWhere(f, r) ==
    CASE f \in {"pending", "dismissed"} -> r.state = f
      [] f \in Split -> r.state = "replayed"
      [] f = "all"   -> TRUE
HasDescendant(i) == \E j \in Ids : table[j].parent = i
DlqList(f, c) ==
    Paged({i \in Ids : DlqWhere(f, table[i])}, FALSE,
          {i \in Ids : f \in Split => (HasDescendant(i) <=> f = "replayed-failed")}, c)

OrderList(f, c) ==
    Paged({i \in Ids : f = "OPEN,PARTIAL" => table[i].state = "pending"}, FALSE, Ids, c)

\* Users, trades and audit entries are searched by what never changes.
Searched(f) == {i \in Ids : f = "some" => i % 2 = 1}
UserList(f, c) == Paged(Searched(f), FALSE, Ids, c)
TradeList(f, c) == Paged(Searched(f), FALSE, Ids, c)
AuditList(f, c) == Paged(Searched(f), FALSE, Ids, c)

Page(f, c) == CASE screen = "outbox" -> OutboxList(f, c)
                [] screen = "dlq"    -> DlqList(f, c)
                [] screen = "orders" -> OrderList(f, c)
                [] screen = "users"  -> UserList(f, c)
                [] screen = "trades" -> TradeList(f, c)
                [] screen = "audit"  -> AuditList(f, c)

-----------------------------------------------------------------------------
(* The screen: filter, cursor stack, answers kept by filter and cursor.    *)

Cursor(o) == IF view[o].stack = <<>> THEN 0 ELSE Last(view[o].stack)
Key(o) == <<view[o].filter, Cursor(o)>>
Has(o) == Key(o) \in DOMAIN view[o].kept
Shown(o) == view[o].kept[Key(o)]

\* The query cache: an answer takes the place of an older one of its key.
Keep(held, key, answer) == [k \in DOMAIN held \cup {key} |-> IF k = key THEN answer ELSE held[k]]

\* The screen moves to a key.  An answer that is kept may be fresh enough to be
\* shown again; otherwise the list is read.  (The strip is disabled while a
\* list is being fetched, so nothing of the walk happens in between.)
Goes(o, filter, stack, held) ==
    LET c   == IF stack = <<>> THEN 0 ELSE Last(stack)
        new == Keep(held, <<filter, c>>, Page(filter, c))
    IN  /\ \E kept \in {new} \cup (IF <<filter, c>> \in DOMAIN held THEN {held} ELSE {}) :
              view' = [view EXCEPT ![o].filter = filter, ![o].stack = stack, ![o].kept = kept]
        /\ clicks < MaxClicks /\ clicks' = clicks + 1
        /\ UNCHANGED <<screen, table, relay, dialog, request, published, history, failures>>

\* The route's wrapper in the console, and the guard of the endpoint.
HasAnyRole(o, roles) == view[o].roles \cap roles # {}
Protected(o) == HasAnyRole(o, App[screen])
CanActivate(o, route) == HasAnyRole(o, Routes[screen][route])

\* The list is read again where the screen stands.
Reread(o) == [view[o] EXCEPT !.kept = Keep(@, Key(o), Page(view[o].filter, Cursor(o)))]

OpenScreen(o) ==
    /\ Protected(o) /\ CanActivate(o, "list") /\ ~Has(o)
    /\ view' = [view EXCEPT ![o] = Reread(o)]
    /\ UNCHANGED <<screen, table, relay, dialog, request, published, history, bounds>>

\* A change of the filter empties the stack, but only after the page was
\* rendered with the new filter and the old cursor, whose list is read too.
\* Mutant: the stack survives it.
Rendered(o, f) == Keep(view[o].kept, <<f, Cursor(o)>>, Page(f, Cursor(o)))
SetFilterKeepStack(o, f) ==
    Has(o) /\ f # view[o].filter /\ Goes(o, f, view[o].stack, Rendered(o, f))
SetFilter(o, f) == Has(o) /\ f # view[o].filter /\ Goes(o, f, <<>>, Rendered(o, f))

PushNext(o) ==
    /\ Has(o) /\ Shown(o).next # 0
    /\ Goes(o, view[o].filter, Append(view[o].stack, Shown(o).next), view[o].kept)
PopPrev(o) ==
    view[o].stack # <<>> /\ Goes(o, view[o].filter, Front(view[o].stack), view[o].kept)
Refetch(o) ==
    /\ screen \in {"outbox", "dlq"} /\ Has(o)
    /\ view' = [view EXCEPT ![o] = Reread(o)]
    /\ clicks < MaxClicks /\ clicks' = clicks + 1
    /\ UNCHANGED <<screen, table, relay, dialog, request, published, history, failures>>

-----------------------------------------------------------------------------
(* The buttons: a dialog names the row as it was shown; the server reads   *)
(* the row again, and writes it in a second query.                         *)

\* canMutate, canCancel
CanMutate(o) == HasAnyRole(o, {"MARKET_OPS"})
OpenDialog(o, i, kind) ==
    /\ CanMutate(o) /\ Has(o) /\ i \in DOMAIN Shown(o).offers /\ kind \in Shown(o).offers[i]
    /\ dialog[o] = NoDialog
    /\ clicks < MaxClicks /\ clicks' = clicks + 1
    /\ dialog' = [dialog EXCEPT ![o] = [kind |-> kind, id |-> i]]
    /\ UNCHANGED <<screen, table, relay, view, request, published, history, failures>>

\* The backdrop closes the dialog even while its request is under way.
CloseDialog(o) ==
    /\ dialog[o] # NoDialog
    /\ dialog' = [dialog EXCEPT ![o] = NoDialog]
    /\ UNCHANGED <<screen, table, relay, view, request, published, history, bounds>>

\* Every kind is a mutation of its own; the button waits for its own request,
\* that of the dead letters for either.
Waits(kind) == IF kind \in {"replay", "dismiss"} THEN {"replay", "dismiss"} ELSE {kind}
Confirm(o) ==
    /\ dialog[o] # NoDialog
    /\ \A kind \in Waits(dialog[o].kind) : request[o][kind].stage \in {"none", "reload"}
    /\ request' = [request EXCEPT ![o][dialog[o].kind] = [id |-> dialog[o].id, stage |-> "read"]]
    /\ UNCHANGED <<screen, table, relay, view, dialog, published, history, bounds>>

\* A row that is already processed, resolved or closed is refused, and so is an
\* operator without the role; the dialog stays.
Check(o, kind) ==
    /\ request[o][kind].stage = "read"
    /\ request' = [request EXCEPT ![o][kind] =
           IF ~CanActivate(o, kind) \/ table[@.id].state # "pending" THEN NoRequest
           ELSE [@ EXCEPT !.stage = IF kind = "replay" THEN "send" ELSE "write"]]
    /\ UNCHANGED <<screen, table, relay, view, dialog, published, history, bounds>>

\* replay publishes before it resolves the row.
SendReplay(o) ==
    /\ request[o]["replay"].stage = "send"
    /\ published' = published \cup {request[o]["replay"].id}
    /\ request' = [request EXCEPT ![o]["replay"].stage = "write"]
    /\ UNCHANGED <<screen, table, relay, view, dialog, history, bounds>>

\* The producer is not connected, or the send throws, with or without effect:
\* the dead letter stays unresolved.
SendReplayFails(o) ==
    /\ request[o]["replay"].stage = "send"
    /\ failures < MaxFailures /\ failures' = failures + 1
    /\ published' \in {published, published \cup {request[o]["replay"].id}}
    /\ request' = [request EXCEPT ![o]["replay"] = NoRequest]
    /\ UNCHANGED <<screen, table, relay, view, dialog, history, clicks>>

\* The write of each action; a cancel leaves the row to the matcher.
Retried(r) == [r EXCEPT !.attempts = 0, !.trace = "none"]
Skipped(r) == [r EXCEPT !.state = "processed", !.trace = "SKIPPED"]
Replayed(r) == [r EXCEPT !.state = "replayed"]
Dismissed(r) == [r EXCEPT !.state = "dismissed"]
Written(kind, r) == CASE kind = "retry"   -> Retried(r)
                      [] kind = "skip"    -> Skipped(r)
                      [] kind = "replay"  -> Replayed(r)
                      [] kind = "dismiss" -> Dismissed(r)
                      [] kind = "cancel"  -> r

\* On success the dialog closes, whatever it shows by then, and the list is
\* read again.
Write(o, kind) ==
    LET id == request[o][kind].id IN
    /\ request[o][kind].stage = "write"
    /\ table' = [table EXCEPT ![id] = Written(kind, @)]
    /\ done' = done \cup {<<kind, id>>}
    /\ request' = [request EXCEPT ![o][kind].stage = "reload"]
    /\ dialog' = [dialog EXCEPT ![o] = NoDialog]
    /\ UNCHANGED <<screen, relay, view, published, late, bounds>>
Reload(o, kind) ==
    /\ request[o][kind].stage = "reload"
    /\ view' = [view EXCEPT ![o] = Reread(o)]
    /\ request' = [request EXCEPT ![o][kind] = NoRequest]
    /\ UNCHANGED <<screen, table, relay, dialog, published, history, bounds>>

\* The update of the row fails; a replay has been sent all the same.
WriteFails(o, kind) ==
    /\ request[o][kind].stage = "write"
    /\ failures < MaxFailures /\ failures' = failures + 1
    /\ request' = [request EXCEPT ![o][kind] = NoRequest]
    /\ UNCHANGED <<screen, table, relay, view, dialog, published, history, clicks>>

-----------------------------------------------------------------------------
(* What changes the tables meanwhile.                                      *)

Others == <<screen, view, dialog, request, clicks>>

\* A new row: an outbox event, a dead letter, an order, a log entry.
Insert ==
    /\ Len(table) < MaxRows
    /\ table' = Append(table, NewRow(0))
    /\ UNCHANGED <<relay, published, history, failures>> /\ UNCHANGED Others

\* A replayed message fails again: dlq-monitor inserts it with its lineage.
InsertDescendant ==
    /\ screen = "dlq" /\ Len(table) < MaxRows
    /\ \E i \in published : ~HasDescendant(i) /\ table' = Append(table, NewRow(i))
    /\ UNCHANGED <<relay, published, history, failures>> /\ UNCHANGED Others

\* The matcher closes an order.
CloseOrder ==
    /\ screen = "orders"
    /\ \E i \in Ids : /\ table[i].state = "pending"
                      /\ table' = [table EXCEPT ![i].state = "closed"]
    /\ UNCHANGED <<relay, published, history, failures>> /\ UNCHANGED Others

\* The relay reads the pending rows, then sends and marks them one by one.
Poll ==
    /\ screen = "outbox" /\ relay = <<>>
    /\ LET pending == {i \in Ids : OutboxWhere("pending", table[i])} IN
       pending # {} /\ relay' = SetToSortSeq(pending, <)
    /\ UNCHANGED <<table, published, history, failures>> /\ UNCHANGED Others
Mark ==
    /\ relay # <<>> /\ relay' = Tail(relay)
    /\ published' = published \cup {Head(relay)}
    /\ table' = [table EXCEPT ![Head(relay)].state = "processed"]
    /\ UNCHANGED <<history, failures>> /\ UNCHANGED Others
\* Mutant: a row that cannot be sent is given up.
SendFailsGivesUp ==
    /\ relay # <<>> /\ relay' = Tail(relay)
    /\ failures < MaxFailures /\ failures' = failures + 1
    /\ table' = [table EXCEPT ![Head(relay)].attempts = 1, ![Head(relay)].trace = "error",
                            ![Head(relay)].state = "processed"]
    /\ UNCHANGED <<published, history>> /\ UNCHANGED Others
SendFails ==
    /\ relay # <<>> /\ relay' = Tail(relay)
    /\ failures < MaxFailures /\ failures' = failures + 1
    /\ table' = [table EXCEPT ![Head(relay)].attempts = 1, ![Head(relay)].trace = "error"]
    /\ late' = IF table[Head(relay)].state = "processed" THEN late \cup {Head(relay)} ELSE late
    /\ UNCHANGED <<published, done>> /\ UNCHANGED Others

Walk(o) ==
    \/ OpenScreen(o) \/ PushNext(o) \/ PopPrev(o) \/ Refetch(o)
    \/ \E f \in PageOf(screen).filters : SetFilter(o, f)
Act(o) ==
    \/ \E i \in Ids, kind \in Kinds : OpenDialog(o, i, kind)
    \/ CloseDialog(o) \/ Confirm(o) \/ SendReplay(o) \/ SendReplayFails(o)
    \/ \E kind \in Kinds : Check(o, kind) \/ Write(o, kind) \/ Reload(o, kind) \/ WriteFails(o, kind)
World == Insert \/ InsertDescendant \/ CloseOrder \/ Poll \/ Mark \/ SendFails

ListsNext == (\E o \in Operators : Walk(o) \/ Act(o)) \/ World
ListsSpec == ListsInit /\ [][ListsNext]_listVars

-----------------------------------------------------------------------------
(* Properties.                                                             *)

\* The pages of a walk, from the first page to the one shown.
Cursors(o) == {0} \cup Range(view[o].stack)
Walked(o) == {<<view[o].filter, c>> : c \in Cursors(o)}
Answered(o) == Walked(o) \subseteq DOMAIN view[o].kept
ItemIds(a) == DOMAIN a.offers

\* A walk to the last page shows every row that matched the filter on each of
\* the walk's answers, whatever was inserted or changed between them, except
\* at most one row for each cursor row that had left the filter when its page
\* was read (Prisma's skip then drops a row that was never shown).  The two
\* replayed filters, cut down after the query, are the other exception: their
\* walks may stop early (useCursorPagination and the list endpoints).
WalkIsComplete ==
    \A o \in Operators :
      (view[o].filter \notin Split /\ Answered(o) /\ Shown(o).next = 0) =>
        LET answers == {view[o].kept[key] : key \in Walked(o)}
            steady  == {i \in Ids : \A a \in answers : i \in a.match}
            seen    == UNION {ItemIds(a) : a \in answers}
            holes   == {c \in Range(view[o].stack) : c \notin view[o].kept[<<view[o].filter, c>>].match}
        IN  Cardinality(steady \ seen) <= Cardinality(holes)

\* No row is listed on two pages of one walk, though pages are read at
\* different times and some are shown again from an older answer.
NoRowTwice ==
    \A o \in Operators : Answered(o) =>
      \A c, d \in Cursors(o) : c # d =>
        ItemIds(view[o].kept[<<view[o].filter, c>>])
           \cap ItemIds(view[o].kept[<<view[o].filter, d>>]) = {}

\* The strengthening that makes the two inductive.  An answer lists rows that
\* matched and come after its cursor, and its next cursor is the last of them.
\* Between the two it misses no row that matched, but for one: the first one,
\* when the cursor row did not match.
OldestFirst(f) == screen = "outbox" /\ f # "processed"
After(f, c, i) == c = 0 \/ Before(OldestFirst(f), c, i)
FirstAfter(f, c, i, match) ==
    i \in match /\ After(f, c, i) /\ \A j \in match : After(f, c, j) => ~Before(OldestFirst(f), j, i)
AnswerOK(f, c, a) ==
    /\ a.match \subseteq Ids /\ ItemIds(a) \subseteq a.match
    /\ \A i \in ItemIds(a) : After(f, c, i)
    /\ a.next # 0 => /\ a.next \in ItemIds(a)
                     /\ \A i \in ItemIds(a) : ~Before(OldestFirst(f), a.next, i)
    /\ f \notin Split =>
         \A i \in a.match : After(f, c, i) /\ (a.next = 0 \/ ~Before(OldestFirst(f), a.next, i)) =>
            \/ i \in ItemIds(a)
            \/ c # 0 /\ c \notin a.match /\ FirstAfter(f, c, i, a.match)

\* The cursors of a walk advance, and each is the next cursor of the answer
\* that is kept for the one before.
WalkOK(f, stack, kept) ==
    /\ stack \in Seq(Nat \ {0})
    /\ \A key \in DOMAIN kept :
          key = <<key[1], key[2]>> /\ key[2] \in Nat /\ AnswerOK(key[1], key[2], kept[key])
    /\ \A j, k \in DOMAIN stack : j < k => Before(OldestFirst(f), stack[j], stack[k])
    /\ \A k \in DOMAIN stack :
          LET key == <<f, IF k = 1 THEN 0 ELSE stack[k - 1]>>
          IN  key \in DOMAIN kept /\ kept[key].next = stack[k]
ListsInv ==
    /\ screen \in Screens
    /\ table \in Seq(Range(table))
    /\ \A i \in Ids : DOMAIN table[i] = {"state", "attempts", "trace", "parent"}
    /\ view = [o \in Operators |-> view[o]]
    /\ \A o \in Operators : /\ DOMAIN view[o] = {"roles", "filter", "stack", "kept"}
                            /\ WalkOK(view[o].filter, view[o].stack, view[o].kept)

\* An outbox row that is processed without having been sent was skipped by an
\* operator, and the row says so unless a retry or a failure of the relay that
\* was under way wrote over the trace (AdminOutboxService.skip).
DropIsExplained ==
    screen = "outbox" =>
      \A i \in Ids : table[i].state = "processed" /\ i \notin published =>
        /\ <<"skip", i>> \in done
        /\ table[i].trace = "SKIPPED" \/ <<"retry", i>> \in done \/ i \in late
=============================================================================
