------------------------------ MODULE WebClient ------------------------------
(***************************************************************************)
(* One tab of the web SPA: the session, the trade page with its order      *)
(* ticket and open orders, and the HTTP client between them and the API.   *)
(*                                                                         *)
(* The access token lives in this tab's store, the refresh cookie in the   *)
(* browser, where other tabs share it.  A request that is answered 401 is  *)
(* sent once more with whatever token the cookie yields by then, and that  *)
(* token becomes the tab's session.  Logging out forgets the token and     *)
(* leaves the cookie.  The ticket is React state: it is lost whenever the  *)
(* form is mounted anew, and its effects run in the order they are written.*)
(***************************************************************************)
EXTENDS Integers, Sequences, FiniteSets

CONSTANTS Users, NoUser,
          Symbols, Home,      \* the markets, and the one the start page shows
          Prices, NoPrice,
          Layouts,            \* window widths of useBreakpoint
          MaxClicks,          \* bound: what the user does, in this tab and in others
          MaxRequests,        \* bound: requests of the tab
          MaxExpiries,        \* bound: times the tokens or the cookie run out
          MaxFaults           \* bound: requests that fail without an answer

ASSUME WebClientAssumption ==
    /\ NoUser \notin Users /\ NoPrice \notin Prices
    /\ Home \in Symbols /\ Layouts \subseteq {"mobile", "tablet", "desktop"}
    /\ {MaxClicks, MaxRequests, MaxExpiries, MaxFaults} \subseteq Nat

VARIABLES
    page,      \* the route: login, trade, or account (portfolio and deposit)
    symbol,    \* the market of the route
    layout, mobileTab,
    drawer,    \* marketOpen: the market list over a narrow page
    picked,    \* pickedPrice of the trade page
    ticket,    \* the order form's state; "for" is history: the market it was entered for
    pending,   \* the requests the mounted form, order list and login form wait for
    session,   \* the auth store: the user it shows and the access token
    cookie,    \* whose refresh token the browser holds
    account,   \* the kept answer about wallets and open orders: whose, and which orders
    request,   \* HTTP requests of this tab, in order
    orders,    \* Order rows
    displaced, \* history: users whose cookie expired or was replaced by another user's
    clicks, expiries, faults

screen == <<page, symbol, layout, mobileTab, drawer, picked, ticket, pending>>
auth == <<session, cookie, displaced>>
bounds == <<expiries, faults>>
vars == <<screen, auth, account, request, orders, clicks, bounds>>

NoToken == [user |-> NoUser, live |-> FALSE]
NoSession == [user |-> NoUser, token |-> NoToken]
NoPick == [price |-> NoPrice, for |-> Home]
Blank == [price |-> NoPrice, for |-> Home, qty |-> FALSE, mode |-> "limit"]
Nobody == [user |-> NoUser, open |-> {}]
NonePending == [order |-> 0, cancel |-> 0, login |-> 0]
Fresh(u) == [user |-> u, token |-> [user |-> u, live |-> TRUE]]

\* A new tab, with or without a session kept from before.
Init ==
    /\ page = "trade" /\ symbol = Home
    /\ layout \in Layouts /\ mobileTab = "chart" /\ drawer = FALSE
    /\ picked = NoPick /\ ticket = Blank /\ pending = NonePending
    /\ \E u \in Users \cup {NoUser} :
          /\ session = IF u = NoUser THEN NoSession ELSE Fresh(u)
          /\ cookie = u
    /\ account = Nobody /\ request = <<>> /\ orders = <<>> /\ displaced = {}
    /\ clicks = 0 /\ expiries = 0 /\ faults = 0

-----------------------------------------------------------------------------
(* The trade page and its ticket.                                          *)

FormShown(p, l, tab) == p = "trade" /\ (l # "mobile" \/ tab = "form")
BookShown == page = "trade" /\ (layout # "mobile" \/ mobileTab = "book")
ListShown == page = "trade" /\ (layout # "mobile" \/ mobileTab = "log")
Mounted == FormShown(page, layout, mobileTab)
Covered == layout # "desktop" /\ drawer
CanOrder == Mounted /\ ~Covered /\ session.user # NoUser

Click == clicks < MaxClicks /\ clicks' = clicks + 1

\* The form's two effects.
PickEffect(t, pick) ==
    IF pick.price = NoPrice THEN t ELSE [t EXCEPT !.price = pick.price, !.for = pick.for]
SymbolEffect(t) == [t EXCEPT !.price = NoPrice, !.for = Home, !.qty = FALSE]

\* A mounted form runs both effects, in the order they are written.
\* Mutant: the other order.
MountSwapped(pick) == PickEffect(SymbolEffect(Blank), pick)
Mount(pick) == SymbolEffect(PickEffect(Blank, pick))

\* A form that appears is mounted, one that goes loses its state.
Shows(p, l, tab, pick) ==
    /\ page' = p /\ layout' = l /\ mobileTab' = tab /\ picked' = pick
    /\ drawer' = (p = page /\ drawer)
    /\ ticket' = CASE ~FormShown(p, l, tab) -> Blank
                   [] FormShown(p, l, tab) /\ Mounted /\ l = layout -> ticket
                   [] OTHER -> Mount(pick)
    /\ pending' = IF l = layout /\ p = page /\ tab = mobileTab THEN pending ELSE NonePending

Resize(l) ==
    /\ page = "trade" /\ l # layout
    /\ Click /\ Shows(page, l, mobileTab, picked)
    /\ UNCHANGED <<symbol, auth, account, request, orders, bounds>>

SwitchTab(tab) ==
    /\ page = "trade" /\ layout = "mobile" /\ ~Covered /\ tab # mobileTab
    /\ Click /\ Shows(page, layout, tab, picked)
    /\ UNCHANGED <<symbol, auth, account, request, orders, bounds>>

\* The button of the symbol strip, and the cross or the backdrop.
ToggleDrawer ==
    /\ page = "trade" /\ layout # "desktop" /\ drawer' = ~drawer
    /\ UNCHANGED <<page, symbol, layout, mobileTab, picked, ticket, pending, auth, account,
                   request, orders, clicks, bounds>>

\* A row of the market list, beside the page or in the drawer, which stays open;
\* or the shell's tab, which leads to Home.  Page and form stay mounted.
SelectSymbol(s) ==
    /\ page = "trade" /\ s # symbol
    /\ layout = "desktop" \/ drawer \/ s = Home
    /\ Click /\ symbol' = s
    /\ ticket' = IF Mounted THEN SymbolEffect(ticket) ELSE ticket
    /\ UNCHANGED <<page, layout, mobileTab, drawer, picked, pending, auth, account, request,
                   orders, bounds>>

\* A click on a level of the book; a price that was picked before changes
\* nothing.  On a phone it also turns to the form.
PickPrice(p) ==
    LET pick == [price |-> p, for |-> symbol] IN
    /\ BookShown /\ ~Covered /\ Click
    /\ IF layout = "mobile" THEN Shows(page, layout, "form", pick)
       ELSE /\ picked' = pick
            /\ ticket' = IF p = picked.price THEN ticket ELSE PickEffect(ticket, pick)
            /\ UNCHANGED <<page, layout, mobileTab, drawer, pending>>
    /\ UNCHANGED <<symbol, auth, account, request, orders, bounds>>

Fill(t) ==
    /\ CanOrder /\ t # ticket /\ Click /\ ticket' = t
    /\ UNCHANGED <<page, symbol, layout, mobileTab, drawer, picked, pending, auth, account, request,
                   orders, bounds>>
TypePrice(p) == ticket.mode = "limit" /\ Fill([ticket EXCEPT !.price = p, !.for = symbol])
\* Typed, or a share of the balance (onPct).
TypeQty == Fill([ticket EXCEPT !.qty = TRUE])
SetMode(m) == Fill([ticket EXCEPT !.mode = m])

-----------------------------------------------------------------------------
(* The HTTP client: lib/api.                                               *)

Live(i) == request[i].stage # "done"
Step(i, stage) == request' = [request EXCEPT ![i].stage = stage]

\* A request that has ended is forgotten, but for who ordered what.
New(kind, arg, asker, token) ==
    [kind |-> kind, arg |-> arg, asker |-> asker, token |-> token, cookie |-> NoUser,
     seen |-> {}, retried |-> FALSE, theirs |-> FALSE, stage |-> "sent"]
End(i) ==
    request' = [request EXCEPT ![i] =
        IF @.kind = "order" THEN [@ EXCEPT !.stage = "done", !.token = NoToken, !.cookie = NoUser]
        ELSE [New("ended", 0, NoUser, NoToken) EXCEPT !.stage = "done"]]

\* The request interceptor attaches the token the store holds now.
Send(kind, arg) ==
    /\ Len(request) < MaxRequests
    /\ request' = Append(request, New(kind, arg, session.user, session.token))

\* The button waits for the mutation of the form that is mounted, not for one
\* of an earlier mount.
Ready == pending.order = 0 /\ ticket.qty /\ (ticket.mode = "limit" => ticket.price # NoPrice)
Submit ==
    /\ CanOrder /\ Ready /\ Click
    /\ Send("order", [market |-> symbol,
                      price |-> IF ticket.mode = "limit" THEN ticket.price ELSE NoPrice,
                      for |-> ticket.for])
    /\ pending' = [pending EXCEPT !.order = Len(request')]
    /\ UNCHANGED <<page, symbol, layout, mobileTab, drawer, picked, ticket, auth, account, orders, bounds>>

CancelOrder(n) ==
    /\ ListShown /\ ~Covered /\ session.user # NoUser /\ pending.cancel = 0
    /\ n \in account.open
    /\ Click /\ Send("cancel", n)
    /\ pending' = [pending EXCEPT !.cancel = Len(request')]
    /\ UNCHANGED <<page, symbol, layout, mobileTab, drawer, picked, ticket, auth, account, orders, bounds>>

\* Wallets and open orders are polled every three seconds under keys that do
\* not name the user, by the tabs below the chart, the form and the account
\* pages; one poll at a time.
TabsPoll == ListShown
Poll ==
    /\ session.user # NoUser /\ (Mounted \/ TabsPoll \/ page = "account")
    /\ \A i \in DOMAIN request : request[i].kind = "poll" => ~Live(i)
    /\ Send("poll", 0)
    /\ UNCHANGED <<screen, auth, account, orders, clicks, bounds>>

\* Log in or sign up; NoUser stands for wrong credentials.  A page that was left
\* and opened again does not know of the request it has sent.
SubmitLogin(u) ==
    /\ page = "login" /\ pending.login = 0
    /\ Click /\ Send("login", u)
    /\ pending' = [pending EXCEPT !.login = Len(request')]
    /\ UNCHANGED <<page, symbol, layout, mobileTab, drawer, picked, ticket, auth, account, orders, bounds>>

\* JwtAccessStrategy.validate: the caller is the user of the bearer token.
\* Mutant: the user of the cookie.
CallerByCookie(r) == cookie
Caller(r) == r.token.user

\* OrderService.listOpen
OpenOrdersOf(u) == {n \in DOMAIN orders : orders[n].by = u /\ orders[n].active}

\* The API answers: 401 to a token that is missing or past its 900 s
\* (JwtAuthGuard) and to wrong credentials.
Answer(i, stage) == Step(i, stage) /\ orders' = orders
HandleLogin(i) == Answer(i, IF request[i].arg # NoUser THEN "ok" ELSE "401")
HandleOrder(i) ==
    /\ Step(i, "ok")
    /\ orders' = Append(orders, [by |-> Caller(request[i]), from |-> i, active |-> TRUE])
HandleCancel(i) ==
    LET n == request[i].arg IN
    IF n \in OpenOrdersOf(Caller(request[i]))
    THEN Step(i, "ok") /\ orders' = [orders EXCEPT ![n].active = FALSE]
    ELSE Answer(i, "refused")
HandlePoll(i) ==
    /\ request' = [request EXCEPT ![i].stage = "ok", ![i].seen = OpenOrdersOf(Caller(request[i]))]
    /\ orders' = orders

Handle(i) ==
    /\ request[i].stage = "sent"
    /\ CASE request[i].kind = "login" -> HandleLogin(i)
         [] request[i].kind # "login" /\ ~request[i].token.live -> Answer(i, "401")
         [] request[i].kind = "order" /\ request[i].token.live -> HandleOrder(i)
         [] request[i].kind = "cancel" /\ request[i].token.live -> HandleCancel(i)
         [] request[i].kind = "poll" /\ request[i].token.live -> HandlePoll(i)
    /\ UNCHANGED <<screen, auth, account, clicks, bounds>>

\* setTokens, with the Set-Cookie of the same answer.
SetTokens(u) ==
    /\ session' = Fresh(u)
    /\ cookie' = u
    /\ displaced' = (displaced \cup ({cookie} \ {NoUser})) \ {u}

\* A 2xx arrives; what a component would set after its unmount is dropped.
ArriveLogin(i) ==
    /\ request[i].kind = "login" /\ request[i].stage = "ok"
    /\ End(i)
    /\ SetTokens(request[i].arg)
    /\ symbol' = Home
    /\ IF page # "trade" THEN Shows("trade", layout, "chart", NoPick)
       ELSE UNCHANGED <<page, layout, mobileTab, drawer, picked, pending>>
            /\ ticket' = IF Mounted /\ symbol # Home THEN SymbolEffect(ticket) ELSE ticket
    /\ UNCHANGED <<account, orders, clicks, bounds>>

ArriveOrder(i) ==
    /\ request[i].kind = "order" /\ request[i].stage = "ok"
    /\ End(i)
    /\ IF pending.order = i
       THEN ticket' = [ticket EXCEPT !.qty = FALSE] /\ pending' = [pending EXCEPT !.order = 0]
       ELSE UNCHANGED <<ticket, pending>>
    /\ UNCHANGED <<page, symbol, layout, mobileTab, drawer, picked, auth, account, orders, clicks, bounds>>

ArrivePoll(i) ==
    /\ request[i].kind = "poll" /\ request[i].stage = "ok"
    /\ End(i)
    /\ account' = [user |-> request[i].token.user, open |-> request[i].seen]
    /\ UNCHANGED <<screen, auth, orders, clicks, bounds>>

ArriveCancel(i) ==
    /\ request[i].kind = "cancel" /\ request[i].stage = "ok"
    /\ End(i)
    /\ pending' = IF pending.cancel = i THEN [pending EXCEPT !.cancel = 0] ELSE pending
    /\ UNCHANGED <<page, symbol, layout, mobileTab, drawer, picked, ticket, auth, account, orders, clicks, bounds>>

\* The request ends in an error.
Gone(i) ==
    /\ End(i)
    /\ pending' = [k \in DOMAIN pending |-> IF pending[k] = i THEN 0 ELSE pending[k]]
    /\ UNCHANGED <<symbol, layout, mobileTab, drawer, picked, ticket, account, orders, clicks>>

\* The response interceptor: the first 401 of a request asks for a new token,
\* with the cookie of this moment; a second one, and any other error, is the
\* caller's.
\* Mutant: the retry goes through the interceptor again.
Arrive401Always(i) ==
    /\ request[i].stage = "401"
    /\ request' = [request EXCEPT ![i].stage = "refresh", ![i].retried = TRUE, ![i].cookie = cookie,
                                  ![i].theirs = request[i].asker \in displaced]
    /\ UNCHANGED <<screen, auth, account, orders, clicks, bounds>>
Arrive401(i) ==
    /\ request[i].stage = "401"
    /\ IF request[i].retried THEN Gone(i) /\ UNCHANGED <<page, auth, bounds>>
       ELSE /\ request' = [request EXCEPT ![i].stage = "refresh", ![i].retried = TRUE,
                                          ![i].cookie = cookie,
                                          ![i].theirs = request[i].asker \in displaced]
            /\ UNCHANGED <<screen, auth, account, orders, clicks, bounds>>

ArriveRefused(i) ==
    /\ request[i].stage = "refused" /\ Gone(i) /\ UNCHANGED <<page, auth, bounds>>

\* AuthService.refresh: tokens for the user of the cookie, who becomes the
\* session; the request is sent again in that user's name.
Refresh(i) ==
    /\ request[i].stage = "refresh" /\ request[i].cookie # NoUser
    /\ SetTokens(request[i].cookie)
    /\ request' = [request EXCEPT ![i].stage = "sent", ![i].token = Fresh(request[i].cookie).token]
    /\ UNCHANGED <<screen, account, orders, clicks, bounds>>

\* The refresh is refused or fails: clear, whoever is signed in by now.  A page
\* that is Protected gives way to the login page.
Clear ==
    /\ session' = NoSession
    /\ page' = IF page = "account" THEN "login" ELSE page
    /\ UNCHANGED <<cookie, displaced>>
RefreshRefused(i) ==
    /\ request[i].stage = "refresh" /\ request[i].cookie = NoUser
    /\ Clear /\ Gone(i) /\ UNCHANGED bounds
RefreshFails(i) ==
    /\ request[i].stage = "refresh" /\ faults < MaxFaults
    /\ faults' = faults + 1
    /\ Clear /\ Gone(i) /\ UNCHANGED expiries

\* No answer reaches the tab, whether or not the API has handled the request.
\* Mutant: the interceptor does not look at the status.
LostRetried(i) ==
    /\ request[i].stage \in {"sent", "ok"} /\ ~request[i].retried
    /\ faults < MaxFaults /\ faults' = faults + 1
    /\ request' = [request EXCEPT ![i].stage = "refresh", ![i].retried = TRUE, ![i].cookie = cookie,
                                  ![i].theirs = request[i].asker \in displaced]
    /\ UNCHANGED <<screen, auth, account, orders, clicks, expiries>>
Lost(i) ==
    /\ request[i].stage \in {"sent", "ok"}
    /\ faults < MaxFaults /\ faults' = faults + 1
    /\ Gone(i) /\ UNCHANGED <<page, auth, expiries>>

-----------------------------------------------------------------------------
(* Sessions.                                                               *)

\* The logout button forgets the tokens of the store; the cookie stays.
Logout ==
    /\ page # "login" /\ ~Covered /\ session.user # NoUser
    /\ Click /\ session' = NoSession
    /\ Shows("login", layout, "chart", NoPick)
    /\ UNCHANGED <<symbol, cookie, displaced, account, request, orders, bounds>>

\* The links of the shell and of the login page.  Portfolio and deposit are
\* Protected; the logo leads through "/" and so mounts the trade page anew.
GoLogin ==
    /\ page = "trade" /\ ~Covered /\ session.user = NoUser
    /\ Click /\ Shows("login", layout, "chart", NoPick)
    /\ UNCHANGED <<symbol, auth, account, request, orders, bounds>>
GoAccount ==
    /\ page = "trade" /\ ~Covered
    /\ Click /\ Shows(IF session.user = NoUser THEN "login" ELSE "account", layout, "chart", NoPick)
    /\ UNCHANGED <<symbol, auth, account, request, orders, bounds>>
GoHome ==
    /\ ~Covered
    /\ Click /\ page' = "trade" /\ symbol' = Home /\ mobileTab' = "chart" /\ drawer' = FALSE
    /\ picked' = NoPick /\ ticket' = Blank /\ pending' = NonePending
    /\ UNCHANGED <<layout, auth, account, request, orders, bounds>>

\* Another tab signs a user in: this tab's store does not hear of it.
OtherTab(u) ==
    /\ u # cookie
    /\ Click /\ cookie' = u
    /\ displaced' = (displaced \cup ({cookie} \ {NoUser})) \ {u}
    /\ UNCHANGED <<screen, session, account, request, orders, bounds>>

\* 900 s pass: no access token issued so far is good any longer.
TokensExpire ==
    /\ expiries < MaxExpiries /\ expiries' = expiries + 1
    /\ session' = [session EXCEPT !.token.live = FALSE]
    /\ request' = [i \in DOMAIN request |-> [request[i] EXCEPT !.token.live = FALSE]]
    /\ UNCHANGED <<screen, cookie, displaced, account, orders, clicks, faults>>

CookieExpires ==
    /\ cookie # NoUser
    /\ expiries < MaxExpiries /\ expiries' = expiries + 1
    /\ cookie' = NoUser /\ displaced' = displaced \cup {cookie}
    /\ UNCHANGED <<screen, session, account, request, orders, clicks, faults>>

\* The matcher fills an order.
Settle(n) ==
    /\ orders[n].active
    /\ orders' = [orders EXCEPT ![n].active = FALSE]
    /\ UNCHANGED <<screen, auth, account, request, clicks, bounds>>

-----------------------------------------------------------------------------
Ticket ==
    \/ \E l \in Layouts : Resize(l)
    \/ \E tab \in {"chart", "book", "form", "log"} : SwitchTab(tab)
    \/ \E s \in Symbols : SelectSymbol(s)
    \/ \E p \in Prices : PickPrice(p) \/ TypePrice(p)
    \/ ToggleDrawer \/ TypeQty \/ \E m \in {"limit", "market"} : SetMode(m)
User ==
    \/ Submit \/ \E n \in DOMAIN orders : CancelOrder(n)
    \/ \E u \in Users \cup {NoUser} : SubmitLogin(u)
    \/ Logout \/ GoLogin \/ GoAccount \/ GoHome \/ \E u \in Users : OtherTab(u)
Network(i) ==
    \/ Handle(i) \/ ArriveLogin(i) \/ ArriveOrder(i) \/ ArrivePoll(i) \/ ArriveCancel(i)
    \/ Arrive401(i) \/ ArriveRefused(i) \/ Refresh(i) \/ RefreshRefused(i)

Next ==
    \/ Ticket \/ User \/ Poll
    \/ \E i \in DOMAIN request : Network(i) \/ Lost(i) \/ RefreshFails(i)
    \/ TokensExpire \/ CookieExpires \/ \E n \in DOMAIN orders : Settle(n)
Spec == Init /\ [][Next]_vars

(* The API answers what it gets, and the browser delivers the answers.     *)
FairSpec == Spec /\ WF_vars(\E i \in DOMAIN request : Network(i))

-----------------------------------------------------------------------------
(* Properties.                                                             *)

\* An order belongs to the user who clicked, whatever expired, raced or was
\* signed out in between; it goes to another user only as the retry of a 401,
\* and only when the browser's cookie had gone over to that user by then.
OrderIsTheAskers ==
    \A n \in DOMAIN orders :
        LET o == orders[n]  r == request[orders[n].from] IN
        o.by # r.asker => r.retried /\ r.theirs

\* One click is one order at most: a request is sent again only when the API
\* has refused it, never when its answer was lost.
OneOrderPerClick ==
    \A m, n \in DOMAIN orders : orders[m].from = orders[n].from => m = n

\* The price in the ticket was entered or picked for the market it is shown
\* with, through every change of market, tab and window width, and no order is
\* sent at a price meant for another market.
PriceIsOfMarket ==
    /\ ticket.price # NoPrice => ticket.for = symbol
    /\ \A i \in DOMAIN request : request[i].kind = "order" /\ request[i].arg.price # NoPrice =>
           request[i].arg.for = request[i].arg.market

\* The strengthening of the three.  A form that is not on the screen holds no
\* price; whoever is signed in or has ordered holds the cookie or has lost it
\* on record; an order's request carries its asker's token unless it is the
\* retry of a 401; and a request that made an order is past every retry.
TicketFits ==
    /\ ticket \in [price : Prices \cup {NoPrice}, for : Symbols, qty : BOOLEAN,
                   mode : {"limit", "market"}]
    /\ picked \in [price : Prices \cup {NoPrice}, for : Symbols] /\ symbol \in Symbols
    /\ ticket.price # NoPrice => Mounted /\ ticket.for = symbol
Known(u) == u = cookie \/ u \in displaced
SessionFits ==
    /\ DOMAIN session = {"user", "token"} /\ DOMAIN session.token = {"user", "live"}
    /\ session.token.user = session.user
    /\ session.user # NoUser => Known(session.user)
RequestFits(r) ==
    /\ DOMAIN r = DOMAIN New("order", 0, NoUser, NoToken) /\ DOMAIN r.token = {"user", "live"}
    /\ r.stage = "done" \/ r.kind \in {"login", "order", "cancel", "poll"}
    /\ r.kind = "order" =>
           /\ r.arg.price # NoPrice => r.arg.for = r.arg.market
           /\ r.asker # NoUser /\ Known(r.asker)
           /\ r.stage # "done" /\ r.token.user # r.asker => r.retried /\ r.theirs
           /\ r.stage = "refresh" => r.retried /\ (r.cookie \in {NoUser, r.asker} \/ r.theirs)
OrderFits(o) ==
    /\ DOMAIN o = {"by", "from", "active"} /\ o.from \in DOMAIN request
    /\ request[o.from].kind = "order" /\ request[o.from].stage \in {"ok", "done"}
    /\ o.by # request[o.from].asker => request[o.from].retried /\ request[o.from].theirs
IsSequence(s) == s \in Seq({s[i] : i \in DOMAIN s})
WebInv ==
    /\ TicketFits /\ SessionFits
    /\ IsSequence(request) /\ \A i \in DOMAIN request : RequestFits(request[i])
    /\ IsSequence(orders) /\ \A n \in DOMAIN orders : OrderFits(orders[n])
    /\ OneOrderPerClick

\* Every request ends, with an answer or an error: a 401 that a new token does
\* not cure is not retried for ever.
RequestsEnd ==
    \A i \in 1..MaxRequests :
        i \in DOMAIN request /\ Live(i) ~> i \in DOMAIN request /\ ~Live(i)
=============================================================================
