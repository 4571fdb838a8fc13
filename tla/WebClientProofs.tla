--------------------------- MODULE WebClientProofs ---------------------------
(***************************************************************************)
(* Proofs about the web client: the ticket's price belongs to its market,  *)
(* a click makes one order at most, and an order is its asker's unless the *)
(* browser's cookie had gone over to someone else, for any number of       *)
(* users, markets, requests, expiries and lost answers.                    *)
(***************************************************************************)
EXTENDS WebClient, TLAPS

-----------------------------------------------------------------------------
(* Sequences and records.                                                  *)

\* Replacing an element leaves a sequence, with the same domain.
LEMMA ReplaceFacts ==
    ASSUME NEW s, IsSequence(s), NEW i \in DOMAIN s, NEW e
    PROVE  LET t == [s EXCEPT ![i] = e] IN
           /\ IsSequence(t) /\ DOMAIN t = DOMAIN s /\ t[i] = e
           /\ \A j \in DOMAIN s : j # i => t[j] = s[j]
<1> DEFINE t == [s EXCEPT ![i] = e]
           S == {s[j] : j \in DOMAIN s}
           T == {t[j] : j \in DOMAIN t}
<1>1. s \in Seq(S)
  BY DEF IsSequence
<1>2. DOMAIN t = DOMAIN s /\ t[i] = e /\ \A j \in DOMAIN s : j # i => t[j] = s[j]
  OBVIOUS
<1>3. DOMAIN s = 1..Len(s) /\ Len(s) \in Nat
  <2> HIDE DEF S
  <2> QED BY <1>1
<1>4. t \in [1..Len(s) -> T]
  BY <1>2, <1>3
<1>5. t \in Seq(T)
  <2> HIDE DEF T, t
  <2> QED BY <1>3, <1>4
<1> QED
  BY <1>2, <1>5 DEF IsSequence

\* Appending an element leaves a sequence, one longer.
LEMMA AppendFacts ==
    ASSUME NEW s, IsSequence(s), NEW e
    PROVE  /\ IsSequence(Append(s, e)) /\ Len(s) \in Nat /\ DOMAIN s = 1..Len(s)
           /\ DOMAIN Append(s, e) = 1..(Len(s) + 1) /\ Len(Append(s, e)) = Len(s) + 1
           /\ Append(s, e)[Len(s) + 1] = e
           /\ \A j \in DOMAIN s : Append(s, e)[j] = s[j]
<1> DEFINE S == {s[j] : j \in DOMAIN s}
           t == Append(s, e)
           T == {t[j] : j \in DOMAIN t}
<1>1. s \in Seq(S)
  BY DEF IsSequence
<1>2. Len(s) \in Nat /\ DOMAIN s = 1..Len(s) /\ s \in Seq(S \cup {e})
  <2> HIDE DEF S
  <2> QED BY <1>1
<1>3. /\ t \in Seq(S \cup {e}) /\ DOMAIN t = 1..(Len(s) + 1) /\ Len(t) = Len(s) + 1
      /\ t[Len(s) + 1] = e /\ \A j \in DOMAIN s : t[j] = s[j]
  <2> HIDE DEF S
  <2> QED BY <1>2
<1>4. t \in [1..(Len(s) + 1) -> T]
  <2> HIDE DEF S, t
  <2>1. t \in [1..Len(t) -> S \cup {e}]
    BY <1>3
  <2> QED BY <1>3, <2>1
<1>5. t \in Seq(T)
  <2> HIDE DEF T, t, S
  <2> QED BY <1>2, <1>4
<1> QED
  BY <1>2, <1>3, <1>5 DEF IsSequence

\* The fields of a request.
Fields == {"kind", "arg", "asker", "token", "cookie", "seen", "retried", "theirs", "stage"}
LEMMA NewFacts ==
    ASSUME NEW kind, NEW arg, NEW asker, NEW token
    PROVE  LET r == New(kind, arg, asker, token) IN
           /\ DOMAIN r = Fields /\ r.kind = kind /\ r.arg = arg /\ r.asker = asker
           /\ r.token = token /\ r.cookie = NoUser /\ ~r.retried /\ ~r.theirs /\ r.stage = "sent"
<1> QED
  BY DEF New, Fields

-----------------------------------------------------------------------------
(* The ticket.                                                             *)

TicketType == [price : Prices \cup {NoPrice}, for : Symbols, qty : BOOLEAN, mode : {"limit", "market"}]
PickType == [price : Prices \cup {NoPrice}, for : Symbols]

\* The effects keep the type; the one of the symbol leaves no price.
LEMMA EffectFacts ==
    ASSUME NEW t \in TicketType, NEW pick \in PickType
    PROVE  /\ Blank \in TicketType /\ Blank.price = NoPrice /\ NoPick \in PickType
           /\ PickEffect(t, pick) \in TicketType
           /\ SymbolEffect(t) \in TicketType /\ SymbolEffect(t).price = NoPrice
<1> QED
  BY WebClientAssumption DEF TicketType, PickType, Blank, NoPick, PickEffect, SymbolEffect

\* A form that is mounted anew starts without a price, although a picked one
\* is there: the effect of the symbol runs last.
LEMMA MountFacts ==
    ASSUME NEW pick \in PickType
    PROVE  Mount(pick) \in TicketType /\ Mount(pick).price = NoPrice
<1>1. Blank \in TicketType
  BY WebClientAssumption DEF Blank, TicketType
<1>2. PickEffect(Blank, pick) \in TicketType
  BY <1>1, EffectFacts
<1> QED
  BY <1>2, EffectFacts DEF Mount

\* What a change of the screen does to the ticket.
LEMMA ShowsTicket ==
    ASSUME TicketFits, NEW p, NEW l, NEW tab, NEW pick \in PickType, Shows(p, l, tab, pick),
           symbol' \in Symbols, symbol' = symbol \/ ~Mounted
    PROVE  TicketFits'
<1>1. /\ page' = p /\ layout' = l /\ mobileTab' = tab /\ picked' = pick
      /\ ticket' = CASE ~FormShown(p, l, tab) -> Blank
                     [] FormShown(p, l, tab) /\ Mounted /\ l = layout -> ticket
                     [] OTHER -> Mount(pick)
  BY DEF Shows
<1>2. Mounted' <=> FormShown(p, l, tab)
  BY <1>1 DEF Mounted, FormShown
<1>3. ticket \in TicketType /\ Blank \in TicketType /\ Blank.price = NoPrice
  BY EffectFacts DEF TicketFits, TicketType
<1>4. Mount(pick) \in TicketType /\ Mount(pick).price = NoPrice
  BY MountFacts
<1>5. picked' \in PickType
  BY <1>1
<1>6. \/ ticket' = Blank \/ ticket' = Mount(pick)
      \/ ticket' = ticket /\ FormShown(p, l, tab) /\ Mounted
  BY <1>1
<1>7. CASE ticket' = Blank \/ ticket' = Mount(pick)
  BY <1>3, <1>4, <1>5, <1>7 DEF TicketFits, TicketType, PickType
<1>8. CASE ticket' = ticket /\ FormShown(p, l, tab) /\ Mounted
  BY <1>2, <1>3, <1>5, <1>8 DEF TicketFits, TicketType, PickType
<1> QED
  BY <1>6, <1>7, <1>8

\* Every step of the screen keeps the ticket's price that of its market.
LEMMA ScreenKeepsTicket ==
    ASSUME TicketFits, Ticket
    PROVE  TicketFits'
<1> USE DEF TicketType, PickType
<1>1. ticket \in TicketType /\ picked \in PickType /\ symbol \in Symbols
  BY DEF TicketFits
<1>2. ASSUME NEW l \in Layouts, Resize(l) PROVE TicketFits'
  BY <1>1, <1>2, ShowsTicket DEF Resize
<1>3. ASSUME NEW tab, SwitchTab(tab) PROVE TicketFits'
  BY <1>1, <1>3, ShowsTicket DEF SwitchTab
<1>4. ASSUME NEW s \in Symbols, SelectSymbol(s) PROVE TicketFits'
  <2>1. /\ symbol' = s /\ picked' = picked /\ (Mounted' <=> Mounted)
        /\ ticket' = IF Mounted THEN SymbolEffect(ticket) ELSE ticket
    BY <1>4 DEF SelectSymbol, Mounted, FormShown
  <2>2. SymbolEffect(ticket) \in TicketType /\ SymbolEffect(ticket).price = NoPrice
    BY <1>1, EffectFacts
  <2> QED
    BY <1>1, <2>1, <2>2 DEF TicketFits
<1>5. ASSUME NEW p \in Prices, PickPrice(p) PROVE TicketFits'
  <2> DEFINE pick == [price |-> p, for |-> symbol]
  <2>1. pick \in PickType /\ pick.price = p /\ pick.for = symbol /\ p # NoPrice
    BY <1>1, WebClientAssumption
  <2>2. symbol' = symbol
    BY <1>5 DEF PickPrice
  <2>3. CASE layout = "mobile"
    <3>1. Shows(page, layout, "form", pick)
      BY <1>5, <2>3 DEF PickPrice
    <3> HIDE DEF pick
    <3> QED BY <1>1, <2>1, <2>2, <3>1, ShowsTicket
  <2>4. CASE layout # "mobile"
    <3>1. /\ picked' = pick /\ (Mounted' <=> Mounted) /\ Mounted
          /\ ticket' = ticket \/ ticket' = PickEffect(ticket, pick)
      BY <1>5, <2>4 DEF PickPrice, BookShown, Mounted, FormShown
    <3>2. PickEffect(ticket, pick) = [ticket EXCEPT !.price = p, !.for = symbol]
      BY <2>1 DEF PickEffect
    <3>3. PickEffect(ticket, pick) \in TicketType /\ PickEffect(ticket, pick).for = symbol
      BY <1>1, <2>1, <3>2
    <3> QED
      BY <1>1, <2>1, <2>2, <3>1, <3>3 DEF TicketFits
  <2> QED
    BY <2>3, <2>4
<1>6. ASSUME NEW t \in TicketType, Fill(t), t.price # NoPrice => t.for = symbol PROVE TicketFits'
  <2>1. /\ ticket' = t /\ symbol' = symbol /\ picked' = picked /\ Mounted /\ (Mounted' <=> Mounted)
    BY <1>6 DEF Fill, CanOrder, Mounted, FormShown
  <2> QED
    BY <1>1, <1>6, <2>1 DEF TicketFits
<1>7. ASSUME NEW p \in Prices, TypePrice(p) PROVE TicketFits'
  <2> DEFINE t == [ticket EXCEPT !.price = p, !.for = symbol]
  <2>1. t \in TicketType /\ t.for = symbol /\ Fill(t)
    BY <1>1, <1>7 DEF TypePrice
  <2> HIDE DEF t
  <2> QED BY <1>6, <2>1
<1>8. ASSUME TypeQty PROVE TicketFits'
  <2> DEFINE t == [ticket EXCEPT !.qty = TRUE]
  <2>1. t \in TicketType /\ t.for = ticket.for /\ t.price = ticket.price /\ Fill(t)
    BY <1>1, <1>8 DEF TypeQty
  <2> HIDE DEF t
  <2> QED BY <1>6, <2>1 DEF TicketFits
<1>9. ASSUME NEW m \in {"limit", "market"}, SetMode(m) PROVE TicketFits'
  <2> DEFINE t == [ticket EXCEPT !.mode = m]
  <2>1. t \in TicketType /\ t.for = ticket.for /\ t.price = ticket.price /\ Fill(t)
    BY <1>1, <1>9 DEF SetMode
  <2> HIDE DEF t
  <2> QED BY <1>6, <2>1 DEF TicketFits
<1>10. ASSUME ToggleDrawer PROVE TicketFits'
  BY <1>10 DEF ToggleDrawer, TicketFits, Mounted, FormShown
<1> QED
  BY <1>2, <1>3, <1>4, <1>5, <1>7, <1>8, <1>9, <1>10 DEF Ticket

\* So does a step that leaves the screen as it is, or changes it but for the
\* ticket, the market and whether the form is shown.
LEMMA FrameKeepsTicket ==
    ASSUME TicketFits, UNCHANGED <<symbol, picked, ticket>>, Mounted' <=> Mounted
    PROVE  TicketFits'
<1> QED
  BY DEF TicketFits

\* And leaving the page, coming back to it, and an answer that arrives.
LEMMA OthersKeepTicket ==
    ASSUME TicketFits
    PROVE  /\ Logout \/ GoLogin \/ GoAccount \/ GoHome => TicketFits'
           /\ \A i : ArriveLogin(i) \/ ArriveOrder(i) => TicketFits'
<1> USE DEF TicketType, PickType
<1>1. ticket \in TicketType /\ picked \in PickType /\ symbol \in Symbols /\ Home \in Symbols
  BY WebClientAssumption DEF TicketFits
<1>2. NoPick \in PickType /\ Blank \in TicketType /\ Blank.price = NoPrice
  BY <1>1, EffectFacts
<1>3. ASSUME Logout \/ GoLogin \/ GoAccount PROVE TicketFits'
  <2>1. symbol' = symbol /\ \E p : Shows(p, layout, "chart", NoPick)
    BY <1>3 DEF Logout, GoLogin, GoAccount
  <2> QED
    BY <1>1, <1>2, <2>1, ShowsTicket
<1>4. ASSUME GoHome PROVE TicketFits'
  BY <1>1, <1>2, <1>4 DEF GoHome, TicketFits
<1>5. ASSUME NEW i, ArriveLogin(i) PROVE TicketFits'
  <2>1. symbol' = Home
    BY <1>5 DEF ArriveLogin
  <2>2. CASE page # "trade"
    <3>1. Shows("trade", layout, "chart", NoPick) /\ ~Mounted
      BY <1>5, <2>2 DEF ArriveLogin, Mounted, FormShown
    <3> QED
      BY <1>1, <1>2, <2>1, <3>1, ShowsTicket
  <2>3. CASE page = "trade"
    <3>1. /\ picked' = picked /\ (Mounted' <=> Mounted)
          /\ ticket' = IF Mounted /\ symbol # Home THEN SymbolEffect(ticket) ELSE ticket
      BY <1>5, <2>3 DEF ArriveLogin, Mounted, FormShown
    <3>2. SymbolEffect(ticket) \in TicketType /\ SymbolEffect(ticket).price = NoPrice
      BY <1>1, EffectFacts
    <3> QED
      BY <1>1, <2>1, <3>1, <3>2 DEF TicketFits
  <2> QED
    BY <2>2, <2>3
<1>6. ASSUME NEW i, ArriveOrder(i) PROVE TicketFits'
  <2>1. /\ picked' = picked /\ symbol' = symbol /\ (Mounted' <=> Mounted)
        /\ ticket' = ticket \/ ticket' = [ticket EXCEPT !.qty = FALSE]
    BY <1>6 DEF ArriveOrder, Mounted, FormShown
  <2> QED
    BY <1>1, <2>1 DEF TicketFits
<1> QED
  BY <1>3, <1>4, <1>5, <1>6

-----------------------------------------------------------------------------
(* The session and the cookie.                                             *)

\* Whoever holds the cookie, or has lost it on record, still does.
KnownStays == \A v : v # NoUser /\ Known(v) => v = cookie' \/ v \in displaced'

\* The tokens of a new session are its user's.
LEMMA FreshFacts ==
    ASSUME NEW u
    PROVE  /\ DOMAIN Fresh(u) = {"user", "token"} /\ DOMAIN Fresh(u).token = {"user", "live"}
           /\ Fresh(u).user = u /\ Fresh(u).token.user = u /\ Fresh(u).token.live
           /\ DOMAIN NoSession = {"user", "token"} /\ DOMAIN NoToken = {"user", "live"}
           /\ NoSession.user = NoUser /\ NoSession.token = NoToken /\ NoToken.user = NoUser
<1> QED
  BY DEF Fresh, NoSession, NoToken

\* The steps that set tokens, forget them, or move the cookie.
LEMMA SetTokensSession ==
    ASSUME NEW u, SetTokens(u)
    PROVE  SessionFits' /\ KnownStays
<1>1. session' = Fresh(u) /\ cookie' = u /\ displaced' = (displaced \cup ({cookie} \ {NoUser})) \ {u}
  BY DEF SetTokens
<1>2. SessionFits'
  BY <1>1, FreshFacts DEF SessionFits, Known
<1> QED
  BY <1>1, <1>2 DEF KnownStays, Known
LEMMA SessionStep ==
    ASSUME SessionFits
    PROVE  /\ UNCHANGED auth => SessionFits' /\ KnownStays
           /\ session' = NoSession /\ UNCHANGED <<cookie, displaced>> => SessionFits' /\ KnownStays
           /\ \A u : OtherTab(u) => SessionFits' /\ KnownStays
           /\ CookieExpires => SessionFits' /\ KnownStays
           /\ TokensExpire => SessionFits' /\ KnownStays
<1>1. ASSUME UNCHANGED auth PROVE SessionFits' /\ KnownStays
  BY <1>1 DEF auth, SessionFits, KnownStays, Known
<1>2. ASSUME session' = NoSession, UNCHANGED <<cookie, displaced>> PROVE SessionFits' /\ KnownStays
  BY <1>2, FreshFacts DEF SessionFits, KnownStays, Known
<1>3. ASSUME session' = session, KnownStays PROVE SessionFits'
  BY <1>3 DEF SessionFits, KnownStays, Known
<1>4. ASSUME NEW u, OtherTab(u) PROVE SessionFits' /\ KnownStays
  BY <1>3, <1>4 DEF OtherTab, KnownStays, Known
<1>5. ASSUME CookieExpires PROVE SessionFits' /\ KnownStays
  BY <1>3, <1>5 DEF CookieExpires, KnownStays, Known
<1>6. ASSUME TokensExpire PROVE SessionFits' /\ KnownStays
  <2>1. session' = [session EXCEPT !.token.live = FALSE] /\ cookie' = cookie /\ displaced' = displaced
    BY <1>6 DEF TokensExpire
  <2>2. /\ DOMAIN session' = {"user", "token"} /\ session'.user = session.user
        /\ session'.token = [session.token EXCEPT !.live = FALSE]
    BY <2>1 DEF SessionFits
  <2>3. DOMAIN session'.token = {"user", "live"} /\ session'.token.user = session.token.user
    BY <2>2 DEF SessionFits
  <2> QED
    BY <2>1, <2>2, <2>3 DEF SessionFits, KnownStays, Known
<1> QED
  BY <1>1, <1>2, <1>4, <1>5, <1>6

-----------------------------------------------------------------------------
(* Requests and the orders they make.                                      *)

HttpInv ==
    /\ IsSequence(request) /\ \A i \in DOMAIN request : RequestFits(request[i])
    /\ IsSequence(orders) /\ \A n \in DOMAIN orders : OrderFits(orders[n])
    /\ OneOrderPerClick

\* A request that may have made an order keeps what the order refers to.
Keeps(r, q) ==
    r.kind = "order" /\ r.stage \in {"ok", "done"} =>
        /\ q.kind = "order" /\ q.stage \in {"ok", "done"}
        /\ q.asker = r.asker /\ q.retried = r.retried /\ q.theirs = r.theirs

\* A request that is left alone still fits.
LEMMA FitsStays ==
    ASSUME KnownStays, NEW r, RequestFits(r)
    PROVE  RequestFits(r)'
<1> QED
  BY DEF RequestFits, KnownStays, Known, New

\* A step that makes no order: its requests fit, those with an order keep it,
\* and the order rows keep whose they are and where they come from.
LEMMA HttpStep ==
    ASSUME HttpInv, IsSequence(request'), DOMAIN request \subseteq DOMAIN request',
           (\A j \in DOMAIN request : RequestFits(request[j]))',
           \A j \in DOMAIN request : Keeps(request[j], request'[j]),
           IsSequence(orders'), DOMAIN orders' = DOMAIN orders,
           \A n \in DOMAIN orders : /\ DOMAIN orders'[n] = DOMAIN orders[n]
                                    /\ orders'[n].by = orders[n].by
                                    /\ orders'[n].from = orders[n].from
    PROVE  HttpInv'
<1>1. ASSUME NEW n \in DOMAIN orders' PROVE OrderFits(orders[n])'
  <2>1. n \in DOMAIN orders /\ OrderFits(orders[n])
    BY <1>1 DEF HttpInv
  <2>2. orders[n].from \in DOMAIN request /\ Keeps(request[orders[n].from], request'[orders[n].from])
    BY <2>1 DEF OrderFits
  <2> QED
    BY <2>1, <2>2 DEF OrderFits, Keeps
<1>2. OneOrderPerClick'
  BY DEF HttpInv, OneOrderPerClick
<1> QED
  BY <1>1, <1>2 DEF HttpInv

\* One request changes, or none, and the orders stay.
LEMMA ChangeOne ==
    ASSUME HttpInv, KnownStays, orders' = orders, NEW i \in DOMAIN request, NEW r,
           request' = [request EXCEPT ![i] = r], RequestFits(r)', Keeps(request[i], r)
    PROVE  HttpInv'
<1>1. /\ IsSequence(request') /\ DOMAIN request' = DOMAIN request /\ request'[i] = r
      /\ \A j \in DOMAIN request : j # i => request'[j] = request[j]
  BY ReplaceFacts DEF HttpInv
<1>2. ASSUME NEW j \in DOMAIN request' PROVE RequestFits(request[j])'
  <2>1. PICK q : q = request'[j]
    OBVIOUS
  <2>2. RequestFits(q)'
    <3>1. CASE j = i
      BY <1>1, <2>1, <3>1
    <3>2. CASE j # i
      <4>1. q = request[j] /\ RequestFits(q)
        BY <1>1, <1>2, <2>1, <3>2 DEF HttpInv
      <4> QED BY <4>1, FitsStays
    <3> QED BY <3>1, <3>2
  <2> QED BY <2>1, <2>2 DEF RequestFits, Known
<1>3. \A j \in DOMAIN request : Keeps(request[j], request'[j])
  BY <1>1 DEF Keeps
<1> QED
  BY <1>1, <1>2, <1>3, HttpStep DEF HttpInv
LEMMA ChangeNone ==
    ASSUME HttpInv, KnownStays, UNCHANGED <<request, orders>>
    PROVE  HttpInv'
<1>1. ASSUME NEW j \in DOMAIN request' PROVE RequestFits(request[j])'
  <2>1. PICK q : q = request'[j]
    OBVIOUS
  <2>2. RequestFits(q)'
    BY <2>1, <1>1, FitsStays DEF HttpInv
  <2> QED BY <2>1, <2>2 DEF RequestFits, Known
<1> QED
  BY <1>1, HttpStep DEF HttpInv, Keeps

\* A request is sent.
LEMMA SendStep ==
    ASSUME HttpInv, KnownStays, orders' = orders, NEW kind, NEW arg, Send(kind, arg),
           RequestFits(New(kind, arg, session.user, session.token))
    PROVE  HttpInv' /\ Len(request') = Len(request) + 1
<1>1. PICK e : e = New(kind, arg, session.user, session.token)
  OBVIOUS
<1>2. request' = Append(request, e) /\ RequestFits(e)
  BY <1>1 DEF Send
<1>3. /\ IsSequence(request') /\ Len(request) \in Nat /\ DOMAIN request = 1..Len(request)
      /\ DOMAIN request' = 1..(Len(request) + 1) /\ Len(request') = Len(request) + 1
      /\ request'[Len(request) + 1] = e /\ \A j \in DOMAIN request : request'[j] = request[j]
  BY <1>2, AppendFacts DEF HttpInv
<1>4. ASSUME NEW j \in DOMAIN request' PROVE RequestFits(request[j])'
  <2>1. PICK q : q = request'[j]
    OBVIOUS
  <2>2. q = e \/ (j \in DOMAIN request /\ q = request[j])
    BY <1>3, <2>1
  <2>3. RequestFits(q)'
    BY <1>2, <2>2, FitsStays DEF HttpInv
  <2> QED BY <2>1, <2>3 DEF RequestFits, Known
<1>5. \A j \in DOMAIN request : Keeps(request[j], request'[j])
  BY <1>3 DEF Keeps
<1>6. DOMAIN request \subseteq DOMAIN request'
  BY <1>3
<1> QED
  BY <1>3, <1>4, <1>5, <1>6, HttpStep DEF HttpInv

\* What the steps of the HTTP client make of a request.  End:
LEMMA EndStep ==
    ASSUME HttpInv, KnownStays, orders' = orders, NEW i \in DOMAIN request, End(i)
    PROVE  HttpInv'
<1>1. PICK a : a = request[i]
  OBVIOUS
<1>2. PICK r : r = IF a.kind = "order"
                   THEN [a EXCEPT !.stage = "done", !.token = NoToken, !.cookie = NoUser]
                   ELSE [New("ended", 0, NoUser, NoToken) EXCEPT !.stage = "done"]
  OBVIOUS
<1>3. request' = [request EXCEPT ![i] = r]
  BY <1>1, <1>2 DEF End
<1>4. RequestFits(a) /\ DOMAIN a = Fields
  BY <1>1, NewFacts DEF HttpInv, RequestFits
<1>5. CASE a.kind = "order"
  <2>1. /\ DOMAIN r = Fields /\ r.kind = "order" /\ r.arg = a.arg /\ r.asker = a.asker
        /\ r.retried = a.retried /\ r.theirs = a.theirs /\ r.stage = "done" /\ r.token = NoToken
    BY <1>2, <1>4, <1>5 DEF Fields
  <2>2. RequestFits(r)
    BY <1>4, <1>5, <2>1, FreshFacts, NewFacts DEF RequestFits
  <2>3. Keeps(a, r)
    BY <2>1 DEF Keeps
  <2> QED
    BY <1>1, <1>3, <2>2, <2>3, FitsStays, ChangeOne
<1>6. CASE a.kind # "order"
  <2>1. DOMAIN r = Fields /\ r.kind = "ended" /\ r.token = NoToken /\ r.stage = "done"
    BY <1>2, <1>6 DEF New, Fields
  <2>2. RequestFits(r)
    BY <2>1, FreshFacts, NewFacts DEF RequestFits
  <2>3. Keeps(a, r)
    BY <1>6 DEF Keeps
  <2> QED
    BY <1>1, <1>3, <2>2, <2>3, FitsStays, ChangeOne
<1> QED
  BY <1>5, <1>6

\* A request that is answered:
LEMMA AnswerFits ==
    ASSUME NEW a, RequestFits(a), a.stage = "sent", NEW stage \in {"ok", "401", "refused"}
    PROVE  LET r == [a EXCEPT !.stage = stage] IN
           RequestFits(r) /\ Keeps(a, r) /\ r.kind = a.kind /\ r.stage = stage /\ r.asker = a.asker
           /\ r.retried = a.retried /\ r.theirs = a.theirs
<1>1. PICK r : r = [a EXCEPT !.stage = stage]
  OBVIOUS
<1>2. DOMAIN a = Fields
  BY NewFacts DEF RequestFits
<1>3. /\ DOMAIN r = Fields /\ r.kind = a.kind /\ r.arg = a.arg /\ r.asker = a.asker
      /\ r.retried = a.retried /\ r.theirs = a.theirs /\ r.stage = stage /\ r.token = a.token
  BY <1>1, <1>2 DEF Fields
<1>4. RequestFits(r)
  BY <1>3, NewFacts DEF RequestFits
<1>5. Keeps(a, r)
  BY DEF Keeps
<1> QED
  BY <1>1, <1>3, <1>4, <1>5
LEMMA AnswerStep ==
    ASSUME HttpInv, KnownStays, NEW i \in DOMAIN request, request[i].stage = "sent",
           NEW stage \in {"ok", "401", "refused"}, Answer(i, stage)
    PROVE  HttpInv'
<1>1. PICK a : a = request[i]
  OBVIOUS
<1>2. PICK r : r = [a EXCEPT !.stage = stage]
  OBVIOUS
<1>3. request' = [request EXCEPT ![i] = r] /\ orders' = orders
  BY <1>1, <1>2 DEF Answer, Step
<1>4. RequestFits(a) /\ a.stage = "sent"
  BY <1>1 DEF HttpInv
<1>5. RequestFits(r) /\ Keeps(a, r)
  BY <1>2, <1>4, AnswerFits
<1> QED
  BY <1>1, <1>3, <1>5, FitsStays, ChangeOne

\* Order rows lose their activity and nothing else.
LEMMA CloseFacts ==
    ASSUME HttpInv, NEW n \in DOMAIN orders, orders' = [orders EXCEPT ![n].active = FALSE]
    PROVE  /\ IsSequence(orders') /\ DOMAIN orders' = DOMAIN orders
           /\ \A m \in DOMAIN orders : /\ DOMAIN orders'[m] = DOMAIN orders[m]
                                       /\ orders'[m].by = orders[m].by
                                       /\ orders'[m].from = orders[m].from
<1>1. PICK o : o = [orders[n] EXCEPT !.active = FALSE]
  OBVIOUS
<1>2. PICK t : t = [orders EXCEPT ![n] = o]
  OBVIOUS
<1>3. DOMAIN o = DOMAIN orders[n] /\ o.by = orders[n].by /\ o.from = orders[n].from
  BY <1>1 DEF HttpInv, OrderFits
<1>4. /\ IsSequence(t) /\ DOMAIN t = DOMAIN orders /\ t[n] = o
      /\ \A j \in DOMAIN orders : j # n => t[j] = orders[j]
  BY <1>2, ReplaceFacts DEF HttpInv
<1>5. orders' = t
  BY <1>1, <1>2
<1> QED
  BY <1>3, <1>4, <1>5

\* The matcher fills an order.
LEMMA SettleStep ==
    ASSUME HttpInv, KnownStays, NEW n \in DOMAIN orders, Settle(n)
    PROVE  HttpInv'
<1>1. orders' = [orders EXCEPT ![n].active = FALSE] /\ request' = request
  BY DEF Settle
<1>2. ASSUME NEW j \in DOMAIN request' PROVE RequestFits(request[j])'
  <2>1. PICK q : q = request'[j]
    OBVIOUS
  <2>2. RequestFits(q)'
    BY <1>1, <1>2, <2>1, FitsStays DEF HttpInv
  <2> QED BY <2>1, <2>2 DEF RequestFits, Known
<1> QED
  BY <1>1, <1>2, CloseFacts, HttpStep DEF HttpInv, Keeps

\* A request that changes while an order is closed.
LEMMA CancelStep ==
    ASSUME HttpInv, KnownStays, NEW i \in DOMAIN request, request[i].stage = "sent",
           HandleCancel(i)
    PROVE  HttpInv'
<1> DEFINE c == request[i].arg
<1>1. CASE c \in OpenOrdersOf(Caller(request[i]))
  <2>1. c \in DOMAIN orders /\ orders' = [orders EXCEPT ![c].active = FALSE] /\ Step(i, "ok")
    BY <1>1 DEF HandleCancel, OpenOrdersOf
  <2>2. PICK r : r = [request[i] EXCEPT !.stage = "ok"]
    OBVIOUS
  <2>3. request' = [request EXCEPT ![i] = r] /\ RequestFits(r) /\ Keeps(request[i], r)
    BY <2>1, <2>2, AnswerFits DEF Step, HttpInv
  <2>4. /\ IsSequence(request') /\ DOMAIN request' = DOMAIN request /\ request'[i] = r
        /\ \A j \in DOMAIN request : j # i => request'[j] = request[j]
    BY <2>3, ReplaceFacts DEF HttpInv
  <2>5. ASSUME NEW j \in DOMAIN request' PROVE RequestFits(request[j])'
    <3>1. PICK q : q = request'[j]
      OBVIOUS
    <3>2. RequestFits(q)
      BY <2>3, <2>4, <2>5, <3>1 DEF HttpInv
    <3>3. RequestFits(q)'
      BY <3>2, FitsStays
    <3> QED BY <3>1, <3>3 DEF RequestFits, Known
  <2>6. \A j \in DOMAIN request : Keeps(request[j], request'[j])
    BY <2>3, <2>4 DEF Keeps
  <2> HIDE DEF c
  <2> QED
    BY <2>1, <2>4, <2>5, <2>6, CloseFacts, HttpStep
<1>2. CASE c \notin OpenOrdersOf(Caller(request[i]))
  BY <1>2, AnswerStep DEF HandleCancel
<1> QED
  BY <1>1, <1>2

\* An order is made: by the first answer to its request that is not a 401,
\* so that no order of this request is there yet.
LEMMA OrderStep ==
    ASSUME HttpInv, KnownStays, NEW i \in DOMAIN request, request[i].stage = "sent",
           request[i].kind = "order", HandleOrder(i)
    PROVE  HttpInv'
<1>1. PICK a : a = request[i]
  OBVIOUS
<1>2. PICK r : r = [a EXCEPT !.stage = "ok"]
  OBVIOUS
<1>3. PICK o : o = [by |-> a.token.user, from |-> i, active |-> TRUE]
  OBVIOUS
<1>4. request' = [request EXCEPT ![i] = r] /\ orders' = Append(orders, o)
  BY <1>1, <1>2, <1>3 DEF HandleOrder, Step, Caller
<1>5. RequestFits(a) /\ a.stage = "sent" /\ a.kind = "order"
  BY <1>1 DEF HttpInv
<1>6. /\ RequestFits(r) /\ r.kind = "order" /\ r.stage = "ok" /\ r.asker = a.asker
      /\ r.retried = a.retried /\ r.theirs = a.theirs
  BY <1>2, <1>5, AnswerFits
<1>7. /\ IsSequence(request') /\ DOMAIN request' = DOMAIN request /\ request'[i] = r
      /\ \A j \in DOMAIN request : j # i => request'[j] = request[j]
  BY <1>4, ReplaceFacts DEF HttpInv
<1>8. /\ IsSequence(orders') /\ Len(orders) \in Nat /\ DOMAIN orders = 1..Len(orders)
      /\ DOMAIN orders' = 1..(Len(orders) + 1)
      /\ orders'[Len(orders) + 1] = o /\ \A m \in DOMAIN orders : orders'[m] = orders[m]
  BY <1>4, AppendFacts DEF HttpInv
<1>9. \A m \in DOMAIN orders : OrderFits(orders[m]) /\ orders[m].from # i
  BY <1>1, <1>5 DEF HttpInv, OrderFits
<1>10. o.by = a.token.user /\ o.from = i /\ DOMAIN o = {"by", "from", "active"}
  BY <1>3
<1>11. ASSUME NEW j \in DOMAIN request' PROVE RequestFits(request[j])'
  <2>1. PICK q : q = request'[j]
    OBVIOUS
  <2>2. RequestFits(q)
    BY <1>6, <1>7, <1>11, <2>1 DEF HttpInv
  <2>3. RequestFits(q)'
    BY <2>2, FitsStays
  <2> QED BY <2>1, <2>3 DEF RequestFits, Known
<1>12. ASSUME NEW m \in DOMAIN orders' PROVE OrderFits(orders[m])'
  <2>1. CASE m = Len(orders) + 1
    <3>1. orders'[m] = o
      BY <1>8, <2>1
    <3>2. o.by # r.asker => r.retried /\ r.theirs
      BY <1>5, <1>6, <1>10 DEF RequestFits
    <3> QED
      BY <1>6, <1>7, <1>10, <3>1, <3>2 DEF OrderFits
  <2>2. CASE m # Len(orders) + 1
    <3>1. m \in DOMAIN orders
      BY <1>8, <1>12, <2>2
    <3>2. orders'[m] = orders[m] /\ OrderFits(orders[m]) /\ orders[m].from # i
      BY <1>8, <1>9, <3>1
    <3>3. request'[orders[m].from] = request[orders[m].from]
      BY <1>7, <3>2 DEF OrderFits
    <3> QED
      BY <1>7, <3>2, <3>3 DEF OrderFits
  <2> QED
    BY <2>1, <2>2
<1>13. OneOrderPerClick'
  <2> SUFFICES ASSUME NEW m \in DOMAIN orders', NEW n \in DOMAIN orders',
                      orders'[m].from = orders'[n].from
               PROVE  m = n
    BY DEF OneOrderPerClick
  <2>1. \A k \in DOMAIN orders' : k = Len(orders) + 1 \/ k \in DOMAIN orders
    BY <1>8
  <2>2. CASE m \in DOMAIN orders /\ n \in DOMAIN orders
    BY <1>8, <2>2 DEF HttpInv, OneOrderPerClick
  <2>3. CASE m = Len(orders) + 1 /\ n \in DOMAIN orders
    BY <1>8, <1>9, <1>10, <2>3
  <2>4. CASE n = Len(orders) + 1 /\ m \in DOMAIN orders
    BY <1>8, <1>9, <1>10, <2>4
  <2> QED
    BY <2>1, <2>2, <2>3, <2>4
<1> QED
  BY <1>7, <1>8, <1>11, <1>12, <1>13 DEF HttpInv

\* The API handles a request.
LEMMA HandleStep ==
    ASSUME HttpInv, KnownStays, NEW i \in DOMAIN request, Handle(i)
    PROVE  HttpInv'
<1>1. request[i].stage = "sent"
  BY DEF Handle
<1>2. ASSUME HandlePoll(i), request[i].kind = "poll" PROVE HttpInv'
  <2>1. PICK a : a = request[i]
    OBVIOUS
  <2>2. PICK r : r = [a EXCEPT !.stage = "ok", !.seen = OpenOrdersOf(Caller(a))]
    OBVIOUS
  <2>3. request' = [request EXCEPT ![i] = r] /\ orders' = orders
    BY <1>2, <2>1, <2>2 DEF HandlePoll
  <2>4. RequestFits(a) /\ a.kind = "poll" /\ DOMAIN a = Fields
    BY <1>2, <2>1, NewFacts DEF HttpInv, RequestFits
  <2>5. DOMAIN r = Fields /\ r.kind = "poll" /\ r.token = a.token
    BY <2>2, <2>4 DEF Fields
  <2>6. RequestFits(r) /\ Keeps(a, r)
    BY <2>4, <2>5, NewFacts DEF RequestFits, Keeps
  <2> QED
    BY <2>1, <2>3, <2>6, FitsStays, ChangeOne
<1>3. ASSUME HandleLogin(i) PROVE HttpInv'
  BY <1>1, <1>3, AnswerStep DEF HandleLogin
<1>4. ASSUME Answer(i, "401") PROVE HttpInv'
  BY <1>1, <1>4, AnswerStep
<1>5. ASSUME HandleOrder(i), request[i].kind = "order" PROVE HttpInv'
  BY <1>1, <1>5, OrderStep
<1>6. ASSUME HandleCancel(i) PROVE HttpInv'
  BY <1>1, <1>6, CancelStep
<1>7. \/ HandleLogin(i)
      \/ Answer(i, "401")
      \/ HandleOrder(i) /\ request[i].kind = "order"
      \/ HandleCancel(i)
      \/ HandlePoll(i) /\ request[i].kind = "poll"
  <2>1. request[i].kind \in {"login", "order", "cancel", "poll"}
    BY <1>1 DEF HttpInv, RequestFits
  <2> QED
    BY <2>1 DEF Handle
<1> QED
  BY <1>2, <1>3, <1>4, <1>5, <1>6, <1>7

\* A first 401: the request has carried its asker's own token so far, and the
\* cookie is the asker's unless it has gone over on record.
LEMMA Arrive401Step ==
    ASSUME HttpInv, KnownStays, NEW i \in DOMAIN request, Arrive401(i)
    PROVE  HttpInv'
<1>1. CASE request[i].retried
  BY <1>1, EndStep DEF Arrive401, Gone
<1>2. CASE ~request[i].retried
  <2>1. PICK a : a = request[i]
    OBVIOUS
  <2>2. PICK r : r = [a EXCEPT !.stage = "refresh", !.retried = TRUE, !.cookie = cookie,
                               !.theirs = a.asker \in displaced]
    OBVIOUS
  <2>3. request' = [request EXCEPT ![i] = r] /\ orders' = orders
    BY <1>2, <2>1, <2>2 DEF Arrive401
  <2>4. RequestFits(a) /\ a.stage = "401" /\ DOMAIN a = Fields /\ ~a.retried
    BY <1>2, <2>1, NewFacts DEF HttpInv, RequestFits, Arrive401
  <2>5. /\ DOMAIN r = Fields /\ r.kind = a.kind /\ r.arg = a.arg /\ r.asker = a.asker
        /\ r.retried = TRUE /\ r.stage = "refresh" /\ r.token = a.token /\ r.cookie = cookie
        /\ r.theirs = (a.asker \in displaced)
    BY <2>2, <2>4 DEF Fields
  <2>6. RequestFits(r)
    BY <2>4, <2>5, NewFacts DEF RequestFits, Known
  <2>7. Keeps(a, r)
    BY <2>4 DEF Keeps
  <2> QED
    BY <2>1, <2>3, <2>6, <2>7, FitsStays, ChangeOne
<1> QED
  BY <1>1, <1>2

\* The retry is sent in the name of the cookie's user.
LEMMA RefreshStep ==
    ASSUME HttpInv, KnownStays, NEW i \in DOMAIN request, Refresh(i)
    PROVE  HttpInv'
<1>1. PICK a : a = request[i]
  OBVIOUS
<1>2. PICK r : r = [a EXCEPT !.stage = "sent", !.token = Fresh(a.cookie).token]
  OBVIOUS
<1>3. request' = [request EXCEPT ![i] = r] /\ orders' = orders
  BY <1>1, <1>2 DEF Refresh
<1>4. RequestFits(a) /\ a.stage = "refresh" /\ DOMAIN a = Fields /\ a.cookie # NoUser
  BY <1>1, NewFacts DEF HttpInv, RequestFits, Refresh
<1>5. /\ DOMAIN r = Fields /\ r.kind = a.kind /\ r.arg = a.arg /\ r.asker = a.asker
      /\ r.retried = a.retried /\ r.theirs = a.theirs /\ r.stage = "sent"
      /\ r.token = Fresh(a.cookie).token
  BY <1>2, <1>4 DEF Fields
<1>6. RequestFits(r)
  BY <1>4, <1>5, NewFacts, FreshFacts DEF RequestFits
<1>7. Keeps(a, r)
  BY <1>4 DEF Keeps
<1> QED
  BY <1>1, <1>3, <1>6, <1>7, FitsStays, ChangeOne

\* Every access token runs out.
LEMMA ExpireStep ==
    ASSUME HttpInv, KnownStays, TokensExpire
    PROVE  HttpInv'
<1>1. /\ request' = [i \in DOMAIN request |-> [request[i] EXCEPT !.token.live = FALSE]]
      /\ orders' = orders
  BY DEF TokensExpire
<1>2. /\ DOMAIN request' = DOMAIN request
      /\ \A j \in DOMAIN request : request'[j] = [request[j] EXCEPT !.token.live = FALSE]
  BY <1>1
<1>3. IsSequence(request')
  <2> DEFINE S == {request[j] : j \in DOMAIN request}
             T == {request'[j] : j \in DOMAIN request'}
  <2>1. DOMAIN request = 1..Len(request) /\ Len(request) \in Nat
    <3>1. request \in Seq(S)
      BY DEF HttpInv, IsSequence
    <3> HIDE DEF S
    <3> QED BY <3>1
  <2>2. request' \in [1..Len(request) -> T]
    <3>1. request' = [j \in DOMAIN request' |-> request'[j]]
      BY <1>1
    <3> QED BY <1>2, <2>1, <3>1
  <2>3. request' \in Seq(T)
    <3> HIDE DEF T
    <3> QED BY <2>1, <2>2
  <2> QED
    BY <2>3 DEF IsSequence
<1>4. ASSUME NEW j \in DOMAIN request
      PROVE  Keeps(request[j], request'[j]) /\ RequestFits(request[j])'
  <2>1. PICK a : a = request[j]
    OBVIOUS
  <2>2. PICK r : r = [a EXCEPT !.token = [a.token EXCEPT !.live = FALSE]]
    OBVIOUS
  <2>3. RequestFits(a) /\ DOMAIN a = Fields
    BY <2>1, NewFacts DEF HttpInv, RequestFits
  <2>4. request'[j] = r
    BY <1>2, <2>1, <2>2
  <2>5. /\ DOMAIN r = Fields /\ r.kind = a.kind /\ r.arg = a.arg /\ r.asker = a.asker
        /\ r.retried = a.retried /\ r.theirs = a.theirs /\ r.stage = a.stage
        /\ r.token = [a.token EXCEPT !.live = FALSE] /\ r.cookie = a.cookie
    BY <2>2, <2>3 DEF Fields
  <2>6. DOMAIN r.token = {"user", "live"} /\ r.token.user = a.token.user
    BY <2>3, <2>5 DEF RequestFits
  <2>7. RequestFits(r)
    BY <2>3, <2>5, <2>6, NewFacts DEF RequestFits
  <2>8. RequestFits(r)'
    BY <2>7, FitsStays
  <2>9. RequestFits(request[j])'
    BY <2>4, <2>8 DEF RequestFits, Known
  <2> QED
    BY <2>1, <2>4, <2>5, <2>9 DEF Keeps
<1> QED
  BY <1>1, <1>2, <1>3, <1>4, HttpStep DEF HttpInv

-----------------------------------------------------------------------------
(* The steps of the client.                                                *)

LEMMA InvParts ==
    /\ WebInv <=> TicketFits /\ SessionFits /\ HttpInv
    /\ WebInv' <=> TicketFits' /\ SessionFits' /\ HttpInv'
<1> QED
  BY DEF WebInv, HttpInv

\* A new tab.
LEMMA InitWeb == Init => WebInv
<1> SUFFICES ASSUME Init PROVE WebInv
  OBVIOUS
<1>1. TicketFits
  BY WebClientAssumption DEF Init, TicketFits, NoPick, Blank
<1>2. SessionFits
  BY FreshFacts DEF Init, SessionFits, Known
<1>3. request = <<>> /\ orders = <<>>
  BY DEF Init
<1>4. <<>> \in Seq({<<>>[i] : i \in DOMAIN <<>>}) /\ DOMAIN <<>> = {}
  OBVIOUS
<1>5. HttpInv
  BY <1>3, <1>4 DEF HttpInv, IsSequence, OneOrderPerClick
<1> QED
  BY <1>1, <1>2, <1>5, InvParts

\* What the user does.
LEMMA UserStep ==
    ASSUME WebInv, User
    PROVE  WebInv'
<1> USE InvParts
<1>1. TicketFits /\ SessionFits /\ HttpInv
  OBVIOUS
<1>2. DOMAIN session.token = {"user", "live"} /\ session.token.user = session.user
  BY <1>1 DEF SessionFits
<1>3. ASSUME Submit PROVE WebInv'
  <2> DEFINE arg == [market |-> symbol,
                     price |-> IF ticket.mode = "limit" THEN ticket.price ELSE NoPrice,
                     for |-> ticket.for]
  <2>1. /\ Send("order", arg) /\ session.user # NoUser /\ orders' = orders /\ UNCHANGED auth
        /\ UNCHANGED <<page, layout, mobileTab, symbol, picked, ticket>>
    BY <1>3 DEF Submit, CanOrder
  <2>2. arg.price # NoPrice => arg.for = arg.market
    BY <1>1 DEF TicketFits
  <2> HIDE DEF arg
  <2>3. SessionFits' /\ KnownStays
    BY <1>1, <2>1, SessionStep
  <2>4. RequestFits(New("order", arg, session.user, session.token))
    BY <1>1, <1>2, <2>1, <2>2, NewFacts DEF RequestFits, SessionFits
  <2>5. HttpInv'
    BY <1>1, <2>1, <2>3, <2>4, SendStep
  <2>6. TicketFits'
    BY <1>1, <2>1, FrameKeepsTicket DEF Mounted, FormShown
  <2> QED
    BY <2>3, <2>5, <2>6
<1>4. ASSUME NEW kind \in {"cancel", "login"}, NEW arg, Send(kind, arg),
             UNCHANGED <<page, layout, mobileTab, symbol, picked, ticket, auth, orders>>
      PROVE  WebInv'
  <2>1. SessionFits' /\ KnownStays
    BY <1>1, <1>4, SessionStep
  <2>2. RequestFits(New(kind, arg, session.user, session.token))
    BY <1>2, <1>4, NewFacts DEF RequestFits
  <2>3. HttpInv'
    BY <1>1, <1>4, <2>1, <2>2, SendStep
  <2>4. TicketFits'
    BY <1>1, <1>4, FrameKeepsTicket DEF Mounted, FormShown
  <2> QED
    BY <2>1, <2>3, <2>4
<1>5. ASSUME NEW n, CancelOrder(n) PROVE WebInv'
  BY <1>4, <1>5 DEF CancelOrder
<1>6. ASSUME NEW u, SubmitLogin(u) PROVE WebInv'
  BY <1>4, <1>6 DEF SubmitLogin
<1>7. ASSUME Logout \/ GoLogin \/ GoAccount \/ GoHome PROVE WebInv'
  <2>1. /\ UNCHANGED <<request, orders>>
        /\ \/ UNCHANGED auth
           \/ session' = NoSession /\ UNCHANGED <<cookie, displaced>>
    BY <1>7 DEF Logout, GoLogin, GoAccount, GoHome
  <2>2. SessionFits' /\ KnownStays
    BY <1>1, <2>1, SessionStep
  <2> QED
    BY <1>1, <1>7, <2>1, <2>2, OthersKeepTicket, ChangeNone
<1>8. ASSUME NEW u, OtherTab(u) PROVE WebInv'
  <2>1. UNCHANGED <<screen, request, orders>>
    BY <1>8 DEF OtherTab
  <2>2. SessionFits' /\ KnownStays
    BY <1>1, <1>8, SessionStep
  <2>3. TicketFits'
    BY <1>1, <2>1, FrameKeepsTicket DEF screen, Mounted, FormShown
  <2> QED
    BY <1>1, <2>1, <2>2, <2>3, ChangeNone
<1> QED
  BY <1>3, <1>5, <1>6, <1>7, <1>8 DEF User

\* An answer arrives, or is lost.
LEMMA NetworkStep ==
    ASSUME WebInv, NEW i \in DOMAIN request, Network(i) \/ Lost(i) \/ RefreshFails(i)
    PROVE  WebInv'
<1> USE InvParts
<1>1. TicketFits /\ SessionFits /\ HttpInv
  OBVIOUS
<1>2. ASSUME UNCHANGED screen PROVE TicketFits'
  BY <1>1, <1>2, FrameKeepsTicket DEF screen, Mounted, FormShown
<1>3. ASSUME End(i), orders' = orders, UNCHANGED auth PROVE HttpInv' /\ SessionFits'
  BY <1>1, <1>3, SessionStep, EndStep
<1>4. ASSUME Handle(i) PROVE WebInv'
  <2>1. SessionFits' /\ KnownStays /\ UNCHANGED screen
    BY <1>1, <1>4, SessionStep DEF Handle
  <2> QED
    BY <1>1, <1>2, <1>4, <2>1, HandleStep
<1>5. ASSUME ArriveLogin(i) PROVE WebInv'
  <2>1. \E u : SetTokens(u)
    BY <1>5 DEF ArriveLogin
  <2>2. SessionFits' /\ KnownStays /\ End(i) /\ orders' = orders
    BY <1>5, <2>1, SetTokensSession DEF ArriveLogin
  <2> QED
    BY <1>1, <1>5, <2>2, EndStep, OthersKeepTicket
<1>6. ASSUME ArriveOrder(i) PROVE WebInv'
  <2>1. End(i) /\ orders' = orders /\ UNCHANGED auth
    BY <1>6 DEF ArriveOrder
  <2> QED
    BY <1>1, <1>3, <1>6, <2>1, OthersKeepTicket
<1>7. ASSUME ArrivePoll(i) PROVE WebInv'
  <2>1. End(i) /\ orders' = orders /\ UNCHANGED auth /\ UNCHANGED screen
    BY <1>7 DEF ArrivePoll
  <2> QED
    BY <1>2, <1>3, <2>1
<1>8. ASSUME ArriveCancel(i) PROVE WebInv'
  <2>1. /\ End(i) /\ orders' = orders /\ UNCHANGED auth
        /\ UNCHANGED <<page, symbol, layout, mobileTab, picked, ticket>>
    BY <1>8 DEF ArriveCancel
  <2>2. TicketFits'
    BY <1>1, <2>1, FrameKeepsTicket DEF Mounted, FormShown
  <2> QED
    BY <1>3, <2>1, <2>2
<1>9. ASSUME Gone(i), UNCHANGED <<page, auth>> PROVE WebInv'
  <2>1. TicketFits'
    BY <1>1, <1>9, FrameKeepsTicket DEF Gone, Mounted, FormShown
  <2> QED
    BY <1>3, <1>9, <2>1 DEF Gone
<1>10. ASSUME Arrive401(i) PROVE WebInv'
  <2>1. CASE request[i].retried
    BY <1>9, <1>10, <2>1 DEF Arrive401
  <2>2. CASE ~request[i].retried
    <3>1. UNCHANGED auth /\ UNCHANGED screen
      BY <1>10, <2>2 DEF Arrive401
    <3>2. SessionFits' /\ KnownStays
      BY <1>1, <3>1, SessionStep
    <3> QED
      BY <1>1, <1>2, <1>10, <3>1, <3>2, Arrive401Step
  <2> QED
    BY <2>1, <2>2
<1>11. ASSUME ArriveRefused(i) \/ Lost(i) PROVE WebInv'
  BY <1>9, <1>11 DEF ArriveRefused, Lost
<1>12. ASSUME Refresh(i) PROVE WebInv'
  <2>1. UNCHANGED screen /\ SetTokens(request[i].cookie)
    BY <1>12 DEF Refresh
  <2>2. SessionFits' /\ KnownStays
    BY <2>1, SetTokensSession
  <2> QED
    BY <1>1, <1>2, <1>12, <2>1, <2>2, RefreshStep
<1>13. ASSUME RefreshRefused(i) \/ RefreshFails(i) PROVE WebInv'
  <2>1. Clear /\ Gone(i)
    BY <1>13 DEF RefreshRefused, RefreshFails
  <2>2. SessionFits' /\ KnownStays
    BY <1>1, <2>1, SessionStep DEF Clear
  <2>3. TicketFits'
    BY <1>1, <2>1, FrameKeepsTicket DEF Clear, Gone, Mounted, FormShown
  <2> QED
    BY <1>1, <2>1, <2>2, <2>3, EndStep DEF Gone
<1> QED
  BY <1>4, <1>5, <1>6, <1>7, <1>8, <1>10, <1>11, <1>12, <1>13 DEF Network

\* Every step.
LEMMA NextWeb ==
    ASSUME WebInv, [Next]_vars
    PROVE  WebInv'
<1> USE InvParts
<1>1. TicketFits /\ SessionFits /\ HttpInv
  OBVIOUS
<1>2. ASSUME UNCHANGED screen PROVE TicketFits'
  BY <1>1, <1>2, FrameKeepsTicket DEF screen, Mounted, FormShown
<1>3. ASSUME Ticket PROVE WebInv'
  <2>1. UNCHANGED <<auth, request, orders>>
    BY <1>3 DEF Ticket, Resize, SwitchTab, SelectSymbol, PickPrice, TypePrice, ToggleDrawer, TypeQty,
                SetMode, Fill
  <2>2. SessionFits' /\ KnownStays
    BY <1>1, <2>1, SessionStep
  <2> QED
    BY <1>1, <1>3, <2>1, <2>2, ScreenKeepsTicket, ChangeNone
<1>4. ASSUME Poll PROVE WebInv'
  <2>1. Send("poll", 0) /\ UNCHANGED screen /\ UNCHANGED auth /\ orders' = orders
    BY <1>4 DEF Poll
  <2>2. SessionFits' /\ KnownStays
    BY <1>1, <2>1, SessionStep
  <2>3. RequestFits(New("poll", 0, session.user, session.token))
    BY <1>1, NewFacts DEF RequestFits, SessionFits
  <2> QED
    BY <1>1, <1>2, <2>1, <2>2, <2>3, SendStep
<1>5. ASSUME TokensExpire PROVE WebInv'
  <2>1. SessionFits' /\ KnownStays /\ UNCHANGED screen
    BY <1>1, <1>5, SessionStep DEF TokensExpire
  <2> QED
    BY <1>1, <1>2, <1>5, <2>1, ExpireStep
<1>6. ASSUME CookieExpires PROVE WebInv'
  <2>1. SessionFits' /\ KnownStays /\ UNCHANGED screen /\ UNCHANGED <<request, orders>>
    BY <1>1, <1>6, SessionStep DEF CookieExpires
  <2> QED
    BY <1>1, <1>2, <2>1, ChangeNone
<1>7. ASSUME NEW n \in DOMAIN orders, Settle(n) PROVE WebInv'
  <2>1. UNCHANGED screen /\ UNCHANGED auth
    BY <1>7 DEF Settle
  <2>2. SessionFits' /\ KnownStays
    BY <1>1, <2>1, SessionStep
  <2> QED
    BY <1>1, <1>2, <1>7, <2>1, <2>2, SettleStep
<1>8. ASSUME UNCHANGED vars PROVE WebInv'
  <2>1. UNCHANGED screen /\ UNCHANGED auth /\ UNCHANGED <<request, orders>>
    BY <1>8 DEF vars
  <2>2. SessionFits' /\ KnownStays
    BY <1>1, <2>1, SessionStep
  <2> QED
    BY <1>1, <1>2, <2>1, <2>2, ChangeNone
<1> QED
  BY <1>3, <1>4, <1>5, <1>6, <1>7, <1>8, UserStep, NetworkStep DEF Next

-----------------------------------------------------------------------------
(* The theorems.                                                           *)

\* The strengthened invariant holds throughout: what is known of the ticket,
\* the session, the requests and the orders, whatever expires, races or is lost.
THEOREM WebInvariance == Spec => []WebInv
<1> QED
  BY InitWeb, NextWeb, PTL DEF Spec

\* The price in the ticket belongs to the market it is shown with, and so does
\* the one of every order sent, for any number of markets and prices.
THEOREM PriceFitsMarket == Spec => []PriceIsOfMarket
<1>1. WebInv => PriceIsOfMarket
  BY InvParts DEF HttpInv, TicketFits, RequestFits, PriceIsOfMarket
<1> QED
  BY <1>1, WebInvariance, PTL

\* A click makes one order at most, however many requests run into expired
\* tokens, retries and lost answers.
THEOREM ClicksAreNotDoubled == Spec => []OneOrderPerClick
<1>1. WebInv => OneOrderPerClick
  BY InvParts DEF HttpInv
<1> QED
  BY <1>1, WebInvariance, PTL

\* An order is its asker's, or the retry of a 401 after the browser's cookie
\* had gone over to someone else.
THEOREM OrdersAreTheAskers == Spec => []OrderIsTheAskers
<1>1. WebInv => OrderIsTheAskers
  BY InvParts DEF HttpInv, OrderFits, OrderIsTheAskers
<1> QED
  BY <1>1, WebInvariance, PTL
=============================================================================
