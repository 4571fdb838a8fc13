-------------------------- MODULE MarketDataProofs --------------------------
(***************************************************************************)
(* Proofs about market data: the throttled cache catches up with the book, *)
(* the live feed never goes back, the tape shows a trade at most twice,    *)
(* and a panel shows a foreign symbol only by a late answer, for any       *)
(* number of symbols, commands, selections, faults and restarts.           *)
(***************************************************************************)
EXTENDS MarketData, SequenceTheorems, TLAPS

-----------------------------------------------------------------------------
(* Sequences of messages.                                                  *)

\* What appending to a sequence does to its content and its order.
LEMMA AppendContent ==
    ASSUME NEW S, NEW f \in Seq(S), NEW e \in S
    PROVE  /\ Append(f, e) \in Seq(S) /\ Content(Append(f, e)) = Content(f) \cup {e}
           /\ Ordered(f) /\ (\A m \in Content(f) : Before(m, e)) => Ordered(Append(f, e))
<1>1. /\ Append(f, e) \in Seq(S) /\ Len(f) \in Nat /\ DOMAIN f = 1..Len(f)
      /\ DOMAIN Append(f, e) = 1..(Len(f) + 1)
      /\ Append(f, e)[Len(f) + 1] = e
      /\ \A i \in 1..Len(f) : Append(f, e)[i] = f[i]
  OBVIOUS
<1>2. PICK g : g = Append(f, e)
  OBVIOUS
<1>3. Content(g) = Content(f) \cup {e}
  BY <1>1, <1>2 DEF Content
<1>4. ASSUME Ordered(f), \A m \in Content(f) : Before(m, e) PROVE Ordered(g)
  <2> SUFFICES ASSUME NEW i \in DOMAIN g, NEW j \in DOMAIN g, i < j PROVE Before(g[i], g[j])
    BY DEF Ordered
  <2>1. i \in 1..Len(f) /\ g[i] = f[i] /\ f[i] \in Content(f)
    BY <1>1, <1>2 DEF Content
  <2>2. CASE j = Len(f) + 1
    BY <1>1, <1>2, <1>4, <2>1, <2>2
  <2>3. CASE j # Len(f) + 1
    <3>1. j \in 1..Len(f) /\ g[j] = f[j]
      BY <1>1, <1>2, <2>3
    <3> QED BY <1>1, <1>4, <2>1, <3>1 DEF Ordered
  <2> QED BY <2>2, <2>3
<1> QED
  BY <1>1, <1>2, <1>3, <1>4

\* And taking the head off it.
LEMMA TailContent ==
    ASSUME NEW S, NEW f \in Seq(S), f # <<>>
    PROVE  /\ Head(f) \in S /\ Tail(f) \in Seq(S)
           /\ Content(f) = Content(Tail(f)) \cup {Head(f)}
           /\ Ordered(f) => Ordered(Tail(f)) /\ \A m \in Content(Tail(f)) : Before(Head(f), m)
<1>1. /\ Head(f) \in S /\ Tail(f) \in Seq(S) /\ Len(f) \in Nat \ {0} /\ DOMAIN f = 1..Len(f)
      /\ DOMAIN Tail(f) = 1..(Len(f) - 1) /\ Head(f) = f[1]
      /\ \A i \in 1..(Len(f) - 1) : Tail(f)[i] = f[i + 1]
  OBVIOUS
<1>2. PICK g, h : g = Tail(f) /\ h = Head(f)
  OBVIOUS
<1>3. PICK n : n = Len(f)
  OBVIOUS
<1>4. /\ n \in Nat \ {0} /\ DOMAIN f = 1..n /\ DOMAIN g = 1..(n - 1) /\ h = f[1]
      /\ \A i \in 1..(n - 1) : g[i] = f[i + 1]
  BY <1>1, <1>2, <1>3
<1>5. Content(f) = Content(g) \cup {h}
  <2>1. Content(g) \cup {h} \subseteq Content(f)
    BY <1>4 DEF Content
  <2>2. ASSUME NEW m \in Content(f) PROVE m \in Content(g) \cup {h}
    <3>1. PICK i \in 1..n : m = f[i]
      BY <1>4, <2>2 DEF Content
    <3>2. CASE i = 1
      BY <1>4, <3>1, <3>2
    <3>3. CASE i # 1
      <4>1. i - 1 \in 1..(n - 1) /\ (i - 1) + 1 = i
        BY <1>4, <3>3
      <4> QED BY <1>4, <3>1, <4>1 DEF Content
    <3> QED BY <3>2, <3>3
  <2> QED BY <2>1, <2>2
<1>6. ASSUME Ordered(f) PROVE Ordered(g) /\ \A m \in Content(g) : Before(h, m)
  <2>1. Ordered(g)
    <3> SUFFICES ASSUME NEW i \in DOMAIN g, NEW j \in DOMAIN g, i < j PROVE Before(g[i], g[j])
      BY DEF Ordered
    <3>1. i + 1 \in 1..n /\ j + 1 \in 1..n /\ i + 1 < j + 1
      BY <1>4
    <3> QED BY <1>4, <1>6, <3>1 DEF Ordered
  <2>2. ASSUME NEW m \in Content(g) PROVE Before(h, m)
    <3>1. PICK i \in 1..(n - 1) : m = f[i + 1]
      BY <1>4, <2>2 DEF Content
    <3>2. i + 1 \in 1..n /\ 1 \in 1..n /\ 1 < i + 1
      BY <1>4
    <3> QED BY <1>4, <1>6, <3>1, <3>2 DEF Ordered
  <2> QED BY <2>1, <2>2
<1> QED
  BY <1>1, <1>2, <1>5, <1>6

\* One symbol's part of the feed changes.
LEMMA FeedChange ==
    ASSUME NEW f \in [Symbols -> Seq(Message)], NEW s \in Symbols, NEW g
    PROVE  LET h == [f EXCEPT ![s] = g] IN
           /\ h[s] = g /\ \A t \in Symbols : t # s => h[t] = f[t]
           /\ Contents(h) \subseteq Contents(f) \cup Content(g)
           /\ Content(f[s]) \subseteq Contents(f) /\ Content(g) \subseteq Contents(h)
<1> DEFINE h == [f EXCEPT ![s] = g]
<1>1. h[s] = g /\ \A t \in Symbols : t # s => h[t] = f[t]
  OBVIOUS
<1> HIDE DEF h
<1>2. Contents(h) \subseteq Contents(f) \cup Content(g)
  BY <1>1 DEF Contents
<1>3. Content(f[s]) \subseteq Contents(f) /\ Content(g) \subseteq Contents(h)
  BY <1>1 DEF Contents
<1> QED
  BY <1>1, <1>2, <1>3 DEF h

-----------------------------------------------------------------------------
(* The feed, from the outbox to the browser.                               *)

\* Forgetting what was received, or losing the wire, disturbs nothing.
LEMMA FeedForgets ==
    ASSUME NEW f, NEW w, NEW past, NEW waiting, NEW newest, FeedFits(f, w, past, waiting, newest),
           NEW p \in SUBSET past
    PROVE  FeedFits(f, w, p, waiting, newest) /\ FeedFits(f, <<>>, p, waiting, newest)
<1>1. Content(<<>>) = {} /\ Ordered(<<>>)
  BY DEF Content, Ordered
<1> QED
  BY <1>1 DEF FeedFits

\* An event with a number of its own is committed.
LEMMA FeedGrows ==
    ASSUME NEW f \in [Symbols -> Seq(Message)], NEW w, NEW past, NEW waiting, NEW newest \in Nat,
           past \cup Content(w) \cup waiting \subseteq Message,
           FeedFits(f, w, past, waiting, newest), NEW s \in Symbols
    PROVE  LET e == Msg("feed", s, newest + 1)
               g == [f EXCEPT ![s] = Append(@, e)]
           IN  e \in Message /\ g \in [Symbols -> Seq(Message)] /\ FeedFits(g, w, past, waiting, newest + 1)
<1>1. PICK e : e = Msg("feed", s, newest + 1)
  OBVIOUS
<1>2. e \in Message /\ e.via = "feed" /\ e.symbol = s /\ e.version = newest + 1
  BY <1>1 DEF Msg, Message
<1>3. PICK q : q = Append(f[s], e)
  OBVIOUS
<1>4. PICK g : g = [f EXCEPT ![s] = q]
  OBVIOUS
<1>5. q \in Seq(Message) /\ Content(q) = Content(f[s]) \cup {e} /\ f[s] \in Seq(Message)
  BY <1>2, <1>3, AppendContent
<1>6. /\ g[s] = q /\ \A t \in Symbols : t # s => g[t] = f[t]
      /\ Contents(g) \subseteq Contents(f) \cup {e} /\ Content(f[s]) \subseteq Contents(f)
  BY <1>4, <1>5, FeedChange
<1>7. \A m \in Message : /\ Sent(m, newest) => Before(m, e) /\ Sent(m, newest + 1)
                         /\ m.version <= newest => Apart(m, e) /\ m.version <= newest + 1
  BY <1>2 DEF Message, Sent, Before, Apart
<1>8. Contents(f) \subseteq Message
  BY DEF Contents, Content
<1>9. \A m \in Contents(f) : Before(m, e) /\ m.version <= newest + 1
  BY <1>7, <1>8 DEF FeedFits, Sent
<1>10. Ordered(q)
  BY <1>2, <1>3, <1>5, <1>6, <1>9, AppendContent DEF FeedFits
<1>11. FeedFits(g, w, past, waiting, newest + 1)
  <2>1. \A t \in Symbols : Ordered(g[t])
    BY <1>6, <1>10 DEF FeedFits
  <2>2. \A t \in Symbols : \A m \in Content(g[t]) : m.symbol = t
    BY <1>2, <1>5, <1>6 DEF FeedFits
  <2>3. \A m \in past \cup Content(w) : Sent(m, newest + 1) /\ Before(m, e)
    BY <1>7 DEF FeedFits
  <2>4. \A m \in waiting : m.version <= newest + 1 /\ Apart(m, e)
    BY <1>7 DEF FeedFits
  <2>5. \A m \in Contents(g) : m.via \in {"feed", "again"} /\ m.version <= newest + 1
    BY <1>2, <1>6, <1>9 DEF FeedFits
  <2> QED
    BY <1>6, <2>1, <2>2, <2>3, <2>4, <2>5 DEF FeedFits
<1>12. g \in [Symbols -> Seq(Message)]
  BY <1>4, <1>5
<1> QED
  BY <1>1, <1>2, <1>3, <1>4, <1>11, <1>12

\* The oldest event of a symbol leaves the feed: for the wire, for the retry
\* tier, or for nobody.
LEMMA FeedShrinks ==
    ASSUME NEW f \in [Symbols -> Seq(Message)], NEW w \in Seq(Message), NEW past, NEW waiting,
           NEW newest \in Nat, FeedFits(f, w, past, waiting, newest), NEW s \in Symbols, f[s] # <<>>
    PROVE  LET e == Head(f[s])
               g == [f EXCEPT ![s] = Tail(@)]
           IN  /\ e \in Message /\ g \in [Symbols -> Seq(Message)] /\ Append(w, e) \in Seq(Message)
               /\ FeedFits(g, w, past, waiting, newest)
               /\ FeedFits(g, Append(w, e), past, waiting, newest)
               /\ FeedFits(g, w, past, waiting \cup {e}, newest)
<1>1. PICK e : e = Head(f[s])
  OBVIOUS
<1>2. PICK q : q = Tail(f[s])
  OBVIOUS
<1>3. PICK g : g = [f EXCEPT ![s] = q]
  OBVIOUS
<1>4. f[s] \in Seq(Message) /\ Ordered(f[s])
  BY DEF FeedFits
<1>5. /\ e \in Message /\ q \in Seq(Message) /\ Content(f[s]) = Content(q) \cup {e}
      /\ Ordered(q) /\ \A m \in Content(q) : Before(e, m)
  BY <1>1, <1>2, <1>4, TailContent
<1>6. /\ g[s] = q /\ \A t \in Symbols : t # s => g[t] = f[t]
      /\ Contents(g) \subseteq Contents(f) /\ e \in Contents(f)
  <2>1. Contents(g) \subseteq Contents(f) \cup Content(q) /\ Content(f[s]) \subseteq Contents(f)
    BY <1>3, FeedChange
  <2> QED BY <1>3, <1>5, <2>1
<1>7. e.symbol = s /\ e.via \in {"feed", "again"} /\ e.version <= newest /\ Sent(e, newest)
  BY <1>5, <1>6 DEF FeedFits, Sent
<1>8. \A m \in Contents(g) : Before(e, m)
  <2> SUFFICES ASSUME NEW t \in Symbols, NEW m \in Content(g[t]) PROVE Before(e, m)
    BY DEF Contents
  <2>1. CASE t = s
    BY <1>5, <1>6, <2>1
  <2>2. CASE t # s
    <3>1. m.symbol = t
      BY <1>6, <2>2 DEF FeedFits
    <3> QED BY <1>7, <2>2, <3>1 DEF Before, Apart
  <2> QED BY <2>1, <2>2
<1>9. FeedFits(g, w, past, waiting, newest)
  <2>1. \A t \in Symbols : Ordered(g[t]) /\ \A m \in Content(g[t]) : m.symbol = t
    BY <1>5, <1>6 DEF FeedFits
  <2> QED BY <1>6, <2>1 DEF FeedFits
<1>10. FeedFits(g, Append(w, e), past, waiting, newest) /\ Append(w, e) \in Seq(Message)
  <2>1. PICK v : v = Append(w, e)
    OBVIOUS
  <2>2. v \in Seq(Message) /\ Content(v) = Content(w) \cup {e}
    BY <1>5, <2>1, AppendContent
  <2>3. Ordered(v)
    BY <1>5, <1>6, <2>1, AppendContent DEF FeedFits
  <2>4. (\A m \in past : Before(m, e)) /\ (\A m \in waiting : Apart(m, e))
    BY <1>6 DEF FeedFits
  <2>5. e.symbol \in Symbols /\ e.via # "rest"
    BY <1>7
  <2> QED
    BY <1>7, <1>8, <1>9, <2>1, <2>2, <2>3, <2>4, <2>5 DEF FeedFits
<1>11. FeedFits(g, w, past, waiting \cup {e}, newest)
  <2>1. \A m \in past \cup Content(w) : Apart(e, m)
    BY <1>6 DEF FeedFits, Before, Apart
  <2>2. \A m \in Contents(g) : Apart(e, m)
    BY <1>8 DEF Before
  <2>3. \A m \in waiting : Apart(m, e) /\ Apart(e, m)
    BY <1>6 DEF FeedFits, Apart
  <2> QED
    BY <1>7, <1>9, <2>1, <2>2, <2>3 DEF FeedFits
<1>12. g \in [Symbols -> Seq(Message)]
  BY <1>3, <1>5
<1> QED
  BY <1>1, <1>2, <1>3, <1>5, <1>9, <1>10, <1>11, <1>12

\* A retried event comes back behind the others.
LEMMA FeedRetries ==
    ASSUME NEW f \in [Symbols -> Seq(Message)], NEW w, NEW past, NEW waiting \in SUBSET Message,
           NEW newest \in Nat, FeedFits(f, w, past, waiting, newest),
           NEW m \in waiting, m.symbol \in Symbols
    PROVE  LET g == [f EXCEPT ![m.symbol] = Append(@, [m EXCEPT !.via = "again"])] IN
           g \in [Symbols -> Seq(Message)] /\ FeedFits(g, w, past, waiting \ {m}, newest)
<1>1. PICK e : e = [m EXCEPT !.via = "again"]
  OBVIOUS
<1>2. PICK s : s = m.symbol
  OBVIOUS
<1>3. /\ e \in Message /\ e.via = "again" /\ e.symbol = s /\ e.version = m.version /\ s \in Symbols
      /\ m \in Message /\ m.version <= newest
  BY <1>1, <1>2 DEF Message, FeedFits
<1>4. PICK q : q = Append(f[s], e)
  OBVIOUS
<1>5. PICK g : g = [f EXCEPT ![s] = q]
  OBVIOUS
<1>6. q \in Seq(Message) /\ Content(q) = Content(f[s]) \cup {e} /\ f[s] \in Seq(Message)
  BY <1>3, <1>4, AppendContent
<1>7. /\ g[s] = q /\ \A t \in Symbols : t # s => g[t] = f[t]
      /\ Contents(g) \subseteq Contents(f) \cup {e} /\ Content(f[s]) \subseteq Contents(f)
  BY <1>3, <1>5, <1>6, FeedChange
<1>8. \A n : Apart(m, n) => Before(n, e)
  BY <1>2, <1>3 DEF Apart, Before
<1>9. Ordered(q)
  <2>1. \A n \in Content(f[s]) : Before(n, e)
    BY <1>7, <1>8 DEF FeedFits
  <2> QED BY <1>3, <1>4, <1>6, <2>1, AppendContent DEF FeedFits
<1>10. FeedFits(g, w, past, waiting \ {m}, newest)
  <2>1. \A t \in Symbols : Ordered(g[t])
    BY <1>7, <1>9 DEF FeedFits
  <2>2. \A t \in Symbols : \A n \in Content(g[t]) : n.symbol = t
    BY <1>3, <1>6, <1>7 DEF FeedFits
  <2>3. \A n \in past \cup Content(w) : Before(n, e)
    BY <1>8 DEF FeedFits
  <2>4. \A n \in waiting \ {m} : Apart(n, e)
    BY <1>2, <1>3 DEF FeedFits, Apart
  <2>5. \A n \in Contents(g) : n.via \in {"feed", "again"} /\ n.version <= newest
    BY <1>3, <1>7 DEF FeedFits
  <2> QED
    BY <1>7, <2>1, <2>2, <2>3, <2>4, <2>5 DEF FeedFits
<1>11. g \in [Symbols -> Seq(Message)]
  BY <1>5, <1>6
<1> QED
  BY <1>1, <1>2, <1>4, <1>5, <1>10, <1>11

\* The book that a subscriber gets goes on the wire, on the orderbook page only.
LEMMA WireGetsSnapshot ==
    ASSUME NEW f, NEW w \in Seq(Message), NEW past, NEW waiting, NEW newest,
           FeedFits(f, w, past, waiting, newest), panel = "orderbook",
           NEW s \in Symbols, NEW v \in Int
    PROVE  LET e == Msg("snapshot", s, v) IN
           Append(w, e) \in Seq(Message) /\ FeedFits(f, Append(w, e), past, waiting, newest)
<1>1. PICK e : e = Msg("snapshot", s, v)
  OBVIOUS
<1>2. e \in Message /\ e.via = "snapshot" /\ e.symbol = s
  BY <1>1 DEF Msg, Message
<1>3. PICK u : u = Append(w, e)
  OBVIOUS
<1>4. \A m : Before(m, e) /\ Before(e, m) /\ Apart(m, e)
  BY <1>2 DEF Before, Apart
<1>5. u \in Seq(Message) /\ Content(u) = Content(w) \cup {e} /\ Ordered(u)
  BY <1>2, <1>3, <1>4, AppendContent DEF FeedFits
<1>6. Sent(e, newest) /\ e.symbol \in Symbols /\ e.via # "rest"
  BY <1>2 DEF Sent
<1> QED
  BY <1>1, <1>3, <1>4, <1>5, <1>6 DEF FeedFits

\* The browser receives the next message.
LEMMA WireShrinks ==
    ASSUME NEW f, NEW w \in Seq(Message), NEW past, NEW waiting, NEW newest,
           FeedFits(f, w, past, waiting, newest), w # <<>>
    PROVE  /\ Head(w) \in Message /\ Head(w) \in Content(w) /\ Tail(w) \in Seq(Message)
           /\ FeedFits(f, Tail(w), past \cup {Head(w)}, waiting, newest)
<1>1. PICK e, u : e = Head(w) /\ u = Tail(w)
  OBVIOUS
<1>2. /\ e \in Message /\ u \in Seq(Message) /\ Content(w) = Content(u) \cup {e}
      /\ Ordered(u) /\ \A m \in Content(u) : Before(e, m)
  BY <1>1, TailContent DEF FeedFits
<1>3. FeedFits(f, u, past \cup {e}, waiting, newest)
  BY <1>2 DEF FeedFits
<1> QED
  BY <1>1, <1>2, <1>3

-----------------------------------------------------------------------------
(* Steps.  The parts of the invariant, and what leaves each alone.         *)

ShownInv == OwnSymbolUnlessLateAnswer /\ TapeCopies /\ (panel # "tape" => Len(shown) <= 1)
TradesInv ==
    /\ \A s \in Symbols : \A i, j \in DOMAIN trades[s] : trades[s][i] = trades[s][j] => i = j
    /\ \A s \in Symbols : \A i \in DOMAIN trades[s] : trades[s][i] <= settles
LEMMA Parts ==
    /\ DataInv <=> TypeOK /\ CacheInv /\ FeedInv /\ TradesInv /\ ShownInv
    /\ DataInv' <=> TypeOK' /\ CacheInv' /\ FeedInv' /\ TradesInv' /\ ShownInv'
<1> QED
  BY DEF DataInv, TapeInv, TradesInv, ShownInv

\* The feed fits after a step when it fits with what has been received by then.
LEMMA FeedNext ==
    ASSUME panel' = panel, NEW past, Past' \subseteq past,
           FeedFits(feed', wire', past, later', settles'),
           (panel # "orderbook" => \A s \in Symbols : snapshot[s] = None)',
           (\A s \in Symbols : ticks[s] = NoTick \/ (ticks[s].symbol = s /\ panel = "list"))'
    PROVE  FeedInv'
<1>1. PICK f, w, p, q, n : f = feed' /\ w = wire' /\ p = Past' /\ q = later' /\ n = settles'
  OBVIOUS
<1>2. FeedFits(f, w, p, q, n)
  BY <1>1, FeedForgets
<1>3. FeedFits(f, w, p, q, n)'
  BY <1>2 DEF FeedFits, Ordered, Before, Apart, Sent, Contents, Content
<1>4. FeedFits(feed, wire, Past, later, settles)'
  BY <1>1, <1>3 DEF FeedFits, Ordered, Before, Apart, Sent, Contents, Content
<1> QED
  BY <1>4 DEF FeedInv

LEMMA FeedStays ==
    ASSUME FeedInv, UNCHANGED <<panel, feed, wire, later, settles, shown, ticks>>,
           panel # "orderbook" => \A s \in Symbols : snapshot'[s] = snapshot[s]
    PROVE  FeedInv'
<1>1. PICK p : p = Past
  OBVIOUS
<1>2. Past' = p
  BY <1>1 DEF Past, Content
<1>3. FeedFits(feed', wire', p, later', settles')
  BY <1>1 DEF FeedInv
<1> QED
  BY <1>2, <1>3, FeedNext DEF FeedInv

\* What was received and what is under way are messages.
LEMMA PastIsTyped ==
    ASSUME TypeOK
    PROVE  Past \cup Content(wire) \cup later \subseteq Message
<1>1. wire \in Seq(Message) /\ shown \in Seq(Message) /\ later \subseteq Message
      /\ \A s \in Symbols : ticks[s] \in Message
  BY DEF TypeOK
<1>2. \A f \in Seq(Message) : Content(f) \subseteq Message
  BY DEF Content
<1> QED
  BY <1>1, <1>2 DEF Past

LEMMA CacheStays ==
    ASSUME CacheInv, UNCHANGED <<panel, book, cache, writing, pending>>, faults' = 0 => faults = 0
    PROVE  CacheInv'
<1> QED
  BY DEF CacheInv

LEMMA TradesStay ==
    ASSUME TradesInv, TypeOK, trades' = trades, settles' = settles \/ settles' = settles + 1
    PROVE  TradesInv'
<1>1. \A s \in Symbols : trades[s] \in Seq(Nat)
  BY DEF TypeOK
<1>2. settles \in Nat
  BY DEF TypeOK
<1>3. ASSUME NEW s \in Symbols, NEW i \in DOMAIN trades[s] PROVE trades[s][i] <= settles'
  <2>1. trades[s][i] \in Nat /\ trades[s][i] <= settles
    BY <1>1, <1>3 DEF TradesInv
  <2> QED BY <1>2, <2>1
<1> QED
  BY <1>3 DEF TradesInv

LEMMA ShownStays ==
    ASSUME ShownInv, UNCHANGED <<panel, selected, shown, since>>
    PROVE  ShownInv'
<1> QED
  BY DEF ShownInv, OwnSymbolUnlessLateAnswer, TapeCopies

-----------------------------------------------------------------------------
(* The matcher's steps.                                                    *)

\* A write is issued: the last one under way is of the given book.
LEMMA WriteIssued ==
    ASSUME NEW q \in Seq(Int), NEW v \in Int
    PROVE  /\ Append(q, v) \in Seq(Int) /\ Append(q, v) # <<>>
           /\ Append(q, v)[Len(Append(q, v))] = v
<1> QED
  OBVIOUS

\* A write is done or has failed: the last one stays the last.
LEMMA WriteTaken ==
    ASSUME NEW q \in Seq(Int), q # <<>>
    PROVE  /\ Tail(q) \in Seq(Int) /\ Head(q) \in Int
           /\ Tail(q) = <<>> => Head(q) = q[Len(q)]
           /\ Tail(q) # <<>> => Tail(q)[Len(Tail(q))] = q[Len(q)]
<1>1. Len(q) \in Nat \ {0} /\ Len(Tail(q)) = Len(q) - 1 /\ Head(q) = q[1] /\ Tail(q) \in Seq(Int)
  OBVIOUS
<1>2. Tail(q) = <<>> <=> Len(q) = 1
  <2>1. Tail(q) = <<>> <=> Len(Tail(q)) = 0
    BY <1>1, EmptySeq
  <2> QED BY <1>1, <2>1
<1>3. \A i \in 1..(Len(q) - 1) : Tail(q)[i] = q[i + 1]
  OBVIOUS
<1>4. Len(q) # 1 => Len(q) - 1 \in 1..(Len(q) - 1) /\ (Len(q) - 1) + 1 = Len(q)
  BY <1>1
<1>5. Head(q) \in Int
  OBVIOUS
<1> QED
  BY <1>1, <1>2, <1>3, <1>4, <1>5

\* A step that concerns the book, the writes and the timer of one symbol.
LEMMA CacheOne ==
    ASSUME CacheInv, panel' = panel, faults' = 0 => faults = 0, NEW s \in Symbols,
           \A t \in Symbols : t # s => /\ book'[t] = book[t] /\ cache'[t] = cache[t]
                                       /\ writing'[t] = writing[t] /\ pending'[t] = pending[t],
           panel \in Cached /\ faults' = 0 /\ ~pending'[s] =>
               book'[s] = IF writing'[s] = <<>> THEN cache'[s] ELSE writing'[s][Len(writing'[s])]
    PROVE  CacheInv'
<1> SUFFICES ASSUME panel \in Cached, faults' = 0, NEW t \in Symbols, ~pending'[t]
             PROVE  book'[t] = IF writing'[t] = <<>> THEN cache'[t] ELSE writing'[t][Len(writing'[t])]
  BY DEF CacheInv
<1>1. CASE t = s
  BY <1>1
<1>2. CASE t # s
  BY <1>2 DEF CacheInv
<1> QED
  BY <1>1, <1>2

\* Settling commits one event, if the panel can see it, and schedules a write.
LEMMA SettleStep ==
    ASSUME DataInv, NEW s \in Symbols, SettleTrade(s) \/ SettleCancel(s)
    PROVE  DataInv'
<1> USE Parts
<1>1. Settle(s) /\ feed' = [feed EXCEPT ![s] = Append(@, Msg("feed", s, settles'))]
  BY DEF SettleTrade, SettleCancel
<1>2. /\ settles' = settles + 1
      /\ IF panel \in Cached
         THEN book' = [book EXCEPT ![s] = settles'] /\ saved' = [saved EXCEPT ![s] = settles']
         ELSE UNCHANGED <<book, saved>>
      /\ Schedule(s, settles')
      /\ UNCHANGED <<panel, later, cache, wire, snapshot, selected, rest, kept, ticks, shown, since, faults>>
  BY <1>1 DEF Settle, gateway, browser
<1>3. settles \in Nat /\ settles' \in Nat /\ settles' \in Int
  BY <1>2 DEF TypeOK
<1>4. \/ trades' = trades
      \/ trades' = [trades EXCEPT ![s] = <<settles'>> \o @]
  BY DEF SettleTrade, SettleCancel
<1>5. /\ book' \in [Symbols -> Int] /\ saved' \in [Symbols -> Int]
      /\ pending' \in [Symbols -> BOOLEAN] /\ writing' \in [Symbols -> Seq(Int)]
  <2>1. book \in [Symbols -> Int] /\ saved \in [Symbols -> Int] /\ pending \in [Symbols -> BOOLEAN]
        /\ writing \in [Symbols -> Seq(Int)]
    BY DEF TypeOK
  <2>2. Append(writing[s], settles') \in Seq(Int)
    BY <1>3, <2>1, WriteIssued
  <2>3. book' \in [Symbols -> Int] /\ saved' \in [Symbols -> Int]
    BY <1>2, <1>3, <2>1
  <2> QED
    BY <1>2, <2>1, <2>2, <2>3 DEF Schedule
<1>6. CacheInv'
  <2>1. /\ \A t \in Symbols : t # s => /\ book'[t] = book[t] /\ cache'[t] = cache[t]
                                       /\ writing'[t] = writing[t] /\ pending'[t] = pending[t]
    <3>1. book \in [Symbols -> Int] /\ writing \in [Symbols -> Seq(Int)] /\ pending \in [Symbols -> BOOLEAN]
      BY DEF TypeOK
    <3>2. \A t \in Symbols : t # s => book'[t] = book[t] /\ cache'[t] = cache[t]
      BY <1>2, <3>1
    <3>3. /\ pending' = pending \/ pending' = [pending EXCEPT ![s] = TRUE]
          /\ writing' = writing \/ \E q : writing' = [writing EXCEPT ![s] = q]
      BY <1>2 DEF Schedule
    <3> QED BY <3>1, <3>2, <3>3
  <2>2. ASSUME panel \in Cached, ~pending'[s]
        PROVE  book'[s] = IF writing'[s] = <<>> THEN cache'[s] ELSE writing'[s][Len(writing'[s])]
    <3>1. book \in [Symbols -> Int] /\ writing \in [Symbols -> Seq(Int)] /\ pending \in [Symbols -> BOOLEAN]
      BY DEF TypeOK
    <3>2. book'[s] = settles'
      BY <1>2, <2>2, <3>1
    <3>3. ~hot[s]
      BY <1>2, <2>2, <3>1 DEF Schedule
    <3>4. writing' = [writing EXCEPT ![s] = Append(@, settles')]
      BY <1>2, <2>2, <3>3 DEF Schedule
    <3>5. writing'[s] = Append(writing[s], settles') /\ writing[s] \in Seq(Int)
      BY <3>1, <3>4
    <3> QED BY <1>3, <3>2, <3>5, WriteIssued
  <2> QED
    BY <1>2, <2>1, <2>2, CacheOne
<1>7. feed' \in [Symbols -> Seq(Message)] /\ FeedFits(feed', wire, Past, later, settles')
  <2>1. Past \cup Content(wire) \cup later \subseteq Message
    BY PastIsTyped
  <2> QED
    BY <1>1, <1>2, <1>3, <2>1, FeedGrows DEF FeedInv, TypeOK
<1>8. FeedInv'
  <2>1. PICK p : p = Past
    OBVIOUS
  <2>2. Past' = p
    BY <1>2, <2>1 DEF Past, Content
  <2> QED
    BY <1>2, <1>7, <2>1, <2>2, FeedNext DEF FeedInv
<1>9. trades' \in [Symbols -> Seq(Nat)] /\ TradesInv'
  <2>1. CASE trades' = trades
    BY <1>2, <2>1, TradesStay DEF TypeOK
  <2>2. CASE trades' = [trades EXCEPT ![s] = <<settles'>> \o @]
    <3>1. trades \in [Symbols -> Seq(Nat)] /\ trades[s] \in Seq(Nat)
      BY DEF TypeOK
    <3>2. PICK q : q = <<settles'>> \o trades[s]
      OBVIOUS
    <3>3. /\ q \in Seq(Nat) /\ Len(q) = Len(trades[s]) + 1 /\ q[1] = settles' /\ Len(trades[s]) \in Nat
          /\ \A i \in 2..Len(q) : q[i] = trades[s][i - 1]
      BY <1>3, <3>1, <3>2
    <3>4. DOMAIN q = 1..Len(q) /\ DOMAIN trades[s] = 1..Len(trades[s])
      BY <3>1, <3>3
    <3>5. trades' \in [Symbols -> Seq(Nat)] /\ trades'[s] = q /\ \A t \in Symbols : t # s => trades'[t] = trades[t]
      BY <2>2, <3>1, <3>2, <3>3
    <3>6. \A i \in 2..Len(q) : i - 1 \in DOMAIN trades[s] /\ q[i] = trades[s][i - 1] /\ q[i] <= settles
      BY <3>3, <3>4 DEF TradesInv
    <3>7. ASSUME NEW i \in DOMAIN q, NEW j \in DOMAIN q, q[i] = q[j] PROVE i = j
      <4>1. \A k \in DOMAIN q : k = 1 \/ k \in 2..Len(q)
        BY <3>3, <3>4
      <4>2. CASE i = 1 /\ j = 1
        BY <4>2
      <4>3. CASE i \in 2..Len(q) /\ j \in 2..Len(q)
        <5>1. i - 1 = j - 1
          BY <3>6, <3>7, <4>3 DEF TradesInv
        <5> QED BY <3>4, <5>1
      <4>4. ASSUME NEW k \in 2..Len(q) PROVE q[k] # q[1]
        <5>1. q[k] \in Nat
          BY <3>3, <3>4, <4>4
        <5> QED BY <1>2, <1>3, <3>3, <3>6, <4>4, <5>1
      <4> QED BY <3>7, <4>1, <4>2, <4>3, <4>4
    <3>8. ASSUME NEW i \in DOMAIN q PROVE q[i] <= settles'
      <4>1. q[i] \in Nat /\ (i = 1 \/ i \in 2..Len(q))
        BY <3>3, <3>4, <3>8
      <4> QED BY <1>2, <1>3, <3>3, <3>6, <4>1
    <3>9. ASSUME NEW t \in Symbols, t # s, NEW i \in DOMAIN trades[t] PROVE trades[t][i] <= settles'
      <4>1. trades[t] \in Seq(Nat)
        BY <3>1
      <4>2. trades[t][i] \in Nat /\ trades[t][i] <= settles
        BY <3>9, <4>1 DEF TradesInv
      <4> QED BY <1>2, <1>3, <4>2
    <3>10. \A t \in Symbols : \A i, j \in DOMAIN trades'[t] : trades'[t][i] = trades'[t][j] => i = j
      BY <3>5, <3>7 DEF TradesInv
    <3>11. \A t \in Symbols : \A i \in DOMAIN trades'[t] : trades'[t][i] <= settles'
      BY <3>5, <3>8, <3>9
    <3> QED BY <3>5, <3>10, <3>11 DEF TradesInv
  <2> QED
    BY <1>4, <2>1, <2>2
<1>10. TypeOK'
  BY <1>2, <1>3, <1>5, <1>7, <1>9 DEF TypeOK
<1> QED
  BY <1>2, <1>6, <1>8, <1>9, <1>10, ShownStays

\* A number is used up by a command that rolls back.
LEMMA FeedAges ==
    ASSUME NEW f \in [Symbols -> Seq(Message)], NEW w, NEW past, NEW waiting, NEW newest \in Nat,
           past \cup Content(w) \cup waiting \subseteq Message,
           FeedFits(f, w, past, waiting, newest)
    PROVE  FeedFits(f, w, past, waiting, newest + 1)
<1>1. \A m \in Message : /\ Sent(m, newest) => Sent(m, newest + 1)
                         /\ m.version <= newest => m.version <= newest + 1
  BY DEF Message, Sent
<1>2. Contents(f) \subseteq Message
  BY DEF Contents, Content
<1>3. \A m \in past \cup Content(w) : Sent(m, newest + 1)
  BY <1>1 DEF FeedFits
<1>4. \A m \in Contents(f) \cup waiting : m.via \in {"feed", "again"} /\ m.version <= newest + 1
  BY <1>1, <1>2 DEF FeedFits
<1> QED
  BY <1>3, <1>4 DEF FeedFits

\* The other steps of the matcher.
LEMMA MatcherStep ==
    ASSUME DataInv, NEW s \in Symbols,
           \/ SettleRollsBack(s) \/ TimerFires(s) \/ WriteDone(s) \/ WriteFails(s) \/ CoolsDown(s)
           \/ CacheExpires(s)
    PROVE  DataInv'
<1> USE Parts
<1>1. /\ book \in [Symbols -> Int] /\ cache \in [Symbols -> Int] /\ writing \in [Symbols -> Seq(Int)]
      /\ pending \in [Symbols -> BOOLEAN] /\ faults \in Nat /\ settles \in Nat
  BY DEF TypeOK
<1>2. /\ UNCHANGED <<panel, saved, trades, feed, later, wire, snapshot, rest, kept, selected, ticks, shown, since>>
      /\ settles' = settles \/ settles' = settles + 1
      /\ faults' = faults \/ faults' = faults + 1
  BY DEF SettleRollsBack, TimerFires, WriteDone, WriteFails, CoolsDown, CacheExpires, Fault, gateway,
         browser, bounds
<1>3. settles' \in Nat /\ faults' \in Nat /\ (faults' = 0 => faults' = faults) /\ faults + 1 # 0
  BY <1>1, <1>2
<1>4. FeedInv'
  <2>1. PICK p : p = Past
    OBVIOUS
  <2>2. Past' = p
    BY <1>2, <2>1 DEF Past, Content
  <2>3. FeedFits(feed, wire, p, later, settles')
    <3>1. FeedFits(feed, wire, Past, later, settles)
      BY DEF FeedInv
    <3>2. feed \in [Symbols -> Seq(Message)] /\ Past \cup Content(wire) \cup later \subseteq Message
      BY PastIsTyped DEF TypeOK
    <3> QED BY <1>1, <1>2, <2>1, <3>1, <3>2, FeedAges
  <2> QED
    BY <1>2, <2>2, <2>3, FeedNext DEF FeedInv
<1>5. TradesInv' /\ ShownInv'
  BY <1>2, TradesStay, ShownStays
<1>6. ASSUME book' \in [Symbols -> Int], cache' \in [Symbols -> Int], writing' \in [Symbols -> Seq(Int)],
             pending' \in [Symbols -> BOOLEAN], CacheInv'
      PROVE  DataInv'
  <2>1. TypeOK'
    BY <1>2, <1>3, <1>6 DEF TypeOK
  <2> QED
    BY <1>4, <1>5, <1>6, <2>1
<1>7. CASE SettleRollsBack(s)
  <2>1. book' = [book EXCEPT ![s] = settles'] /\ UNCHANGED <<cache, writing, pending>> /\ faults' = faults + 1
    BY <1>7 DEF SettleRollsBack
  <2>2. CacheInv'
    BY <1>3, <2>1 DEF CacheInv
  <2> QED
    BY <1>1, <1>3, <1>6, <2>1, <2>2
<1>8. CASE TimerFires(s)
  <2>1. /\ pending' = [pending EXCEPT ![s] = FALSE] /\ writing' = [writing EXCEPT ![s] = Append(@, book[s])]
        /\ UNCHANGED <<book, cache>>
    BY <1>8 DEF TimerFires
  <2>2. writing'[s] = Append(writing[s], book[s]) /\ writing[s] \in Seq(Int) /\ book[s] \in Int
    BY <1>1, <2>1
  <2>3. writing'[s] \in Seq(Int) /\ writing'[s] # <<>> /\ writing'[s][Len(writing'[s])] = book[s]
    BY <2>2, WriteIssued
  <2>4. \A t \in Symbols : t # s => writing'[t] = writing[t] /\ pending'[t] = pending[t]
    BY <1>1, <2>1
  <2>5. CacheInv'
    BY <1>2, <1>3, <2>1, <2>3, <2>4, CacheOne
  <2>6. writing' \in [Symbols -> Seq(Int)] /\ pending' \in [Symbols -> BOOLEAN]
    <3>1. Append(writing[s], book[s]) \in Seq(Int)
      BY <2>2, WriteIssued
    <3> QED BY <1>1, <2>1, <3>1
  <2> QED
    BY <1>1, <1>6, <2>1, <2>5, <2>6
<1>9. CASE WriteDone(s) \/ WriteFails(s)
  <2>1. /\ writing[s] # <<>> /\ writing' = [writing EXCEPT ![s] = Tail(@)] /\ UNCHANGED <<book, pending>>
        /\ \/ cache' = [cache EXCEPT ![s] = Head(writing[s])]
           \/ cache' = cache /\ faults' = faults + 1
    BY <1>9 DEF WriteDone, WriteFails, Fault
  <2>2. writing'[s] = Tail(writing[s]) /\ writing[s] \in Seq(Int)
    BY <1>1, <2>1
  <2>3. /\ Tail(writing[s]) \in Seq(Int) /\ Head(writing[s]) \in Int
        /\ Tail(writing[s]) = <<>> => Head(writing[s]) = writing[s][Len(writing[s])]
        /\ Tail(writing[s]) # <<>> =>
              Tail(writing[s])[Len(Tail(writing[s]))] = writing[s][Len(writing[s])]
    BY <2>1, <2>2, WriteTaken
  <2>4. \A t \in Symbols : t # s => writing'[t] = writing[t] /\ cache'[t] = cache[t]
    BY <1>1, <2>1
  <2>5. ASSUME panel \in Cached, faults' = 0, ~pending'[s]
        PROVE  book'[s] = IF writing'[s] = <<>> THEN cache'[s] ELSE writing'[s][Len(writing'[s])]
    <3>1. faults = 0 /\ ~pending[s] /\ cache'[s] = Head(writing[s])
      BY <1>1, <1>3, <2>1, <2>5
    <3>2. book[s] = writing[s][Len(writing[s])]
      BY <2>1, <2>5, <3>1 DEF CacheInv
    <3> QED BY <2>1, <2>2, <2>3, <3>1, <3>2
  <2>6. CacheInv'
    BY <1>2, <1>3, <2>1, <2>4, <2>5, CacheOne
  <2>7. writing' \in [Symbols -> Seq(Int)] /\ cache' \in [Symbols -> Int]
    BY <1>1, <2>1, <2>3
  <2> QED
    BY <1>1, <1>6, <2>1, <2>6, <2>7
<1>10. CASE CoolsDown(s)
  <2>1. UNCHANGED <<book, cache, writing, pending, faults>>
    BY <1>10 DEF CoolsDown, bounds
  <2> QED
    BY <1>1, <1>2, <1>6, <2>1, CacheStays
<1>11. CASE CacheExpires(s)
  <2>1. UNCHANGED <<book, writing, pending>> /\ faults' = faults + 1 /\ cache' = [cache EXCEPT ![s] = Missing]
    BY <1>11 DEF CacheExpires, Fault
  <2>2. CacheInv'
    BY <1>3, <2>1 DEF CacheInv
  <2> QED
    BY <1>1, <1>6, <2>1, <2>2 DEF Missing
<1> QED
  BY <1>7, <1>8, <1>9, <1>10, <1>11

\* The matcher restarts: every book is written anew.
LEMMA RestartStep ==
    ASSUME DataInv, Restart
    PROVE  DataInv'
<1> USE Parts
<1>1. /\ book' = saved /\ writing' = [s \in Symbols |-> <<saved[s]>>]
      /\ pending' = [s \in Symbols |-> FALSE]
      /\ UNCHANGED <<panel, saved, trades, feed, later, cache, wire, snapshot, rest, kept, selected,
                     ticks, shown, since, settles, faults>>
  BY DEF Restart, gateway, browser
<1>2. TypeOK'
  <2>1. saved \in [Symbols -> Int]
    BY DEF TypeOK
  <2>2. writing' \in [Symbols -> Seq(Int)] /\ pending' \in [Symbols -> BOOLEAN]
    BY <1>1, <2>1
  <2> QED BY <1>1, <2>1, <2>2 DEF TypeOK
<1>3. CacheInv'
  <2>1. \A s \in Symbols : writing'[s] = <<saved[s]>> /\ book'[s] = saved[s]
    BY <1>1
  <2>2. \A v : <<v>> # <<>> /\ <<v>>[Len(<<v>>)] = v
    OBVIOUS
  <2> QED BY <1>1, <2>1, <2>2 DEF CacheInv
<1> QED
  BY <1>1, <1>2, <1>3, FeedStays, TradesStay, ShownStays

-----------------------------------------------------------------------------
(* The steps of fanout and gateway.                                        *)

LEMMA FanoutStep ==
    ASSUME DataInv, NEW s \in Symbols, Fanout(s) \/ FanoutFails(s) \/ FanoutAgain(s)
    PROVE  DataInv'
<1> USE Parts
<1>1. /\ UNCHANGED <<panel, book, saved, trades, cache, writing, pending, snapshot, rest, kept, selected,
                     ticks, shown, since, settles>>
      /\ faults' = faults \/ faults' = faults + 1
  BY DEF Fanout, FanoutFails, FanoutAgain, Fault, matcher, gateway, browser, bounds
<1>2. /\ feed \in [Symbols -> Seq(Message)] /\ wire \in Seq(Message) /\ later \in SUBSET Message
      /\ settles \in Nat /\ faults \in Nat
  BY DEF TypeOK
<1>3. faults' \in Nat /\ (faults' = 0 => faults = 0)
  BY <1>1, <1>2
<1>4. PICK p : p = Past
  OBVIOUS
<1>5. FeedFits(feed, wire, p, later, settles)
  BY <1>4 DEF FeedInv
<1>6. ASSUME feed' \in [Symbols -> Seq(Message)], wire' \in Seq(Message), later' \subseteq Message,
             FeedFits(feed', wire', p, later', settles)
      PROVE  DataInv'
  <2>1. Past' = p
    BY <1>1, <1>4 DEF Past, Content
  <2>2. FeedInv'
    BY <1>1, <1>6, <2>1, FeedNext DEF FeedInv
  <2>3. TypeOK'
    BY <1>1, <1>3, <1>6 DEF TypeOK
  <2> QED
    BY <1>1, <1>3, <2>2, <2>3, CacheStays, TradesStay, ShownStays
<1>7. CASE Fanout(s)
  <2>1. /\ feed[s] # <<>> /\ feed' = [feed EXCEPT ![s] = Tail(@)] /\ later' = later
        /\ wire' = wire \/ wire' = Append(wire, Head(feed[s]))
    BY <1>7 DEF Fanout, Emit
  <2>2. /\ feed' \in [Symbols -> Seq(Message)] /\ Append(wire, Head(feed[s])) \in Seq(Message)
        /\ FeedFits(feed', wire, p, later, settles)
        /\ FeedFits(feed', Append(wire, Head(feed[s])), p, later, settles)
    BY <1>2, <1>5, <2>1, FeedShrinks
  <2> QED
    BY <1>2, <1>6, <2>1, <2>2
<1>8. CASE FanoutFails(s)
  <2>1. /\ feed[s] # <<>> /\ feed' = [feed EXCEPT ![s] = Tail(@)] /\ wire' = wire
        /\ later' = later \cup {Head(feed[s])}
    BY <1>8 DEF FanoutFails, gateway
  <2> QED
    BY <1>2, <1>5, <1>6, <2>1, FeedShrinks
<1>9. CASE FanoutAgain(s)
  <2>1. PICK m \in later : /\ m.symbol = s /\ later' = later \ {m} /\ wire' = wire
                           /\ feed' = [feed EXCEPT ![s] = Append(@, [m EXCEPT !.via = "again"])]
    BY <1>9 DEF FanoutAgain, gateway
  <2>2. feed' \in [Symbols -> Seq(Message)] /\ FeedFits(feed', wire, p, later \ {m}, settles)
    BY <1>2, <1>5, <2>1, FeedRetries
  <2> QED
    BY <1>2, <1>6, <2>1, <2>2
<1> QED
  BY <1>7, <1>8, <1>9

LEMMA GatewayStep ==
    ASSUME DataInv,
           \/ \E s \in Symbols : Subscribe(s) \/ SnapshotRead(s) \/ SnapshotSend(s)
           \/ Disconnect \/ Reconnect
    PROVE  DataInv'
<1> USE Parts
<1>1. /\ UNCHANGED <<panel, book, saved, trades, cache, writing, pending, feed, later, rest, kept,
                     selected, ticks, shown, since, settles>>
      /\ faults' = faults \/ faults' = faults + 1
  BY DEF Subscribe, SnapshotRead, SnapshotSend, Disconnect, Reconnect, Fault, matcher, browser, bounds
<1>2. /\ feed \in [Symbols -> Seq(Message)] /\ wire \in Seq(Message)
      /\ settles \in Nat /\ faults \in Nat /\ snapshot \in [Symbols -> Int] /\ cache \in [Symbols -> Int]
  BY DEF TypeOK
<1>3. faults' \in Nat /\ (faults' = 0 => faults = 0)
  BY <1>1, <1>2
<1>4. PICK p : p = Past
  OBVIOUS
<1>5. FeedFits(feed, wire, p, later, settles)
  BY <1>4 DEF FeedInv
<1>6. ASSUME wire' \in Seq(Message), snapshot' \in [Symbols -> Int],
             FeedFits(feed, wire', p, later, settles),
             panel # "orderbook" => \A s \in Symbols : snapshot'[s] = None
      PROVE  DataInv'
  <2>1. Past' = p
    BY <1>1, <1>4 DEF Past, Content
  <2>2. FeedInv'
    BY <1>1, <1>6, <2>1, FeedNext DEF FeedInv
  <2>3. TypeOK'
    BY <1>1, <1>3, <1>6 DEF TypeOK
  <2> QED
    BY <1>1, <1>3, <2>2, <2>3, CacheStays, TradesStay, ShownStays
<1>7. panel # "orderbook" => \A s \in Symbols : snapshot[s] = None
  BY DEF FeedInv
<1>8. None \in Int /\ Unread \in Int /\ None < 0 /\ Unread # None
  BY DEF None, Unread
<1>9. ASSUME NEW s \in Symbols, Subscribe(s) PROVE DataInv'
  <2>1. wire' = wire /\ snapshot' = [snapshot EXCEPT ![s] = IF panel = "orderbook" THEN Unread ELSE @]
    BY <1>9 DEF Subscribe
  <2> QED
    BY <1>2, <1>5, <1>6, <1>7, <1>8, <2>1
<1>10. ASSUME NEW s \in Symbols, SnapshotRead(s) PROVE DataInv'
  <2>1. /\ wire' = wire /\ snapshot[s] = Unread
        /\ snapshot' = [snapshot EXCEPT ![s] = IF cache[s] = Missing THEN None ELSE cache[s]]
    BY <1>10 DEF SnapshotRead
  <2>2. panel = "orderbook"
    BY <1>7, <1>8, <2>1
  <2> QED
    BY <1>2, <1>5, <1>6, <1>8, <2>1, <2>2
<1>11. ASSUME NEW s \in Symbols, SnapshotSend(s) PROVE DataInv'
  <2>1. /\ snapshot[s] >= 0 /\ snapshot' = [snapshot EXCEPT ![s] = None]
        /\ wire' = wire \/ wire' = Append(wire, Msg("snapshot", s, snapshot[s]))
    BY <1>11 DEF SnapshotSend, Emit
  <2>2. panel = "orderbook" /\ snapshot[s] \in Int
    BY <1>2, <1>7, <1>8, <2>1
  <2>3. wire' \in Seq(Message) /\ FeedFits(feed, wire', p, later, settles)
    BY <1>2, <1>5, <2>1, <2>2, WireGetsSnapshot
  <2> QED
    BY <1>2, <1>6, <1>8, <2>1, <2>2, <2>3
<1>12. ASSUME Disconnect PROVE DataInv'
  <2>1. wire' = <<>> /\ snapshot' = snapshot
    BY <1>12 DEF Disconnect
  <2>2. FeedFits(feed, <<>>, p, later, settles) /\ <<>> \in Seq(Message)
    BY <1>5, FeedForgets
  <2> QED
    BY <1>2, <1>6, <1>7, <2>1, <2>2
<1>13. ASSUME Reconnect PROVE DataInv'
  <2>1. wire' = wire /\ snapshot' = snapshot
    BY <1>13 DEF Reconnect
  <2> QED
    BY <1>2, <1>5, <1>6, <1>7, <2>1
<1> QED
  BY <1>9, <1>10, <1>11, <1>12, <1>13

-----------------------------------------------------------------------------
(* The steps of the browser.                                               *)

\* A list with one message.
LEMMA SingleFacts ==
    ASSUME NEW m \in Message
    PROVE  <<m>> \in Seq(Message) /\ Len(<<m>>) = 1 /\ DOMAIN <<m>> = {1} /\ <<m>>[1] = m
<1> QED
  OBVIOUS

\* The tape is cut at its end.
LEMMA CutFacts ==
    ASSUME NEW f \in Seq(Message)
    PROVE  /\ Cut(f) \in Seq(Message)
           /\ \A i \in DOMAIN Cut(f) : i \in DOMAIN f /\ i \in Nat /\ Cut(f)[i] = f[i]
           /\ f # <<>> => 1 \in DOMAIN Cut(f)
<1>1. PICK n : n = IF Len(f) < TapeLength THEN Len(f) ELSE TapeLength
  OBVIOUS
<1>2. n \in Nat /\ n <= Len(f) /\ DOMAIN f = 1..Len(f) /\ Len(f) \in Nat
  BY <1>1, MarketDataAssumption
<1>3. Cut(f) = SubSeq(f, 1, n)
  BY <1>1 DEF Cut
<1>4. /\ SubSeq(f, 1, n) \in Seq(Message) /\ DOMAIN SubSeq(f, 1, n) = 1..n
      /\ \A i \in 1..n : SubSeq(f, 1, n)[i] = f[i]
  BY <1>2
<1>5. f # <<>> => Len(f) # 0
  BY EmptySeq
<1>6. f # <<>> => n >= 1
  <2>1. TapeLength \in Nat /\ TapeLength >= 1
    BY MarketDataAssumption
  <2>2. PICK l : l = Len(f)
    OBVIOUS
  <2>3. l \in Nat /\ (n = l \/ n = TapeLength)
    BY <1>1, <1>2, <2>2
  <2>4. l # 0 => n >= 1
    BY <2>1, <2>3
  <2> QED BY <1>5, <2>2, <2>4
<1> QED
  BY <1>2, <1>3, <1>4, <1>6

\* A step of the browser: what it receives comes off the wire.
LEMMA BrowserFrame ==
    ASSUME DataInv, NEW past, Past' \subseteq past,
           UNCHANGED <<panel, book, saved, trades, cache, writing, pending, feed, later, snapshot,
                       settles, faults>>,
           wire' \in Seq(Message), FeedFits(feed, wire', past, later, settles),
           rest' \in [Symbols -> Int], kept' \in [Symbols -> Int],
           ticks' \in [Symbols -> Message], shown' \in Seq(Message), ShownInv',
           \A s \in Symbols : ticks'[s] = NoTick \/ (ticks'[s].symbol = s /\ panel = "list")
    PROVE  DataInv'
<1> USE Parts
<1>1. TypeOK'
  BY DEF TypeOK
<1>2. FeedInv'
  BY FeedNext DEF FeedInv
<1>3. CacheInv' /\ TradesInv'
  BY CacheStays, TradesStay
<1> QED
  BY <1>1, <1>2, <1>3

\* What is shown does not change.
LEMMA BrowserIdle ==
    ASSUME DataInv,
           UNCHANGED <<panel, book, saved, trades, cache, writing, pending, feed, later, snapshot,
                       settles, faults, wire, ticks, shown>>,
           rest' \in [Symbols -> Int], kept' \in [Symbols -> Int],
           UNCHANGED <<selected, since>> \/ since' = "nothing"
    PROVE  DataInv'
<1> USE Parts
<1>1. PICK p : p = Past
  OBVIOUS
<1>2. Past' = p
  BY <1>1 DEF Past, Content
<1>3. ShownInv'
  BY DEF ShownInv, OwnSymbolUnlessLateAnswer, TapeCopies
<1>4. /\ wire' \in Seq(Message) /\ shown' \in Seq(Message) /\ ticks' \in [Symbols -> Message]
      /\ FeedFits(feed, wire', p, later, settles)
      /\ \A s \in Symbols : ticks'[s] = NoTick \/ (ticks'[s].symbol = s /\ panel = "list")
  BY <1>1 DEF TypeOK, FeedInv
<1> QED
  BY <1>2, <1>3, <1>4, BrowserFrame

\* An answer replaces what is shown.
LEMMA BrowserAnswer ==
    ASSUME DataInv,
           UNCHANGED <<panel, book, saved, trades, cache, writing, pending, feed, later, snapshot,
                       settles, faults, wire, ticks>>,
           rest' \in [Symbols -> Int], kept' \in [Symbols -> Int], shown' \in Seq(Message),
           NEW s, since' = "own" => s = selected',
           \A i \in DOMAIN shown' : shown'[i].via = "rest" /\ shown'[i].symbol = s,
           \A i, j \in DOMAIN shown' : shown'[i].version = shown'[j].version => i = j,
           panel # "tape" => Len(shown') <= 1
    PROVE  DataInv'
<1> USE Parts
<1>1. PICK p : p = Past
  OBVIOUS
<1>2. Past' \subseteq p
  BY <1>1 DEF Past, Content
<1>3. ShownInv'
  <2>1. OwnSymbolUnlessLateAnswer'
    BY DEF OwnSymbolUnlessLateAnswer
  <2>2. TapeCopies'
    <3> SUFFICES ASSUME NEW i \in DOMAIN shown', NEW j \in DOMAIN shown', i < j,
                        shown'[i].version = shown'[j].version
                 PROVE  FALSE
      BY DEF TapeCopies
    <3>1. i = j /\ DOMAIN shown' = 1..Len(shown') /\ Len(shown') \in Nat
      OBVIOUS
    <3> QED BY <3>1
  <2> QED BY <2>1, <2>2 DEF ShownInv
<1>4. /\ wire' \in Seq(Message) /\ ticks' \in [Symbols -> Message]
      /\ FeedFits(feed, wire', p, later, settles)
      /\ \A t \in Symbols : ticks'[t] = NoTick \/ (ticks'[t].symbol = t /\ panel = "list")
  BY <1>1 DEF TypeOK, FeedInv
<1> QED
  BY <1>2, <1>3, <1>4, BrowserFrame

\* A step that brings nothing live to the panel.
NothingLive == ticks' = ticks /\ (shown' = shown \/ \A i \in DOMAIN shown' : shown'[i].via = "rest")

\* The user's choices and the questions they start.
LEMMA QueryStep ==
    ASSUME DataInv,
           \/ \E s \in Symbols : Select(s) \/ RestRead(s)
           \/ OpenList \/ PollTickers \/ ListAnswer
    PROVE  DataInv' /\ NothingLive
<1> USE DEF NothingLive
<1>1. /\ rest \in [Symbols -> Int] /\ kept \in [Symbols -> Int] /\ cache \in [Symbols -> Int]
      /\ \A s \in Symbols : trades[s] \in Seq(Nat)
  BY DEF DataInv, TypeOK
<1>2. Unread \in Int /\ None \in Int /\ 0 \in Int /\ Missing \in Int
  BY DEF Unread, None, Missing
<1>3. /\ UNCHANGED <<panel, book, saved, trades, cache, writing, pending, feed, later, snapshot,
                     settles, faults, wire, ticks>>
  BY DEF Select, RestRead, OpenList, PollTickers, ListAnswer, matcher, gateway, bounds
<1>4. ASSUME NEW s \in Symbols, Select(s) PROVE DataInv' /\ NothingLive
  <2>1. /\ rest' = [rest EXCEPT ![s] = IF @ = None THEN Unread ELSE @] /\ kept' = kept /\ selected' = s
        /\ \/ panel = "strip" /\ shown' = <<Msg("rest", s, kept[s])>>
           \/ shown' = shown /\ since' = "nothing"
    BY <1>4 DEF Select
  <2>2. rest' \in [Symbols -> Int] /\ kept' \in [Symbols -> Int]
    BY <1>1, <1>2, <2>1
  <2>3. CASE shown' = shown /\ since' = "nothing"
    BY <1>3, <2>2, <2>3, BrowserIdle
  <2>4. CASE shown' = <<Msg("rest", s, kept[s])>>
    <3>1. PICK m : m = Msg("rest", s, kept[s])
      OBVIOUS
    <3>2. m \in Message /\ m.via = "rest" /\ m.symbol = s
      BY <1>1, <3>1 DEF Msg, Message
    <3>3. shown' \in Seq(Message) /\ Len(shown') <= 1 /\ DOMAIN shown' = {1} /\ shown'[1] = m
      BY <2>4, <3>1, <3>2, SingleFacts
    <3> QED
      BY <1>3, <2>1, <2>2, <3>2, <3>3, BrowserAnswer
  <2> QED
    BY <2>1, <2>3, <2>4
<1>5. ASSUME NEW s \in Symbols, RestRead(s) PROVE DataInv' /\ NothingLive
  <2>1. PICK v : /\ v \in OrderbookRest(s) \/ v \in CandlesRest(s) \/ v \in TradesRest(s)
                 /\ rest' = [rest EXCEPT ![s] = v]
    BY <1>5 DEF RestRead
  <2>2. v \in Int
    <3>1. \A i \in DOMAIN trades[s] : trades[s][i] \in Int
      BY <1>1
    <3>2. trades[s] # <<>> => Head(trades[s]) \in Int
      BY <1>1
    <3> QED BY <1>1, <1>2, <2>1, <3>1, <3>2 DEF OrderbookRest, CandlesRest, TradesRest
  <2>3. UNCHANGED <<kept, shown, selected, since>>
    BY <1>5 DEF RestRead
  <2> QED
    BY <1>1, <1>3, <2>1, <2>2, <2>3, BrowserIdle
<1>6. ASSUME OpenList \/ PollTickers \/ ListAnswer PROVE DataInv' /\ NothingLive
  <2>1. /\ rest' = [s \in Symbols |-> Unread] \/ rest' = [s \in Symbols |-> None]
        /\ kept' = kept \/ kept' = rest
        /\ UNCHANGED <<shown, selected, since>>
    BY <1>6 DEF OpenList, PollTickers, ListAnswer
  <2> QED
    BY <1>1, <1>2, <1>3, <2>1, BrowserIdle
<1> QED
  BY <1>4, <1>5, <1>6

\* The answers of the panels.
LEMMA AnswerStep ==
    ASSUME DataInv, NEW s \in Symbols,
           OrderbookAnswer(s) \/ ChartAnswer(s) \/ TapeAnswer(s) \/ StripAnswer(s)
    PROVE  DataInv' /\ NothingLive
<1> USE DEF NothingLive
<1>1. rest \in [Symbols -> Int] /\ kept \in [Symbols -> Int] /\ trades[s] \in Seq(Nat)
  BY DEF DataInv, TypeOK
<1>2. /\ UNCHANGED <<panel, book, saved, trades, cache, writing, pending, feed, later, snapshot,
                     settles, faults, wire, ticks, selected>>
      /\ rest' = [rest EXCEPT ![s] = None]
      /\ kept' = kept \/ kept' = [kept EXCEPT ![s] = IF rest[s] = 0 THEN None ELSE rest[s]]
  BY DEF OrderbookAnswer, ChartAnswer, TapeAnswer, StripAnswer, Answered, matcher, gateway, bounds
<1>3. rest' \in [Symbols -> Int] /\ kept' \in [Symbols -> Int]
  BY <1>1, <1>2 DEF None
<1>4. ASSUME shown' = <<Msg("rest", s, rest[s])>>, since' = "own" => s = selected PROVE DataInv' /\ NothingLive
  <2>1. PICK m : m = Msg("rest", s, rest[s])
    OBVIOUS
  <2>2. m \in Message /\ m.via = "rest" /\ m.symbol = s
    BY <1>1, <2>1 DEF Msg, Message
  <2>3. shown' \in Seq(Message) /\ Len(shown') <= 1 /\ DOMAIN shown' = {1} /\ shown'[1] = m
    BY <1>4, <2>1, <2>2, SingleFacts
  <2> QED
    BY <1>2, <1>3, <1>4, <2>2, <2>3, BrowserAnswer
<1>5. Mine(s) = "own" => s = selected
  BY DEF Mine
<1>6. CASE OrderbookAnswer(s) \/ ChartAnswer(s)
  BY <1>4, <1>5, <1>6 DEF OrderbookAnswer, ChartAnswer
<1>7. CASE StripAnswer(s)
  <2>1. CASE s = selected /\ rest[s] \notin {0, kept[s]}
    BY <1>4, <1>7, <2>1 DEF StripAnswer
  <2>2. CASE ~(s = selected /\ rest[s] \notin {0, kept[s]})
    BY <1>2, <1>3, <1>7, <2>2, BrowserIdle DEF StripAnswer
  <2> QED BY <2>1, <2>2
<1>8. CASE TapeAnswer(s)
  <2>1. PICK n \in 0..Len(trades[s]) : shown' = Cut(TapeRows(s, n))
    BY <1>8 DEF TapeAnswer
  <2>2. panel = "tape" /\ (since' = "own" => s = selected)
    BY <1>5, <1>8 DEF TapeAnswer
  <2>3. PICK f : f = TapeRows(s, n)
    OBVIOUS
  <2>4. PICK k : k = Len(trades[s]) - n
    OBVIOUS
  <2>5. k \in Nat /\ \A i \in 1..k : n + i \in DOMAIN trades[s] /\ n + i \in Nat
    BY <1>1, <2>1, <2>4
  <2>6. f = [i \in 1..k |-> Msg("rest", s, trades[s][n + i])]
    BY <2>3, <2>4 DEF TapeRows
  <2>7. \A i \in 1..k : /\ f[i] \in Message /\ f[i].via = "rest" /\ f[i].symbol = s
                        /\ f[i].version = trades[s][n + i]
    <3>1. \A i \in DOMAIN trades[s] : trades[s][i] \in Int
      BY <1>1
    <3> QED BY <2>5, <2>6, <3>1 DEF Msg, Message
  <2>8. f \in Seq(Message) /\ DOMAIN f = 1..k
    <3>1. f \in [1..k -> Message]
      BY <2>6, <2>7
    <3> QED BY <2>5, <3>1
  <2>9. ASSUME NEW i \in 1..k, NEW j \in 1..k, f[i].version = f[j].version PROVE i = j
    <3>1. n + i = n + j
      BY <2>5, <2>7, <2>9 DEF DataInv, TapeInv
    <3> QED BY <2>1, <3>1
  <2>10. /\ shown' \in Seq(Message)
         /\ \A i \in DOMAIN shown' : i \in 1..k /\ shown'[i] = f[i]
    BY <2>1, <2>3, <2>8, CutFacts
  <2>11. /\ \A i \in DOMAIN shown' : shown'[i].via = "rest" /\ shown'[i].symbol = s
         /\ \A i, j \in DOMAIN shown' : shown'[i].version = shown'[j].version => i = j
    BY <2>7, <2>9, <2>10
  <2>12. since' = "own" => s = selected'
    BY <1>2, <2>2
  <2> QED
    BY <1>2, <1>3, <2>2, <2>10, <2>11, <2>12, BrowserAnswer
<1> QED
  BY <1>6, <1>7, <1>8

\* A message off the wire.
LEMMA ReceiveStep ==
    ASSUME DataInv, PanelReceive \/ TapeReceive \/ ListReceive
    PROVE  /\ DataInv' /\ wire # <<>>
           /\ \/ shown' = shown
              \/ shown' # <<>> /\ shown'[1] = Head(wire)
           /\ \/ ticks' = ticks
              \/ /\ panel = "list" /\ Head(wire).symbol \in Symbols
                 /\ ticks' = [ticks EXCEPT ![Head(wire).symbol] = Head(wire)]
<1> USE Parts
<1>1. PICK m : m = Head(wire)
  OBVIOUS
<1>2. /\ Received(m) /\ wire # <<>> /\ wire' = Tail(wire)
      /\ UNCHANGED <<panel, book, saved, trades, cache, writing, pending, feed, later, snapshot,
                     settles, faults, rest, kept, selected>>
  BY <1>1 DEF PanelReceive, TapeReceive, ListReceive, Received, matcher, bounds
<1>3. /\ wire \in Seq(Message) /\ shown \in Seq(Message) /\ ticks \in [Symbols -> Message]
      /\ rest \in [Symbols -> Int] /\ kept \in [Symbols -> Int]
  BY DEF TypeOK
<1>4. PICK p : p = Past
  OBVIOUS
<1>5. FeedFits(feed, wire, p, later, settles)
  BY <1>4 DEF FeedInv
<1>6. /\ m \in Message /\ m \in Content(wire) /\ wire' \in Seq(Message)
      /\ FeedFits(feed, wire', p \cup {m}, later, settles)
  BY <1>1, <1>2, <1>3, <1>5, WireShrinks
<1>7. m.symbol \in Symbols /\ m.via # "rest"
  BY <1>5, <1>6 DEF FeedFits
<1>8. \A t \in Symbols : ticks[t] = NoTick \/ (ticks[t].symbol = t /\ panel = "list")
  BY DEF FeedInv
<1>9. CASE PanelReceive
  <2>1. /\ panel \in {"orderbook", "chart", "strip"} /\ ticks' = ticks
        /\ \/ shown' = <<m>> /\ since' = "own" /\ m.symbol = selected
           \/ UNCHANGED <<shown, since>>
    BY <1>1, <1>9 DEF PanelReceive, Takes
  <2>2. CASE UNCHANGED <<shown, since>>
    <3>1. Past' \subseteq p \cup {m}
      BY <1>2, <1>4, <2>1, <2>2 DEF Past, Content
    <3>2. ShownInv'
      BY <1>2, <2>2, ShownStays
    <3> QED
      BY <1>2, <1>3, <1>6, <1>8, <2>1, <2>2, <3>1, <3>2, BrowserFrame
  <2>3. CASE shown' = <<m>> /\ since' = "own" /\ m.symbol = selected
    <3>1. shown' \in Seq(Message) /\ Len(shown') = 1 /\ DOMAIN shown' = {1} /\ shown'[1] = m
      BY <1>6, <2>3, SingleFacts
    <3>2. Past' \subseteq p \cup {m}
      BY <1>2, <1>4, <2>1, <3>1 DEF Past, Content
    <3>3. ShownInv'
      BY <1>2, <2>3, <3>1 DEF ShownInv, OwnSymbolUnlessLateAnswer, TapeCopies
    <3>4. shown' # <<>>
      BY <3>1
    <3> QED
      BY <1>1, <1>2, <1>3, <1>6, <1>8, <2>1, <3>1, <3>2, <3>3, <3>4, BrowserFrame
  <2> QED BY <2>1, <2>2, <2>3
<1>10. CASE TapeReceive
  <2>1. /\ panel = "tape" /\ ticks' = ticks
        /\ \/ shown' = Cut(<<m>> \o shown) /\ since' = "own" /\ m.symbol = selected
           \/ UNCHANGED <<shown, since>>
    BY <1>1, <1>10 DEF TapeReceive, Takes
  <2>2. CASE UNCHANGED <<shown, since>>
    <3>1. Past' \subseteq p \cup {m}
      BY <1>2, <1>4, <2>1, <2>2 DEF Past, Content
    <3>2. ShownInv'
      BY <1>2, <2>2, ShownStays
    <3> QED
      BY <1>2, <1>3, <1>6, <1>8, <2>1, <2>2, <3>1, <3>2, BrowserFrame
  <2>3. CASE shown' = Cut(<<m>> \o shown) /\ since' = "own" /\ m.symbol = selected
    <3>1. PICK f : f = <<m>> \o shown
      OBVIOUS
    <3>2. /\ f \in Seq(Message) /\ Len(f) = Len(shown) + 1 /\ f[1] = m /\ Len(shown) \in Nat
          /\ \A i \in 2..Len(f) : f[i] = shown[i - 1]
      BY <1>3, <1>6, <3>1
    <3>3. DOMAIN f = 1..Len(f) /\ DOMAIN shown = 1..Len(shown) /\ f # <<>>
      BY <1>3, <3>2
    <3>4. \A i \in DOMAIN f : i = 1 \/ (i \in Nat /\ i - 1 \in DOMAIN shown /\ f[i] = shown[i - 1])
      BY <3>2, <3>3
    <3>5. /\ shown' \in Seq(Message) /\ 1 \in DOMAIN shown' /\ shown'[1] = m
          /\ \A i \in DOMAIN shown' : i \in DOMAIN f /\ i \in Nat /\ shown'[i] = f[i]
      BY <2>3, <3>1, <3>2, <3>3, CutFacts
    <3>6. Past' \subseteq p \cup {m}
      <4> SUFFICES ASSUME NEW i \in DOMAIN shown', shown'[i].via # "rest" PROVE shown'[i] \in p \cup {m}
        BY <1>2, <2>1 DEF Past, Content
      <4>1. f[i] = m \/ \E j \in DOMAIN shown : f[i] = shown[j]
        BY <3>2, <3>4, <3>5
      <4> QED BY <1>4, <3>5, <4>1 DEF Past, Content
    <3>7. \A j \in DOMAIN shown : shown[j].via # "rest" => Before(shown[j], m)
      BY <1>4, <1>5, <1>6 DEF FeedFits, Past, Content
    <3>8. TapeCopies'
      <4> SUFFICES ASSUME NEW i \in DOMAIN shown', NEW j \in DOMAIN shown', i < j,
                          shown'[i].symbol = shown'[j].symbol, shown'[i].version = shown'[j].version
                   PROVE  shown'[i].via # "rest" /\ shown'[j].via = "rest"
        BY DEF TapeCopies
      <4>1. /\ shown'[i] = f[i] /\ shown'[j] = f[j] /\ i \in DOMAIN f /\ j \in DOMAIN f
            /\ i \in Nat /\ j \in Nat
        BY <3>5
      <4>2. i \in 1..Len(f) /\ j # 1 /\ j - 1 \in DOMAIN shown /\ f[j] = shown[j - 1]
        BY <3>2, <3>3, <3>4, <4>1
      <4>3. CASE i = 1
        <5>1. f[i] = m /\ ~Apart(shown[j - 1], m)
          BY <2>1, <3>2, <4>1, <4>2, <4>3 DEF Apart
        <5> QED BY <1>7, <3>7, <4>1, <4>2, <5>1 DEF Before
      <4>4. CASE i # 1
        <5>1. i - 1 \in DOMAIN shown /\ f[i] = shown[i - 1] /\ i - 1 < j - 1
          BY <3>4, <4>1, <4>4
        <5> QED BY <4>1, <4>2, <5>1 DEF ShownInv, TapeCopies
      <4> QED BY <4>3, <4>4
    <3>9. OwnSymbolUnlessLateAnswer'
      BY <1>2, <1>7, <2>3, <3>5 DEF OwnSymbolUnlessLateAnswer
    <3>10. ShownInv'
      BY <1>2, <2>1, <3>8, <3>9 DEF ShownInv
    <3>11. shown' # <<>>
      BY <3>5
    <3> QED
      BY <1>1, <1>2, <1>3, <1>6, <1>8, <2>1, <3>5, <3>6, <3>10, <3>11, BrowserFrame
  <2> QED BY <2>1, <2>2, <2>3
<1>11. CASE ListReceive
  <2>1. panel = "list" /\ ticks' = [ticks EXCEPT ![m.symbol] = m] /\ UNCHANGED <<shown, since>>
    BY <1>1, <1>11 DEF ListReceive
  <2>2. ticks' \in [Symbols -> Message] /\ ticks'[m.symbol] = m
        /\ \A t \in Symbols : t # m.symbol => ticks'[t] = ticks[t]
    BY <1>3, <1>6, <1>7, <2>1
  <2>3. Past' \subseteq p \cup {m}
    BY <1>2, <1>4, <2>1, <2>2 DEF Past, Content
  <2>4. ShownInv'
    BY <1>2, <2>1, ShownStays
  <2> QED
    BY <1>1, <1>2, <1>3, <1>6, <1>7, <1>8, <2>1, <2>2, <2>3, <2>4, BrowserFrame
<1> QED
  BY <1>9, <1>10, <1>11

-----------------------------------------------------------------------------
(* The theorems.                                                           *)

LEMMA InitData == Init => DataInv
<1> SUFFICES ASSUME Init PROVE DataInv
  OBVIOUS
<1> USE DEF Init
<1>1. <<>> \in Seq(Int) /\ <<>> \in Seq(Nat) /\ <<>> \in Seq(Message) /\ DOMAIN <<>> = {} /\ Len(<<>>) = 0
  OBVIOUS
<1>2. NoTick \in Message /\ NoTick.via = "poll" /\ NoTick.symbol = NoSymbol /\ None \in Int
  BY DEF NoTick, Msg, Message, None
<1>3. TypeOK
  BY <1>1, <1>2 DEF TypeOK
<1>4. CacheInv
  BY DEF CacheInv
<1>5. FeedInv
  <2>1. Content(wire) = {} /\ \A s \in Symbols : Content(feed[s]) = {}
    BY <1>1 DEF Content
  <2>2. Contents(feed) = {}
    BY <2>1 DEF Contents
  <2>3. \A m \in Past : m = NoTick /\ panel = "list"
    BY <1>1 DEF Past, Content
  <2>4. Ordered(<<>>)
    BY <1>1 DEF Ordered
  <2>5. \A m \in Past : Sent(m, settles)
    BY <1>2, <2>3 DEF Sent
  <2>6. FeedFits(feed, wire, Past, later, settles)
    BY <2>1, <2>2, <2>4, <2>5 DEF FeedFits
  <2> QED BY <2>6 DEF FeedInv
<1>6. TapeInv /\ OwnSymbolUnlessLateAnswer /\ TapeCopies
  BY <1>1 DEF TapeInv, OwnSymbolUnlessLateAnswer, TapeCopies
<1> QED
  BY <1>3, <1>4, <1>5, <1>6 DEF DataInv

\* A step keeps the invariant, and brings something live only by receiving it.
LEMMA NextData ==
    ASSUME DataInv, [Next]_vars
    PROVE  DataInv' /\ (PanelReceive \/ TapeReceive \/ ListReceive \/ NothingLive)
<1>1. ASSUME UNCHANGED <<ticks, shown>> PROVE NothingLive
  BY <1>1 DEF NothingLive
<1>2. ASSUME NEW s \in Symbols, SettleTrade(s) \/ SettleCancel(s) PROVE DataInv' /\ NothingLive
  <2>1. UNCHANGED <<ticks, shown>>
    BY <1>2 DEF SettleTrade, SettleCancel, Settle, browser
  <2> QED BY <1>1, <1>2, <2>1, SettleStep
<1>3. ASSUME NEW s \in Symbols,
             \/ SettleRollsBack(s) \/ TimerFires(s) \/ WriteDone(s) \/ WriteFails(s) \/ CoolsDown(s)
             \/ CacheExpires(s)
      PROVE  DataInv' /\ NothingLive
  <2>1. UNCHANGED <<ticks, shown>>
    BY <1>3 DEF SettleRollsBack, TimerFires, WriteDone, WriteFails, CoolsDown, CacheExpires, browser
  <2> QED BY <1>1, <1>3, <2>1, MatcherStep
<1>4. ASSUME Restart PROVE DataInv' /\ NothingLive
  <2>1. UNCHANGED <<ticks, shown>>
    BY <1>4 DEF Restart, browser
  <2> QED BY <1>1, <1>4, <2>1, RestartStep
<1>5. ASSUME NEW s \in Symbols, Fanout(s) \/ FanoutFails(s) \/ FanoutAgain(s)
      PROVE  DataInv' /\ NothingLive
  <2>1. UNCHANGED <<ticks, shown>>
    BY <1>5 DEF Fanout, FanoutFails, FanoutAgain, browser
  <2> QED BY <1>1, <1>5, <2>1, FanoutStep
<1>6. ASSUME \/ \E s \in Symbols : Subscribe(s) \/ SnapshotRead(s) \/ SnapshotSend(s)
             \/ Disconnect \/ Reconnect
      PROVE  DataInv' /\ NothingLive
  <2>1. UNCHANGED <<ticks, shown>>
    BY <1>6 DEF Subscribe, SnapshotRead, SnapshotSend, Disconnect, Reconnect, browser
  <2> QED BY <1>1, <1>6, <2>1, GatewayStep
<1>7. ASSUME \/ \E s \in Symbols : Select(s) \/ RestRead(s)
             \/ OpenList \/ PollTickers \/ ListAnswer
      PROVE  DataInv' /\ NothingLive
  BY <1>7, QueryStep
<1>8. ASSUME NEW s \in Symbols, OrderbookAnswer(s) \/ ChartAnswer(s) \/ TapeAnswer(s) \/ StripAnswer(s)
      PROVE  DataInv' /\ NothingLive
  BY <1>8, AnswerStep
<1>9. ASSUME PanelReceive \/ TapeReceive \/ ListReceive PROVE DataInv'
  BY <1>9, ReceiveStep
<1>10. ASSUME UNCHANGED vars PROVE DataInv' /\ NothingLive
  <2>1. UNCHANGED <<panel, book, saved, trades, cache, writing, pending, feed, later, snapshot, settles,
                    faults, wire, ticks, shown, rest, kept, selected, since>>
    BY <1>10 DEF vars, matcher, gateway, browser, bounds
  <2>2. rest \in [Symbols -> Int] /\ kept \in [Symbols -> Int]
    BY DEF DataInv, TypeOK
  <2> QED BY <1>1, <2>1, <2>2, BrowserIdle
<1> QED
  BY <1>2, <1>3, <1>4, <1>5, <1>6, <1>7, <1>8, <1>9, <1>10 DEF Next, Flow, Disturb, Browser

\* The strengthened invariant holds throughout.
THEOREM DataInvariance == Spec => []DataInv
<1> QED
  BY InitData, NextData, PTL DEF Spec

\* The throttle of the snapshot service loses no last write, for any number of
\* symbols, commands and restarts.
THEOREM CacheCatchesUp == Spec => []CacheCaughtUp
<1>1. DataInv => CacheCaughtUp
  BY DEF DataInv, CacheInv, CacheCaughtUp
<1> QED
  BY <1>1, DataInvariance, PTL

\* A panel shows a foreign symbol only by a late answer.
THEOREM ForeignOnlyByLateAnswer == Spec => []OwnSymbolUnlessLateAnswer
<1>1. DataInv => OwnSymbolUnlessLateAnswer
  BY DEF DataInv
<1> QED
  BY <1>1, DataInvariance, PTL

\* The tape shows a trade at most twice, once from the query and once live,
\* although events are retried and connections lost.
THEOREM TapeShowsTwiceAtMost == Spec => []TapeCopies
<1>1. DataInv => TapeCopies
  BY DEF DataInv
<1> QED
  BY <1>1, DataInvariance, PTL

\* Along the live feed neither a panel nor a row of the list goes back.
THEOREM FeedGoesForward == Spec => FeedNeverGoesBack
<1> DEFINE Forward == /\ LET old == shown[1]
                             new == shown'[1]
                         IN  (shown # <<>> /\ shown' # <<>> /\ old.symbol = new.symbol
                                /\ old.via = "feed" /\ new.via = "feed") => new.version >= old.version
                      /\ \A s \in Symbols :
                            Row(s).via = "feed" /\ Row(s)'.via = "feed" =>
                                Row(s)'.version >= Row(s).version
<1>1. ASSUME DataInv, [Next]_vars PROVE Forward
  <2>1. DataInv' /\ (PanelReceive \/ TapeReceive \/ ListReceive \/ NothingLive)
    BY <1>1, NextData
  <2>2. /\ shown \in Seq(Message) /\ shown' \in Seq(Message)
        /\ \A s \in Symbols : ticks[s] \in Message
    BY <1>1, <2>1 DEF DataInv, TypeOK
  <2>3. /\ shown # <<>> => 1 \in DOMAIN shown /\ shown[1] \in Message /\ shown[1] \in Content(shown)
        /\ shown' # <<>> => 1 \in DOMAIN shown'
    <3>1. \A f \in Seq(Message) : f # <<>> => 1 \in DOMAIN f /\ f[1] \in Message
      <4> SUFFICES ASSUME NEW f \in Seq(Message), f # <<>> PROVE 1 \in DOMAIN f /\ f[1] \in Message
        OBVIOUS
      <4>1. Len(f) \in Nat \ {0} /\ DOMAIN f = 1..Len(f)
        BY EmptySeq
      <4> QED BY <4>1
    <3> QED BY <2>2, <3>1 DEF Content
  <2>4. \A m \in Message : m.version \in Int
    BY DEF Message
  <2>5. FeedFits(feed, wire, Past, later, settles)
        /\ \A s \in Symbols : ticks[s] = NoTick \/ (ticks[s].symbol = s /\ panel = "list")
    BY <1>1 DEF DataInv, FeedInv
  <2>6. NoTick.via = "poll"
    BY DEF NoTick, Msg
  <2>7. \A s \in Symbols : /\ Row(s).via = "feed" => Row(s) = ticks[s] /\ ticks[s] # NoTick
                           /\ Row(s)'.via = "feed" => Row(s)' = ticks'[s] /\ ticks'[s] # NoTick
    BY DEF Row, Msg
  <2>8. CASE NothingLive
    <3>1. ticks' = ticks
      BY <2>8 DEF NothingLive
    <3>2. shown' = shown \/ (shown' # <<>> => shown'[1].via = "rest")
      BY <2>3, <2>8 DEF NothingLive
    <3>3. \A s \in Symbols : Row(s).via = "feed" /\ Row(s)'.via = "feed" => Row(s)'.version >= Row(s).version
      BY <2>2, <2>4, <2>7, <3>1
    <3> QED BY <2>3, <2>4, <3>2, <3>3
  <2>9. CASE PanelReceive \/ TapeReceive \/ ListReceive
    <3>1. PICK m : m = Head(wire)
      OBVIOUS
    <3>2. /\ wire # <<>>
          /\ shown' = shown \/ shown'[1] = m
          /\ \/ ticks' = ticks
             \/ panel = "list" /\ m.symbol \in Symbols /\ ticks' = [ticks EXCEPT ![m.symbol] = m]
      BY <1>1, <2>9, <3>1, ReceiveStep
    <3>3. m \in Content(wire)
      BY <1>1, <2>5, <3>1, <3>2, WireShrinks DEF DataInv, TypeOK
    <3>4. \A h \in Past : h.symbol = m.symbol /\ h.via = "feed" /\ m.via = "feed" => h.version <= m.version
      BY <2>5, <3>3 DEF FeedFits, Before
    <3>5. shown # <<>> /\ shown[1].via = "feed" => shown[1] \in Past
      BY <2>3 DEF Past
    <3>6. panel = "list" => \A s \in Symbols : ticks[s] \in Past
      BY DEF Past
    <3>7. m \in Message
      BY <1>1, <2>5, <3>1, <3>2, WireShrinks DEF DataInv, TypeOK
    <3>8. ASSUME NEW s \in Symbols, Row(s).via = "feed", Row(s)'.via = "feed"
          PROVE  Row(s)'.version >= Row(s).version
      <4>1. Row(s) = ticks[s] /\ ticks[s] # NoTick /\ Row(s)' = ticks'[s]
        BY <2>7, <3>8
      <4>2. CASE ticks'[s] = ticks[s]
        BY <2>2, <2>4, <4>1, <4>2
      <4>3. CASE ticks'[s] # ticks[s]
        <5>1. panel = "list" /\ m.symbol = s /\ ticks'[s] = m
          BY <1>1, <3>2, <4>3 DEF DataInv, TypeOK
        <5>2. ticks[s] \in Past /\ ticks[s].symbol = s /\ ticks[s].via = "feed" /\ m.via = "feed"
          BY <2>5, <3>6, <3>8, <4>1, <5>1
        <5>3. ticks[s].version \in Int /\ m.version \in Int /\ ticks[s].version <= m.version
          BY <2>2, <2>4, <3>4, <3>7, <5>1, <5>2
        <5> QED BY <4>1, <5>1, <5>3
      <4> QED BY <4>2, <4>3
    <3>9. ASSUME shown # <<>>, shown[1].symbol = shown'[1].symbol, shown[1].via = "feed",
                 shown'[1].via = "feed"
          PROVE  shown'[1].version >= shown[1].version
      <4>1. shown[1].version \in Int /\ m.version \in Int
        BY <2>3, <2>4, <3>7, <3>9
      <4>2. CASE shown' = shown
        BY <4>1, <4>2
      <4>3. CASE shown'[1] = m
        BY <3>4, <3>5, <3>9, <4>1, <4>3
      <4> QED BY <3>2, <4>2, <4>3
    <3> QED BY <3>8, <3>9
  <2> QED
    BY <2>1, <2>8, <2>9
<1>2. Spec => [][Next]_vars
  BY PTL DEF Spec
<1>3. [][Forward]_vars <=> FeedNeverGoesBack
  BY DEF FeedNeverGoesBack
<1> HIDE DEF Forward
<1> QED
  BY <1>1, <1>2, <1>3, DataInvariance, PTL
=============================================================================
