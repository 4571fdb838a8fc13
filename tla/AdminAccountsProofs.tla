------------------------- MODULE AdminAccountsProofs -------------------------
(***************************************************************************)
(* Proofs about the operators' mutations: the wallet adds up, the audit    *)
(* log tells the truth and a disabled market is not reopened by a form     *)
(* that was filled later, for any number of operators, requests, orders    *)
(* and faults.                                                             *)
(***************************************************************************)
EXTENDS AdminAccounts, FiniteSetTheorems, TLAPS

-----------------------------------------------------------------------------
(* Counting the open orders.                                               *)

\* The open orders are finitely many.
LEMMA OpenFacts ==
    /\ IsFiniteSet({n \in 1..MaxOrders : orders[n] = "open"})
    /\ Open \in Nat
<1>1. IsFiniteSet(1..MaxOrders)
  BY FS_Interval, AccountsAssumption
<1>2. IsFiniteSet({n \in 1..MaxOrders : orders[n] = "open"})
  BY <1>1, FS_Subset
<1> QED
  BY <1>2, FS_CardinalityType DEF Open

\* An order that opens counts one more.
LEMMA OpenMore ==
    ASSUME TypeOK, NEW n \in 1..MaxOrders, orders[n] # "open",
           orders' = [orders EXCEPT ![n] = "open"]
    PROVE  Open' = Open + 1
<1> DEFINE S == {k \in 1..MaxOrders : orders[k] = "open"}
           T == {k \in 1..MaxOrders : orders'[k] = "open"}
<1>1. T = S \cup {n} /\ n \notin S
  BY DEF TypeOK
<1>2. Cardinality(T) = Cardinality(S) + 1
  BY <1>1, OpenFacts, FS_AddElement
<1> QED
  BY <1>2 DEF Open

\* One that ends counts one less.
LEMMA OpenLess ==
    ASSUME TypeOK, NEW n \in 1..MaxOrders, orders[n] = "open",
           orders' = [orders EXCEPT ![n] = "done"]
    PROVE  Open' = Open - 1
<1> DEFINE S == {k \in 1..MaxOrders : orders[k] = "open"}
           T == {k \in 1..MaxOrders : orders'[k] = "open"}
<1>1. T = S \ {n} /\ n \in S
  BY DEF TypeOK
<1>2. Cardinality(T) = Cardinality(S) - 1
  BY <1>1, OpenFacts, FS_RemoveElement
<1> QED
  BY <1>2 DEF Open

\* One that was not and does not become open does not count.
LEMMA OpenSame ==
    ASSUME TypeOK, NEW n \in 1..MaxOrders, NEW stage, orders[n] # "open", stage # "open",
           orders' = [orders EXCEPT ![n] = stage]
    PROVE  Open' = Open
<1> DEFINE S == {k \in 1..MaxOrders : orders[k] = "open"}
           T == {k \in 1..MaxOrders : orders'[k] = "open"}
<1>1. T = S
  BY DEF TypeOK
<1> QED
  BY <1>1 DEF Open

-----------------------------------------------------------------------------
(* The user's steps.                                                       *)

\* A step that leaves operators and market alone leaves the log and the forms
\* as they are.
LEMMA UserFrame ==
    ASSUME AccountsInv, UNCHANGED <<market, admin, history>>
    PROVE  /\ AuditInv' /\ FormsFit'
           /\ (wallet \in [balance : Int, locked : Int])'
                /\ (orders \in [1..MaxOrders -> {"new", "user ok", "checked", "open", "done", "refused"}])'
                /\ filled' \in Nat => TypeOK'
<1>1. UNCHANGED <<market, page, request, audit, auditing, lost, applied, adjusted, overtaken>>
  BY DEF admin, history, mutation
<1>2. AuditInv'
  BY <1>1 DEF AccountsInv, AuditInv, AwaitsAudit
<1>3. FormsFit'
  BY <1>1 DEF AccountsInv, FormsFit, FormFits
<1> QED
  BY <1>1, <1>2, <1>3 DEF AccountsInv, TypeOK, RequestOK

\* Locks, fills and cancels move money between the columns as the count of
\* open orders and the fills say.
LEMMA UserKeeps ==
    ASSUME AccountsInv, NEW n \in 1..MaxOrders, User(n)
    PROVE  AccountsInv'
<1>1. /\ UNCHANGED <<market, admin, history, adjusted, overtaken>>
      /\ wallet \in [balance : Int, locked : Int] /\ filled \in Nat /\ adjusted \in [Field -> Int]
      /\ orders \in [1..MaxOrders -> {"new", "user ok", "checked", "open", "done", "refused"}]
      /\ TypeOK
  BY DEF User, CheckFrozen, CheckMarket, Lock, Fill, Cancel, rows, history, AccountsInv, TypeOK
<1>2. AuditInv' /\ FormsFit'
  BY <1>1, UserFrame
<1>3. ASSUME wallet' \in [balance : Int, locked : Int], filled' \in Nat,
             orders' \in [1..MaxOrders -> {"new", "user ok", "checked", "open", "done", "refused"}],
             FundsExplained'
      PROVE  AccountsInv'
  BY <1>1, <1>2, <1>3, UserFrame DEF AccountsInv
<1>4. /\ adjusted.balance \in Int /\ adjusted.locked \in Int
      /\ wallet.balance \in Int /\ wallet.locked \in Int /\ wallet \in [balance : Int, locked : Int]
      /\ Open \in Nat /\ Opening \in Nat /\ filled \in Nat
      /\ adjusted' = adjusted /\ overtaken' = overtaken
  BY <1>1, OpenFacts, AccountsAssumption DEF Field
<1>5. ASSUME NEW stage \in {"user ok", "checked", "refused"}, orders[n] # "open",
             orders' = [orders EXCEPT ![n] = stage], UNCHANGED <<wallet, filled>>
      PROVE  AccountsInv'
  <2>1. Open' = Open
    BY <1>1, <1>5, OpenSame
  <2>2. FundsExplained'
    BY <1>1, <1>5, <2>1 DEF AccountsInv, FundsExplained
  <2> QED BY <1>1, <1>3, <1>5, <2>2
<1>6. CASE CheckFrozen(n) \/ CheckMarket(n)
  BY <1>5, <1>6 DEF CheckFrozen, CheckMarket, rows
<1>7. CASE Lock(n) /\ wallet.balance >= 1
  <2>1. /\ wallet' = [balance |-> wallet.balance - 1, locked |-> wallet.locked + 1]
        /\ orders' = [orders EXCEPT ![n] = "open"] /\ orders[n] # "open" /\ filled' = filled
    BY <1>7 DEF Lock
  <2>2. Open' = Open + 1
    BY <1>1, <2>1, OpenMore
  <2>3. /\ wallet'.balance = wallet.balance - 1 /\ wallet'.locked = wallet.locked + 1
        /\ wallet' \in [balance : Int, locked : Int]
    BY <1>4, <2>1
  <2>4. FundsExplained'
    BY <1>4, <2>1, <2>2, <2>3 DEF AccountsInv, FundsExplained
  <2>5. orders' \in [1..MaxOrders -> {"new", "user ok", "checked", "open", "done", "refused"}]
    BY <1>1, <2>1
  <2>6. filled' \in Nat
    BY <1>4, <2>1
  <2> QED BY <1>3, <2>3, <2>4, <2>5, <2>6
<1>8. CASE Lock(n) /\ ~(wallet.balance >= 1)
  BY <1>5, <1>8 DEF Lock
<1>9. CASE Fill(n)
  <2>1. /\ wallet' = [wallet EXCEPT !.locked = @ - 1] /\ filled' = filled + 1
        /\ orders' = [orders EXCEPT ![n] = "done"] /\ orders[n] = "open"
    BY <1>9 DEF Fill
  <2>2. Open' = Open - 1
    BY <1>1, <2>1, OpenLess
  <2>3. /\ wallet'.balance = wallet.balance /\ wallet'.locked = wallet.locked - 1
        /\ wallet' \in [balance : Int, locked : Int]
    BY <1>4, <2>1
  <2>4. FundsExplained'
    BY <1>4, <2>1, <2>2, <2>3 DEF AccountsInv, FundsExplained
  <2>5. orders' \in [1..MaxOrders -> {"new", "user ok", "checked", "open", "done", "refused"}]
    BY <1>1, <2>1
  <2>6. filled' \in Nat
    BY <1>4, <2>1
  <2> QED BY <1>3, <2>3, <2>4, <2>5, <2>6
<1>10. CASE Cancel(n)
  <2>1. /\ wallet' = [balance |-> wallet.balance + 1, locked |-> wallet.locked - 1]
        /\ orders' = [orders EXCEPT ![n] = "done"] /\ orders[n] = "open" /\ filled' = filled
    BY <1>10 DEF Cancel
  <2>2. Open' = Open - 1
    BY <1>1, <2>1, OpenLess
  <2>3. /\ wallet'.balance = wallet.balance + 1 /\ wallet'.locked = wallet.locked - 1
        /\ wallet' \in [balance : Int, locked : Int]
    BY <1>4, <2>1
  <2>4. FundsExplained'
    BY <1>4, <2>1, <2>2, <2>3 DEF AccountsInv, FundsExplained
  <2>5. orders' \in [1..MaxOrders -> {"new", "user ok", "checked", "open", "done", "refused"}]
    BY <1>1, <2>1
  <2>6. filled' \in Nat
    BY <1>4, <2>1
  <2> QED BY <1>3, <2>3, <2>4, <2>5, <2>6
<1> QED
  BY <1>6, <1>7, <1>8, <1>9, <1>10 DEF User

-----------------------------------------------------------------------------
(* The operators' steps: what each part of the invariant depends on.       *)

\* The wallet's sum is about the user's columns only.
LEMMA FundsFrame ==
    ASSUME AccountsInv, UNCHANGED <<wallet, orders, adjusted, overtaken, filled>>
    PROVE  FundsExplained'
<1>1. Open' = Open
  BY DEF Open
<1> QED
  BY <1>1 DEF AccountsInv, FundsExplained

\* The log depends on a request only while its audit row is to be written.
LEMMA AuditFrame ==
    ASSUME AccountsInv, UNCHANGED <<audit, auditing, lost, applied>>,
           \A o \in Operators : /\ request'[o].stage = "audit" <=> request[o].stage = "audit"
                                /\ request[o].stage = "audit" => request'[o].nr = request[o].nr
    PROVE  AuditInv'
<1>1. \A nr : AwaitsAudit(nr) => AwaitsAudit(nr)'
  BY DEF AwaitsAudit
<1> QED
  BY <1>1 DEF AccountsInv, AuditInv

\* The forms of pages and requests depend on the market.
LEMMA FormsFrame ==
    ASSUME AccountsInv, UNCHANGED <<market, page>>,
           \A o \in Operators : request'[o].kind = "market.update" =>
               \/ request[o].kind = "market.update" /\ request'[o].arg = request[o].arg
               \/ page[o].form.filled /\ request'[o].arg = page[o].form
    PROVE  FormsFit'
<1>1. \A f : FormFits(f) => FormFits(f)'
  BY DEF FormFits
<1>2. \A o \in Operators : request'[o].kind = "market.update" => FormFits(request'[o].arg)
  BY DEF AccountsInv, FormsFit
<1>3. \A f : FormFits(f)' <=> FormFits(f)
  BY DEF FormFits
<1>4. \A o \in Operators : (request[o].kind = "market.update" => FormFits(request[o].arg))'
  BY <1>2 DEF FormFits
<1> QED
  BY <1>3, <1>4 DEF AccountsInv, FormsFit, FormFits

\* A step that only moves one request on, neither to nor from its audit row.
LEMMA RequestKeeps ==
    ASSUME AccountsInv, NEW o \in Operators, NEW r,
           request' = [request EXCEPT ![o] = r], RequestOK(r),
           r.stage # "audit", request[o].stage # "audit",
           r.kind = "market.update" =>
               \/ request[o].kind = "market.update" /\ r.arg = request[o].arg
               \/ page[o].form.filled /\ r.arg = page[o].form,
           UNCHANGED <<wallet, market, orders, page, history, audit, auditing, lost, filled>>
    PROVE  AccountsInv'
<1>1. /\ UNCHANGED <<applied, adjusted, overtaken>>
      /\ DOMAIN request' = Operators /\ request'[o] = r
      /\ \A p \in Operators : p # o => request'[p] = request[p]
  BY DEF history, AccountsInv, TypeOK
<1>2. \A p \in Operators : RequestOK(request[p])'
  <2>1. \A p \in Operators : RequestOK(request'[p])
    BY <1>1 DEF AccountsInv, TypeOK
  <2> QED BY <2>1 DEF RequestOK
<1>3. TypeOK'
  BY <1>1, <1>2 DEF AccountsInv, TypeOK
<1>4. FundsExplained'
  BY <1>1, FundsFrame
<1>5. AuditInv'
  BY <1>1, AuditFrame
<1>6. FormsFit'
  BY <1>1, FormsFrame
<1> QED
  BY <1>3, <1>4, <1>5, <1>6 DEF AccountsInv

\* The record a request becomes.
LEMMA RequestChange ==
    ASSUME AccountsInv, NEW o \in Operators
    PROVE  /\ RequestOK(request[o]) /\ RequestOK(Idle)
           /\ Idle.stage = "idle" /\ Idle.kind = "none"
           /\ DOMAIN request[o] = DOMAIN Idle
           /\ DOMAIN Idle = {"kind", "stage", "nr", "arg", "read", "token", "retried"}
           /\ DOMAIN request = Operators
<1>1. DOMAIN Idle = {"kind", "stage", "nr", "arg", "read", "token", "retried"}
  BY DEF Idle
<1> QED
  BY <1>1 DEF AccountsInv, TypeOK, RequestOK, Idle

\* A dialog sends a mutation with what the page holds.
LEMMA AskKeeps ==
    ASSUME AccountsInv, NEW o \in Operators,
           \/ AskFreeze(o) \/ AskMarket(o)
           \/ \E f \in Field, d \in Deltas : AskAdjust(o, f, d)
           \/ \E a \in Assets, kind \in {"asset.create", "asset.delete"} : AskAsset(o, kind, a)
    PROVE  AccountsInv'
<1>1. ASSUME NEW role, NEW kind, NEW arg, Ask(o, role, kind, arg),
             kind = "wallet.adjust" => arg \in [field : Field, delta : Int],
             kind = "market.update" => page[o].form.filled /\ arg = page[o].form
      PROVE  AccountsInv'
  <2> DEFINE r == [Idle EXCEPT !.kind = kind, !.stage = "sent", !.nr = requests',
                               !.arg = arg, !.token = token[o]]
  <2>1. /\ request' = [request EXCEPT ![o] = r] /\ request[o] = Idle
        /\ UNCHANGED <<wallet, market, orders, page, history, audit, auditing, lost, filled>>
    BY <1>1 DEF Ask, rows, mutation
  <2>2. DOMAIN r = DOMAIN Idle /\ r.kind = kind /\ r.arg = arg /\ r.stage = "sent"
    BY RequestChange DEF Idle
  <2>3. RequestOK(r)
    <3> HIDE DEF r
    <3> QED BY <1>1, <2>2 DEF RequestOK, AccountsInv, TypeOK
  <2>4. PICK q : q = r
    OBVIOUS
  <2> HIDE DEF r
  <2> QED BY <1>1, <2>1, <2>2, <2>3, <2>4, RequestChange, RequestKeeps
<1>2. CASE AskFreeze(o)
  BY <1>1, <1>2 DEF AskFreeze
<1>3. CASE AskMarket(o)
  BY <1>1, <1>3 DEF AskMarket
<1>4. ASSUME NEW f \in Field, NEW d \in Deltas, AskAdjust(o, f, d) PROVE AccountsInv'
  <2>1. [field |-> f, delta |-> d] \in [field : Field, delta : Int]
    BY AccountsAssumption
  <2> QED BY <1>1, <1>4, <2>1 DEF AskAdjust
<1>5. ASSUME NEW a \in Assets, NEW kind \in {"asset.create", "asset.delete"}, AskAsset(o, kind, a)
      PROVE  AccountsInv'
  BY <1>1, <1>5 DEF AskAsset
<1> QED
  BY <1>2, <1>3, <1>4, <1>5

\* The console's pages: what is fetched fits, and an edit names what it changes.
LEMMA PageKeeps ==
    ASSUME AccountsInv, NEW o \in Operators,
           FetchUser(o) \/ FetchMarket(o) \/ \E m \in Market : EditMarket(o, m)
    PROVE  AccountsInv'
<1>1. UNCHANGED <<wallet, market, orders, request, applied, adjusted, overtaken, audit, auditing,
                  lost, filled>>
  BY DEF FetchUser, FetchMarket, EditMarket, rows, mutation, history
<1>2. /\ DOMAIN page = Operators /\ DOMAIN page[o] = DOMAIN Blank /\ page[o].form \in Form
      /\ DOMAIN Blank = {"loaded", "frozen", "form", "shown"}
      /\ market \in [row : [enabled : BOOLEAN, fee : Fees \cup {0}], version : Nat, disabledAt : Nat]
  BY DEF AccountsInv, TypeOK, Blank
<1>3. ASSUME NEW f, f \in Form, DOMAIN page' = Operators, DOMAIN page'[o] = DOMAIN Blank,
             page'[o].form = f, f.filled => FormFits(f),
             \A p \in Operators : p # o => page'[p] = page[p]
      PROVE  AccountsInv'
  <2>1. \A p \in Operators : RequestOK(request[p])'
    BY <1>1 DEF AccountsInv, TypeOK, RequestOK
  <2>2. \A p \in Operators : DOMAIN page'[p] = DOMAIN Blank /\ page'[p].form \in Form
    BY <1>3 DEF AccountsInv, TypeOK
  <2>3. TypeOK'
    BY <1>1, <1>3, <2>1, <2>2 DEF AccountsInv, TypeOK
  <2>4. FundsExplained' /\ AuditInv'
    BY <1>1, FundsFrame, AuditFrame
  <2>5. \A p \in Operators : page'[p].form.filled => FormFits(page'[p].form)
    BY <1>3 DEF AccountsInv, FormsFit
  <2>6. FormsFit'
    BY <1>1, <2>5 DEF AccountsInv, FormsFit, FormFits
  <2> QED BY <2>3, <2>4, <2>6 DEF AccountsInv
<1>4. CASE FetchUser(o)
  <2>1. page' = [page EXCEPT ![o].loaded = TRUE, ![o].frozen = UserDetail]
    BY <1>4 DEF FetchUser
  <2>2. /\ DOMAIN page' = Operators /\ DOMAIN page'[o] = DOMAIN Blank
        /\ page'[o].form = page[o].form /\ \A p \in Operators : p # o => page'[p] = page[p]
    BY <1>2, <2>1
  <2>3. page[o].form.filled => FormFits(page[o].form)
    BY DEF AccountsInv, FormsFit
  <2> QED BY <1>2, <1>3, <2>2, <2>3
<1>5. CASE FetchMarket(o)
  <2> DEFINE f == IF page[o].form.filled THEN page[o].form
                  ELSE [filled |-> TRUE, version |-> market.version,
                        edited |-> {}, value |-> market.row]
  <2>1. page' = [page EXCEPT ![o].shown = market.row, ![o].form = f]
    BY <1>2, <1>5 DEF FetchMarket, MarketDetail
  <2>2. /\ DOMAIN page' = Operators /\ DOMAIN page'[o] = DOMAIN Blank
        /\ page'[o].form = f /\ \A p \in Operators : p # o => page'[p] = page[p]
    <3> HIDE DEF f
    <3> QED BY <1>2, <2>1
  <2>3. f \in Form
    BY <1>2 DEF Form
  <2>4. f.filled => FormFits(f)
    BY <1>2 DEF AccountsInv, FormsFit, FormFits
  <2>5. PICK g : g = f
    OBVIOUS
  <2> HIDE DEF f
  <2> QED BY <1>3, <2>2, <2>3, <2>4, <2>5 DEF FormFits
<1>6. ASSUME NEW m \in Market, EditMarket(o, m) PROVE AccountsInv'
  <2> DEFINE e == page[o].form.edited \cup {k \in DOMAIN m : m[k] # page[o].form.value[k]}
             f == [page[o].form EXCEPT !.value = m, !.edited = e]
             first == [page EXCEPT ![o].form.value = m]
  <2>1. page[o].form.filled
    BY <1>6 DEF EditMarket
  <2>2. /\ DOMAIN page' = Operators /\ DOMAIN page'[o] = DOMAIN Blank
        /\ page'[o].form = f /\ \A p \in Operators : p # o => page'[p] = page[p]
    <3>1. page' = [first EXCEPT ![o].form.edited = e]
      BY <1>2, <1>6 DEF EditMarket, Form
    <3>2. /\ DOMAIN first = Operators /\ DOMAIN first[o] = DOMAIN Blank
          /\ first[o].form = [page[o].form EXCEPT !.value = m]
          /\ \A p \in Operators : p # o => first[p] = page[p]
      BY <1>2
    <3> HIDE DEF first, e
    <3>3. /\ DOMAIN page' = Operators /\ DOMAIN page'[o] = DOMAIN Blank
          /\ page'[o].form = [first[o].form EXCEPT !.edited = e]
          /\ \A p \in Operators : p # o => page'[p] = page[p]
      BY <1>2, <3>1, <3>2
    <3>4. [first[o].form EXCEPT !.edited = e] = f
      BY <1>2, <3>2 DEF Form
    <3> QED BY <3>3, <3>4
  <2>3. m \in [enabled : BOOLEAN, fee : Fees \cup {0}] /\ DOMAIN m = {"enabled", "fee"}
    BY DEF Market
  <2>4. e \in SUBSET {"enabled", "fee"}
    BY <1>2, <2>3 DEF Form
  <2>5. f \in Form /\ f.value = m /\ f.edited = e /\ f.version = page[o].form.version
    <3> HIDE DEF e
    <3> QED BY <1>2, <2>3, <2>4 DEF Form
  <2>6. "enabled" \notin e => m.enabled = page[o].form.value.enabled /\ "enabled" \notin page[o].form.edited
    BY <2>3
  <2>7. FormFits(page[o].form)
    BY <2>1 DEF AccountsInv, FormsFit
  <2>8. PICK g : g = f
    OBVIOUS
  <2> HIDE DEF e, f
  <2>9. FormFits(g)
    BY <2>5, <2>6, <2>7, <2>8 DEF FormFits
  <2> QED BY <1>3, <2>2, <2>5, <2>8, <2>9
<1> QED
  BY <1>4, <1>5, <1>6

\* A token that runs out, and one that is replaced.
LEMMA TokenKeeps ==
    ASSUME AccountsInv, NEW o \in Operators,
           Demote(o) \/ TokenExpires(o) \/ UpdateToken(o) \/ LoginAgain(o)
    PROVE  AccountsInv'
<1>1. UNCHANGED <<wallet, market, orders, applied, adjusted, overtaken, audit, auditing, lost, filled>>
  BY DEF Demote, TokenExpires, UpdateToken, LoginAgain, rows, mutation, history
<1>2. /\ RequestOK(request[o]) /\ RequestOK(Idle) /\ DOMAIN request = Operators
      /\ DOMAIN request[o] = {"kind", "stage", "nr", "arg", "read", "token", "retried"}
      /\ Idle.stage = "idle" /\ Idle.kind = "none" /\ DOMAIN request[o] = DOMAIN Idle
  BY RequestChange
<1>3. \E r : /\ request'[o] = r /\ RequestOK(r)
             /\ \/ r.stage = request[o].stage /\ r.kind = request[o].kind
                   /\ r.arg = request[o].arg /\ r.nr = request[o].nr
                \/ r = Idle /\ request[o].stage # "audit"
  <2>1. CASE Demote(o) \/ UpdateToken(o)
    <3>1. request'[o] = request[o]
      BY <1>2, <2>1 DEF Demote, UpdateToken
    <3> QED BY <1>2, <3>1
  <2>2. CASE TokenExpires(o)
    <3> DEFINE r == [request[o] EXCEPT !.token.live = FALSE]
    <3>1. request'[o] = r
      BY <1>2, <2>2 DEF TokenExpires
    <3>2. /\ DOMAIN r = DOMAIN Idle /\ r.kind = request[o].kind /\ r.stage = request[o].stage
          /\ r.arg = request[o].arg /\ r.read = request[o].read /\ r.nr = request[o].nr
      BY <1>2
    <3> HIDE DEF r
    <3>3. RequestOK(r)
      BY <1>2, <3>2 DEF RequestOK
    <3> QED BY <3>1, <3>2, <3>3
  <2>3. CASE LoginAgain(o)
    <3>1. request'[o] = IF request[o].stage = "401" THEN Idle ELSE request[o]
      BY <1>2, <2>3 DEF LoginAgain
    <3>2. CASE request[o].stage = "401"
      BY <1>2, <3>1, <3>2
    <3>3. CASE request[o].stage # "401"
      BY <1>2, <3>1, <3>3
    <3> QED BY <3>2, <3>3
  <2> QED BY <2>1, <2>2, <2>3
<1>4. PICK r : /\ request'[o] = r /\ RequestOK(r)
               /\ \/ r.stage = request[o].stage /\ r.kind = request[o].kind
                     /\ r.arg = request[o].arg /\ r.nr = request[o].nr
                  \/ r = Idle /\ request[o].stage # "audit"
  BY <1>3
<1>5. /\ DOMAIN request' = Operators /\ request'[o] = r
      /\ \A p \in Operators : p # o => request'[p] = request[p]
  BY <1>2, <1>4 DEF Demote, TokenExpires, UpdateToken, LoginAgain
<1>6. \A p \in Operators : RequestOK(request[p])'
  <2>1. \A p \in Operators : RequestOK(request'[p])
    BY <1>4, <1>5 DEF AccountsInv, TypeOK
  <2> QED BY <2>1 DEF RequestOK
<1>7. page' = page \/ page' = [page EXCEPT ![o] = Blank]
  BY DEF Demote, TokenExpires, UpdateToken, LoginAgain
<1>8. \A p \in Operators : page'[p] = page[p] \/ page'[p] = Blank
  BY <1>7 DEF AccountsInv, TypeOK
<1>9. Blank.form \in Form /\ ~Blank.form.filled
  BY DEF Blank, NoForm, Form
<1>10. /\ DOMAIN page' = Operators
       /\ \A p \in Operators : DOMAIN page'[p] = DOMAIN Blank /\ page'[p].form \in Form
  BY <1>7, <1>8, <1>9 DEF AccountsInv, TypeOK
<1>11. TypeOK'
  BY <1>1, <1>5, <1>6, <1>10 DEF AccountsInv, TypeOK
<1>12. FundsExplained'
  BY <1>1, FundsFrame
<1>13. AuditInv'
  BY <1>1, <1>2, <1>4, <1>5, AuditFrame
<1>14. \A p \in Operators : /\ page'[p].form.filled => FormFits(page'[p].form)
                            /\ request'[p].kind = "market.update" => FormFits(request'[p].arg)
  BY <1>2, <1>4, <1>5, <1>8, <1>9 DEF AccountsInv, FormsFit
<1>15. FormsFit'
  BY <1>1, <1>14 DEF AccountsInv, FormsFit, FormFits
<1> QED
  BY <1>11, <1>12, <1>13, <1>15 DEF AccountsInv

\* The guards, the retry with a new token, and what the server reads or refuses.
LEMMA PassKeeps ==
    ASSUME AccountsInv, NEW o \in Operators,
           \/ Guard(o) \/ Retry(o) \/ AdjustRead(o) \/ RemoveCheck(o)
           \/ Refuse(o) /\ request[o].stage # "audit"
    PROVE  AccountsInv'
<1>1. /\ RequestOK(request[o]) /\ RequestOK(Idle) /\ DOMAIN request = Operators
      /\ DOMAIN request[o] = {"kind", "stage", "nr", "arg", "read", "token", "retried"}
      /\ Idle.stage = "idle" /\ Idle.kind = "none" /\ DOMAIN request[o] = DOMAIN Idle
  BY RequestChange
<1>2. /\ request[o].stage # "audit"
      /\ UNCHANGED <<wallet, market, orders, page, history, audit, auditing, lost, filled>>
  BY DEF Guard, Retry, AdjustRead, RemoveCheck, Refuse, At, rows, mutation
<1>3. ASSUME NEW r, request' = [request EXCEPT ![o] = r], DOMAIN r = DOMAIN Idle,
             r.kind = request[o].kind, r.arg = request[o].arg, r.stage # "audit",
             r.stage = "write" /\ r.kind = "wallet.adjust" => r.read \in [balance : Int, locked : Int]
      PROVE  AccountsInv'
  <2>1. RequestOK(r)
    BY <1>1, <1>3 DEF RequestOK
  <2> QED BY <1>2, <1>3, <2>1, RequestKeeps
<1>4. ASSUME request' = [request EXCEPT ![o] = Idle] PROVE AccountsInv'
  BY <1>1, <1>2, <1>4, RequestKeeps
<1>5. ASSUME NEW stage \in {"handle", "401"}, request' = [request EXCEPT ![o].stage = stage]
      PROVE  AccountsInv'
  <2> DEFINE r == [request[o] EXCEPT !.stage = stage]
  <2>1. request' = [request EXCEPT ![o] = r]
    BY <1>5
  <2>2. DOMAIN r = DOMAIN Idle /\ r.kind = request[o].kind /\ r.arg = request[o].arg /\ r.stage = stage
    BY <1>1
  <2>3. PICK q : q = r
    OBVIOUS
  <2> HIDE DEF r
  <2> QED BY <1>3, <2>1, <2>2, <2>3
<1>6. CASE Guard(o)
  BY <1>4, <1>5, <1>6 DEF Guard, Authenticate
<1>7. CASE Retry(o)
  <2>1. CASE request[o].retried
    BY <1>4, <1>7, <2>1 DEF Retry
  <2>2. CASE ~request[o].retried
    <3>1. PICK t : t = Issue(o)
      OBVIOUS
    <3> DEFINE r == [request[o] EXCEPT !.stage = "sent", !.token = t, !.retried = TRUE]
    <3>2. request' = [request EXCEPT ![o].stage = "sent", ![o].token = t, ![o].retried = TRUE]
      BY <1>7, <2>2, <3>1 DEF Retry
    <3>3. request' = [request EXCEPT ![o] = r]
      BY <1>1, <3>2
    <3>4. DOMAIN r = DOMAIN Idle /\ r.kind = request[o].kind /\ r.arg = request[o].arg /\ r.stage = "sent"
      BY <1>1
    <3>5. PICK q : q = r
      OBVIOUS
    <3> HIDE DEF r
    <3> QED BY <1>3, <3>3, <3>4, <3>5
  <2> QED BY <2>1, <2>2
<1>8. CASE Refuse(o)
  BY <1>4, <1>8 DEF Refuse
<1>9. ASSUME NEW read, Reach(o, "write", read),
             request[o].kind = "wallet.adjust" => read \in [balance : Int, locked : Int]
      PROVE  AccountsInv'
  <2> DEFINE r == [request[o] EXCEPT !.stage = "write", !.read = read]
  <2>1. request' = [request EXCEPT ![o] = r]
    BY <1>1, <1>9 DEF Reach
  <2>2. /\ DOMAIN r = DOMAIN Idle /\ r.kind = request[o].kind /\ r.arg = request[o].arg
        /\ r.stage = "write" /\ r.read = read
    BY <1>1
  <2>3. PICK q : q = r
    OBVIOUS
  <2> HIDE DEF r
  <2> QED BY <1>3, <1>9, <2>1, <2>2, <2>3
<1>10. CASE AdjustRead(o)
  <2>1. wallet \in [balance : Int, locked : Int]
    BY DEF AccountsInv, TypeOK
  <2>2. Refuse(o) \/ Reach(o, "write", wallet)
    BY <1>10 DEF AdjustRead
  <2>3. PICK w : w = wallet
    OBVIOUS
  <2> QED BY <1>8, <1>9, <2>1, <2>2, <2>3
<1>11. CASE RemoveCheck(o)
  <2>1. request[o].kind # "wallet.adjust" /\ (Refuse(o) \/ Reach(o, "write", 0))
    BY <1>11 DEF RemoveCheck, At
  <2> QED BY <1>8, <1>9, <2>1
<1> QED
  BY <1>6, <1>7, <1>8, <1>10, <1>11

\* A mutation that succeeds is on its way to the log.
LEMMA SucceedAudit ==
    ASSUME AccountsInv, NEW o \in Operators, Succeed(o), audit' = audit,
           request[o].stage # "audit"
    PROVE  /\ AuditInv'
           /\ DOMAIN request' = Operators /\ request'[o] = Idle
           /\ \A p \in Operators : p # o => request'[p] = request[p]
           /\ \A p \in Operators : RequestOK(request[p])'
<1>1. /\ DOMAIN request' = Operators /\ request'[o] = Idle /\ Idle.stage = "idle"
      /\ \A p \in Operators : p # o => request'[p] = request[p]
  BY RequestChange DEF Succeed
<1>2. /\ applied' = applied \cup {request[o].nr} /\ auditing' = auditing \cup {request[o].nr}
      /\ lost' = lost
  BY DEF Succeed
<1>3. \A nr : AwaitsAudit(nr) => AwaitsAudit(nr)'
  BY <1>1 DEF AwaitsAudit
<1>4. AuditInv'
  BY <1>1, <1>2, <1>3 DEF AccountsInv, AuditInv
<1>5. \A p \in Operators : RequestOK(request'[p])
  BY <1>1, RequestChange
<1>6. \A p \in Operators : RequestOK(request[p])'
  BY <1>5 DEF RequestOK
<1> QED
  BY <1>1, <1>4, <1>6

\* Freezing, creating and deleting touch neither wallet nor market.
LEMMA SimpleKeeps ==
    ASSUME AccountsInv, NEW o \in Operators,
           SetFrozen(o) \/ CreateAsset(o) \/ RemoveAsset(o)
    PROVE  AccountsInv'
<1>1. request[o].stage # "audit"
  BY DEF SetFrozen, CreateAsset, RemoveAsset, At
<1>2. CASE Refuse(o)
  BY <1>1, <1>2, PassKeeps
<1>3. CASE Succeed(o) /\ UNCHANGED <<wallet, market, orders, page, audit, filled>>
  <2>1. /\ AuditInv' /\ DOMAIN request' = Operators /\ request'[o] = Idle /\ Idle.kind = "none"
        /\ \A p \in Operators : p # o => request'[p] = request[p]
        /\ \A p \in Operators : RequestOK(request[p])'
    BY <1>1, <1>3, SucceedAudit, RequestChange
  <2>2. UNCHANGED <<wallet, market, orders, page, adjusted, overtaken, filled>>
    BY <1>3 DEF Succeed
  <2>3. TypeOK'
    BY <2>1, <2>2 DEF AccountsInv, TypeOK
  <2>4. FundsExplained' /\ FormsFit'
    BY <2>1, <2>2, FundsFrame, FormsFrame
  <2> QED BY <2>1, <2>3, <2>4 DEF AccountsInv
<1> QED
  BY <1>2, <1>3 DEF SetFrozen, CreateAsset, RemoveAsset

\* An update writes the whole form: what was filled before a disabling fits
\* the disabled market because its version is older.
LEMMA UpdateKeeps ==
    ASSUME AccountsInv, NEW o \in Operators, UpdateMarket(o)
    PROVE  AccountsInv'
<1>1. /\ request[o].kind = "market.update" /\ request[o].stage = "handle" /\ Succeed(o)
      /\ UNCHANGED <<wallet, orders, page, audit, filled>>
      /\ market' = [row |-> request[o].arg.value, version |-> market.version + 1,
                    disabledAt |-> IF market.row.enabled /\ ~request[o].arg.value.enabled
                                   THEN market.version + 1 ELSE market.disabledAt]
  BY DEF UpdateMarket, At
<1>2. /\ AuditInv' /\ DOMAIN request' = Operators /\ request'[o] = Idle /\ Idle.kind = "none"
      /\ \A p \in Operators : p # o => request'[p] = request[p]
      /\ \A p \in Operators : RequestOK(request[p])'
  BY <1>1, SucceedAudit, RequestChange
<1>3. UNCHANGED <<wallet, orders, page, adjusted, overtaken, filled>>
  BY <1>1 DEF Succeed
<1>4. /\ request[o].arg \in Form
      /\ market \in [row : [enabled : BOOLEAN, fee : Fees \cup {0}], version : Nat, disabledAt : Nat]
  BY <1>1, RequestChange DEF AccountsInv, TypeOK, RequestOK
<1>5. PICK v : v = request[o].arg.value
  OBVIOUS
<1>6. v \in [enabled : BOOLEAN, fee : Fees \cup {0}]
  BY <1>4, <1>5 DEF Form
<1>7. /\ market'.row = v /\ market'.version = market.version + 1
      /\ market'.disabledAt = IF market.row.enabled /\ ~v.enabled
                              THEN market.version + 1 ELSE market.disabledAt
      /\ market.version \in Nat /\ market.disabledAt \in Nat /\ market.disabledAt <= market.version
  BY <1>1, <1>4, <1>5 DEF AccountsInv, FormsFit
<1>8. market' \in [row : [enabled : BOOLEAN, fee : Fees \cup {0}], version : Nat, disabledAt : Nat]
  BY <1>1, <1>5, <1>6, <1>7
<1>9. TypeOK'
  BY <1>2, <1>3, <1>8 DEF AccountsInv, TypeOK
<1>10. ASSUME NEW f, f.version \in Nat, FormFits(f)
       PROVE  /\ f.version <= market'.version
              /\ f.value.enabled /\ "enabled" \notin f.edited /\ ~market'.row.enabled
                    => f.version < market'.disabledAt
  <2>1. f.version <= market.version
    BY <1>10 DEF FormFits
  <2>2. CASE market.row.enabled
    BY <1>7, <1>10, <2>1, <2>2
  <2>3. CASE ~market.row.enabled
    BY <1>7, <1>10, <2>1, <2>3 DEF FormFits
  <2> QED BY <2>2, <2>3
<1>11. FundsExplained'
  BY <1>3, FundsFrame
<1>12. \A p \in Operators :
          /\ page[p].form.version \in Nat
          /\ request[p].kind = "market.update" => request[p].arg.version \in Nat
  BY DEF AccountsInv, TypeOK, RequestOK, Form
<1>13. market'.disabledAt <= market'.version
  BY <1>7
<1>14. FormsFit'
  BY <1>2, <1>3, <1>10, <1>12, <1>13 DEF AccountsInv, FormsFit, FormFits
<1> QED
  BY <1>2, <1>9, <1>11, <1>14 DEF AccountsInv

\* An adjustment writes the sum it has computed: the column adds up, or the
\* column is on record as overtaken.
LEMMA AdjustKeeps ==
    ASSUME AccountsInv, NEW o \in Operators, AdjustWrite(o)
    PROVE  AccountsInv'
<1>1. PICK f, d, read : /\ f = request[o].arg.field /\ d = request[o].arg.delta
                        /\ read = request[o].read
  OBVIOUS
<1>2. /\ request[o].kind = "wallet.adjust" /\ request[o].stage = "write"
      /\ wallet' = [wallet EXCEPT ![f] = read[f] + d]
      /\ adjusted' = [adjusted EXCEPT ![f] = @ + d]
      /\ overtaken' = IF read[f] = wallet[f] THEN overtaken ELSE overtaken \cup {f}
      /\ applied' = applied \cup {request[o].nr}
      /\ Reach(o, "audit", read)
      /\ UNCHANGED <<market, orders, page, audit, auditing, lost, filled>>
  BY <1>1 DEF AdjustWrite, At, mutation
<1>3. /\ f \in Field /\ d \in Int /\ read \in [balance : Int, locked : Int]
      /\ wallet \in [balance : Int, locked : Int] /\ adjusted \in [Field -> Int]
  BY <1>1, <1>2, RequestChange DEF AccountsInv, TypeOK, RequestOK
<1>4. /\ wallet' \in [balance : Int, locked : Int] /\ adjusted' \in [Field -> Int]
      /\ read[f] \in Int
  BY <1>2, <1>3 DEF Field
<1>5. FundsExplained'
  <2>1. Open' = Open /\ filled' = filled
    BY <1>2 DEF Open
  <2>2. /\ Open \in Nat /\ Opening \in Nat /\ filled \in Nat
        /\ wallet.balance \in Int /\ wallet.locked \in Int
        /\ adjusted.balance \in Int /\ adjusted.locked \in Int
    BY <1>3, OpenFacts, AccountsAssumption DEF Field, AccountsInv, TypeOK
  <2>3. CASE f = "balance"
    <3>1. /\ wallet'.balance = read.balance + d /\ wallet'.locked = wallet.locked
          /\ adjusted'.balance = adjusted.balance + d /\ adjusted'.locked = adjusted.locked
      BY <1>2, <1>3, <2>3 DEF Field
    <3>2. /\ "locked" \in overtaken' <=> "locked" \in overtaken
          /\ "balance" \notin overtaken' => read.balance = wallet.balance /\ "balance" \notin overtaken
      BY <1>2, <2>3
    <3> QED BY <1>3, <2>1, <2>2, <3>1, <3>2 DEF AccountsInv, FundsExplained
  <2>4. CASE f = "locked"
    <3>1. /\ wallet'.locked = read.locked + d /\ wallet'.balance = wallet.balance
          /\ adjusted'.locked = adjusted.locked + d /\ adjusted'.balance = adjusted.balance
      BY <1>2, <1>3, <2>4 DEF Field
    <3>2. /\ "balance" \in overtaken' <=> "balance" \in overtaken
          /\ "locked" \notin overtaken' => read.locked = wallet.locked /\ "locked" \notin overtaken
      BY <1>2, <2>4
    <3> QED BY <1>3, <2>1, <2>2, <3>1, <3>2 DEF AccountsInv, FundsExplained
  <2> QED BY <1>3, <2>3, <2>4 DEF Field
<1> DEFINE r == [request[o] EXCEPT !.stage = "audit", !.read = read]
<1>6. request' = [request EXCEPT ![o] = r]
  BY <1>2, RequestChange DEF Reach
<1>7. /\ DOMAIN r = DOMAIN Idle /\ r.kind = "wallet.adjust" /\ r.arg = request[o].arg
      /\ r.stage = "audit" /\ r.nr = request[o].nr
  BY <1>2, RequestChange
<1>8. /\ DOMAIN request' = Operators /\ request'[o].kind = "wallet.adjust"
      /\ request'[o].stage = "audit" /\ request'[o].nr = request[o].nr
      /\ request'[o].arg = request[o].arg /\ DOMAIN request'[o] = DOMAIN Idle
      /\ \A p \in Operators : p # o => request'[p] = request[p]
  <2> HIDE DEF r
  <2> QED BY <1>6, <1>7, RequestChange
<1>9. \A p \in Operators : RequestOK(request[p])'
  <2>1. RequestOK(request'[o])
    BY <1>2, <1>8, RequestChange DEF RequestOK
  <2>2. \A p \in Operators : RequestOK(request'[p])
    BY <1>8, <2>1, RequestChange
  <2> QED BY <2>2 DEF RequestOK
<1>10. TypeOK'
  BY <1>2, <1>4, <1>8, <1>9 DEF AccountsInv, TypeOK
<1>11. AuditInv'
  <2>1. \A nr : AwaitsAudit(nr) => AwaitsAudit(nr)'
    BY <1>2, <1>8 DEF AwaitsAudit
  <2>2. PICK n : n = request[o].nr
    OBVIOUS
  <2>3. AwaitsAudit(n)'
    BY <1>8, <2>2 DEF AwaitsAudit
  <2> QED BY <1>2, <1>8, <2>1, <2>2, <2>3 DEF AccountsInv, AuditInv
<1>12. FormsFit'
  BY <1>2, <1>8, FormsFrame
<1> QED
  BY <1>5, <1>10, <1>11, <1>12 DEF AccountsInv

\* An audit insert succeeds, or its failure is on record.
LEMMA AuditKeeps ==
    ASSUME AccountsInv,
           (\E o \in Operators : AdjustAudit(o)) \/ (\E nr \in auditing : WriteAudit(nr)) \/ Crash
    PROVE  AccountsInv'
<1>1. /\ UNCHANGED <<wallet, market, orders, page, applied, adjusted, overtaken, filled>>
      /\ DOMAIN request' = Operators
      /\ \A p \in Operators : request'[p] = request[p] \/ request'[p] = Idle
  BY RequestChange DEF AdjustAudit, WriteAudit, Crash, rows, history, AccountsInv, TypeOK
<1>2. RequestOK(Idle) /\ Idle.kind = "none" /\ Idle.stage = "idle"
  BY DEF RequestOK, Idle
<1>3. \A p \in Operators : RequestOK(request[p])'
  <2>1. \A p \in Operators : RequestOK(request'[p])
    BY <1>1, <1>2 DEF AccountsInv, TypeOK
  <2> QED BY <2>1 DEF RequestOK
<1>4. TypeOK'
  BY <1>1, <1>3 DEF AccountsInv, TypeOK
<1>5. FundsExplained' /\ FormsFit'
  BY <1>1, <1>2, FundsFrame, FormsFrame
<1>6. ASSUME NEW nr, Insert(nr)
      PROVE  /\ audit \subseteq audit' /\ lost \subseteq lost' /\ nr \in audit' \cup lost'
             /\ audit' \subseteq audit \cup {nr}
  BY <1>6 DEF Insert
<1>7. ASSUME NEW o \in Operators, AdjustAudit(o) PROVE AuditInv'
  <2>1. PICK n : n = request[o].nr
    OBVIOUS
  <2>2. /\ request[o].stage = "audit" /\ Insert(n) /\ auditing' = auditing /\ applied' = applied
        /\ request'[o] = Idle /\ \A p \in Operators : p # o => request'[p] = request[p]
    BY <1>1, <1>7, <2>1, RequestChange DEF AdjustAudit, At
  <2>3. n \in applied /\ \A nr : AwaitsAudit(nr) => AwaitsAudit(nr)' \/ nr = n
    BY <2>1, <2>2 DEF AccountsInv, AuditInv, AwaitsAudit
  <2> QED BY <1>2, <1>6, <2>2, <2>3 DEF AccountsInv, AuditInv
<1>8. ASSUME NEW nr \in auditing, WriteAudit(nr) PROVE AuditInv'
  <2>1. Insert(nr) /\ auditing' = auditing \ {nr} /\ applied' = applied /\ request' = request
    BY <1>1, <1>8 DEF WriteAudit
  <2>2. \A n : AwaitsAudit(n) => AwaitsAudit(n)'
    BY <2>1 DEF AwaitsAudit
  <2> QED BY <1>6, <2>1, <2>2 DEF AccountsInv, AuditInv
<1>9. ASSUME Crash PROVE AuditInv'
  <2>1. /\ lost' = lost \cup auditing
                       \cup {request[o].nr : o \in {p \in Operators : request[p].stage = "audit"}}
        /\ request' = [o \in Operators |-> Idle] /\ auditing' = {} /\ audit' = audit
        /\ applied' = applied
    BY <1>1, <1>9 DEF Crash
  <2>2. \A n : AwaitsAudit(n) => n \in lost'
    BY <2>1 DEF AwaitsAudit
  <2>3. audit' \cup auditing' \subseteq applied'
    BY <2>1 DEF AccountsInv, AuditInv
  <2>4. \A n \in applied' : n \in audit' \cup auditing' \cup lost'
    BY <2>1, <2>2 DEF AccountsInv, AuditInv
  <2>5. \A p \in Operators : request'[p].stage # "audit"
    BY <1>2, <2>1
  <2> QED BY <2>3, <2>4, <2>5 DEF AuditInv, AwaitsAudit
<1> QED
  BY <1>4, <1>5, <1>7, <1>8, <1>9 DEF AccountsInv

\* The invariant is inductive.
LEMMA NextAccountsInv == AccountsInv /\ [Next]_vars => AccountsInv'
<1> SUFFICES ASSUME AccountsInv, [Next]_vars PROVE AccountsInv'
  OBVIOUS
<1>1. ASSUME UNCHANGED <<wallet, market, orders, admin, history, filled>> PROVE AccountsInv'
  <2>1. UNCHANGED <<wallet, orders, adjusted, overtaken, filled>>
    BY <1>1 DEF history
  <2>2. FundsExplained'
    BY <2>1, FundsFrame
  <2>3. TypeOK' /\ AuditInv' /\ FormsFit'
    BY <1>1, UserFrame DEF AccountsInv, TypeOK
  <2> QED BY <2>2, <2>3 DEF AccountsInv
<1>2. ASSUME NEW a \in Assets, Signup(a) PROVE AccountsInv'
  BY <1>1, <1>2 DEF Signup
<1>3. CASE UNCHANGED vars
  BY <1>1, <1>3 DEF vars, rows
<1>4. ASSUME NEW o \in Operators, Console(o) PROVE AccountsInv'
  BY <1>4, AskKeeps, PageKeeps DEF Console
<1>5. ASSUME NEW o \in Operators, Access(o) PROVE AccountsInv'
  BY <1>5, TokenKeeps, PassKeeps DEF Access
<1>6. ASSUME NEW o \in Operators, Server(o) PROVE AccountsInv'
  BY <1>6, SimpleKeeps, PassKeeps, UpdateKeeps, AdjustKeeps, AuditKeeps DEF Server
<1> QED
  BY <1>2, <1>3, <1>4, <1>5, <1>6, UserKeeps, AuditKeeps DEF Next

-----------------------------------------------------------------------------
\* The inductive invariant holds of every behaviour of users and operators.
THEOREM AccountsInvariance == Spec => []AccountsInv
<1>1. ASSUME Init PROVE AccountsInv
  <2>1. TypeOK
    <3>1. \A o \in Operators : request[o] = Idle /\ page[o] = Blank
      BY <1>1 DEF Init
    <3>2. RequestOK(Idle) /\ Blank.form \in Form
      BY DEF RequestOK, Idle, Blank, NoForm, Form
    <3> QED BY <1>1, <3>1, <3>2, AccountsAssumption DEF Init, TypeOK, Field
  <2>2. FundsExplained
    <3>1. {n \in 1..MaxOrders : orders[n] = "open"} = {}
      BY <1>1 DEF Init
    <3>2. Open = 0
      BY <3>1, FS_EmptySet DEF Open
    <3> QED BY <1>1, <3>2, AccountsAssumption DEF Init, FundsExplained, Field
  <2>3. AuditInv
    BY <1>1 DEF Init, AuditInv, Idle
  <2>4. FormsFit
    BY <1>1 DEF Init, FormsFit, Idle, Blank, NoForm
  <2> QED BY <2>1, <2>2, <2>3, <2>4 DEF AccountsInv
<1> QED
  BY <1>1, NextAccountsInv, PTL DEF Spec

\* Whatever adjustments, locks, fills and cancels interleave, each column of
\* the wallet is explained by deposits, deltas, open orders and fills, unless
\* an adjustment wrote back a sum it had computed from an older value (adjust).
THEOREM WalletAddsUp == Spec => []FundsExplained
<1>1. AccountsInv => FundsExplained
  BY DEF AccountsInv
<1> QED
  BY <1>1, AccountsInvariance, PTL

\* The audit log holds only mutations that took effect, and every one that did
\* is in it or on its way unless an insert failed or the process died
\* (AdminAuditInterceptor, adjust).
THEOREM LogIsTruthful == Spec => []AuditIsTruthful
<1>1. ASSUME AccountsInv PROVE AuditIsTruthful
  <2>1. \A nr : AwaitsAudit(nr) =>
           nr \in {request[o].nr : o \in {p \in Operators : request[p].stage = "audit"}}
    BY DEF AwaitsAudit
  <2> QED BY <1>1, <2>1 DEF AccountsInv, AuditInv, AuditIsTruthful
<1> QED
  BY <1>1, AccountsInvariance, PTL

\* A form filled after a market was disabled does not reopen it unasked: every
\* reopening is an operator's choice or a form from before (MarketDetailPage,
\* AdminMarketsService.update).
THEOREM ReopeningNeedsReason == Spec => ReopeningIsExplained
<1> DEFINE Reason == \E o \in Operators :
               /\ request[o].kind = "market.update"
               /\ \/ "enabled" \in request[o].arg.edited
                  \/ request[o].arg.version < market.disabledAt
<1>1. ASSUME AccountsInv, [Next]_vars, ~market.row.enabled, market'.row.enabled PROVE Reason
  <2>1. PICK o \in Operators : UpdateMarket(o)
    <3>1. market' # market
      BY <1>1
    <3>2. ASSUME NEW n, User(n) PROVE market' = market
      BY <3>2 DEF User, CheckFrozen, CheckMarket, Lock, Fill, Cancel, rows
    <3>3. ASSUME NEW p \in Operators, Console(p) PROVE market' = market
      BY <3>3 DEF Console, FetchUser, FetchMarket, AskFreeze, AskMarket, EditMarket, AskAdjust,
                  AskAsset, Ask, rows
    <3>4. ASSUME NEW p \in Operators, Access(p) PROVE market' = market
      BY <3>4 DEF Access, Demote, TokenExpires, UpdateToken, Guard, Retry, LoginAgain, rows
    <3>5. ASSUME NEW p \in Operators, Server(p) PROVE market' = market \/ UpdateMarket(p)
      BY <3>5 DEF Server, SetFrozen, AdjustRead, AdjustWrite, AdjustAudit, CreateAsset,
                  RemoveCheck, RemoveAsset, Refuse, rows
    <3>6. ASSUME NEW a, Signup(a) PROVE market' = market
      BY <3>6 DEF Signup
    <3>7. ASSUME NEW nr, WriteAudit(nr) PROVE market' = market
      BY <3>7 DEF WriteAudit, rows
    <3>8. ASSUME Crash \/ UNCHANGED vars PROVE market' = market
      BY <3>8 DEF Crash, vars, rows
    <3> QED
      BY <1>1, <3>1, <3>2, <3>3, <3>4, <3>5, <3>6, <3>7, <3>8 DEF Next
  <2>2. /\ request[o].kind = "market.update" /\ market'.row = request[o].arg.value
    BY <2>1 DEF UpdateMarket, At
  <2>3. FormFits(request[o].arg)
    BY <1>1, <2>2 DEF AccountsInv, FormsFit
  <2> QED BY <1>1, <2>2, <2>3 DEF FormFits
<1>2. AccountsInv /\ [Next]_vars =>
        [~market.row.enabled /\ market'.row.enabled => Reason]_vars
  BY <1>1
<1> QED
  BY <1>2, AccountsInvariance, PTL DEF Spec, ReopeningIsExplained
=============================================================================
