---------------------------- MODULE AdminAccounts ----------------------------
(***************************************************************************)
(* Operators who change a user's account, a market and the assets through  *)
(* the admin console, while the user trades.                               *)
(*                                                                         *)
(* A console page works on the copy it fetched last; its market form is    *)
(* filled once, when the page first gets data, and is sent as a whole.  A   *)
(* request refused for its token is sent once more with a new one.  On     *)
(* the server every mutation reads before it writes, and nothing is locked *)
(* in between: a wallet adjustment writes back an absolute value, while    *)
(* orders and settlements change the same row by relative updates.  One    *)
(* user with one wallet and one market stand for all: rows do not          *)
(* interact.  Money is counted in orders it pays for.                      *)
(***************************************************************************)
EXTENDS Integers, FiniteSets, TLC

CONSTANTS Operators,
          Roles,        \* the realm roles each operator has at first
          Assets,       \* asset symbols an operator may create or delete
          Listed,       \* assets a market refers to
          Opening,      \* the wallet's first balance
          Deltas,       \* what an adjustment may add
          Fees,         \* takerFeeBp values an operator may enter
          MaxOrders,    \* bound: submissions of the user
          MaxRequests,  \* bound: mutations the operators send
          MaxSignups,   \* bound: signups that open a wallet in an asset
          MaxDemotions, \* bound: operators who lose their roles
          MaxFaults     \* bound: inserts or token refreshes that fail, tokens that run out,
                        \*   deaths of the API process

Market == [enabled : BOOLEAN, fee : Fees]
Field == {"balance", "locked"}

ASSUME AccountsAssumption ==
    /\ Roles \in [Operators -> SUBSET {"SUPPORT_READ", "WALLET_ADJUST", "MARKET_OPS"}]
    /\ MaxDemotions \in Nat
    /\ Listed \subseteq Assets
    /\ Opening \in Nat /\ Deltas \subseteq Int /\ Fees # {}
    /\ MaxOrders \in Nat /\ MaxRequests \in Nat /\ MaxSignups \in Nat /\ MaxFaults \in Nat

VARIABLES
    wallet,    \* balance and locked
    frozen,    \* User.frozen
    market,    \* Market.enabled and takerFeeBp, with the number of updates so far
    assets,    \* Asset rows
    held,      \* assets some wallet refers to
    orders,    \* the user's submissions: how far each has come
    view,      \* the page each operator works on: what different pages change does not meet
    granted,   \* Keycloak: the roles of each operator now
    token,     \* each console's access token: its roles, and whether it still verifies
    page,      \* what each operator's console holds
    request,   \* the mutation each operator has under way
    auditing,  \* audit inserts under way that no request waits for, by request
    audit,     \* AdminAuditLog rows, by request
    applied,   \* history: requests whose write is done
    lost,      \* history: requests whose audit insert failed or died
    adjusted,  \* history: the sum of the deltas written to each field
    overtaken, \* history: fields an adjustment overwrote with a stale sum
    filled, requests, signups, demotions, faults

mutation == <<auditing, audit, lost>>
access == <<view, granted, token, demotions>>
admin == <<access, page, request, mutation, requests, faults>>
rows == <<wallet, frozen, market, assets, held>>
history == <<applied, adjusted, overtaken>>
vars == <<rows, orders, admin, history, filled, signups>>

NoToken == [roles |-> {}, live |-> FALSE]
Idle == [kind |-> "none", stage |-> "idle", nr |-> 0, arg |-> 0, read |-> 0,
         token |-> NoToken, retried |-> FALSE]
NoForm == [filled |-> FALSE, version |-> 0, edited |-> {}, value |-> [enabled |-> TRUE, fee |-> 0]]
Blank == [loaded |-> FALSE, frozen |-> FALSE, form |-> NoForm, shown |-> NoForm.value]
Issue(o) == [roles |-> granted[o], live |-> TRUE]

Init ==
    /\ wallet = [balance |-> Opening, locked |-> 0]
    /\ frozen = FALSE
    /\ market = [row |-> [enabled |-> TRUE, fee |-> CHOOSE f \in Fees : TRUE],
                 version |-> 0, disabledAt |-> 0]
    /\ assets = Listed /\ held = {}
    /\ orders = [n \in 1..MaxOrders |-> "new"]
    /\ view \in [Operators -> {"user", "market", "assets"}]
    /\ granted = Roles /\ token = [o \in Operators |-> Issue(o)]
    /\ page = [o \in Operators |-> Blank]
    /\ request = [o \in Operators |-> Idle]
    /\ auditing = {} /\ audit = {} /\ applied = {} /\ lost = {}
    /\ adjusted = [f \in Field |-> 0] /\ overtaken = {}
    /\ filled = 0 /\ requests = 0 /\ signups = 0 /\ demotions = 0 /\ faults = 0

-----------------------------------------------------------------------------
(* The user: OrderService.submit, the matcher's fills and cancels.         *)

CheckFrozen(n) ==
    /\ orders[n] = "new"
    /\ orders' = [orders EXCEPT ![n] = IF frozen THEN "refused" ELSE "user ok"]
    /\ UNCHANGED <<rows, admin, history, filled, signups>>

CheckMarket(n) ==
    /\ orders[n] = "user ok"
    /\ orders' = [orders EXCEPT ![n] = IF market.row.enabled THEN "checked" ELSE "refused"]
    /\ UNCHANGED <<rows, admin, history, filled, signups>>

\* The transaction: lock and insert.  The flags are not read again.
Lock(n) ==
    /\ orders[n] = "checked"
    /\ IF wallet.balance >= 1
       THEN /\ wallet' = [balance |-> wallet.balance - 1, locked |-> wallet.locked + 1]
            /\ orders' = [orders EXCEPT ![n] = "open"]
       ELSE wallet' = wallet /\ orders' = [orders EXCEPT ![n] = "refused"]
    /\ UNCHANGED <<frozen, market, assets, held, admin, history, filled, signups>>

\* A settlement spends, a cancel returns, what was locked; the CHECK
\* constraint rolls both back when an operator has taken it away.
Fill(n) ==
    /\ orders[n] = "open" /\ wallet.locked >= 1
    /\ wallet' = [wallet EXCEPT !.locked = @ - 1]
    /\ orders' = [orders EXCEPT ![n] = "done"]
    /\ filled' = filled + 1
    /\ UNCHANGED <<frozen, market, assets, held, admin, history, signups>>

Cancel(n) ==
    /\ orders[n] = "open" /\ wallet.locked >= 1
    /\ wallet' = [balance |-> wallet.balance + 1, locked |-> wallet.locked - 1]
    /\ orders' = [orders EXCEPT ![n] = "done"]
    /\ UNCHANGED <<frozen, market, assets, held, admin, history, filled, signups>>

\* A signup opens wallets in fixed assets; the foreign key refuses a missing one.
Signup(a) ==
    /\ signups < MaxSignups /\ a \in assets
    /\ signups' = signups + 1
    /\ held' = held \cup {a}
    /\ UNCHANGED <<wallet, frozen, market, assets, orders, admin, history, filled>>

-----------------------------------------------------------------------------
(* The console.                                                            *)

HasRole(o, role) == role \in token[o].roles

\* What the pages use of the answers.
UserDetail == frozen
MarketDetail == market.row

\* UserDetailPage's query, on mount, on focus and after a mutation.
FetchUser(o) ==
    /\ view[o] = "user" /\ HasRole(o, "SUPPORT_READ")
    /\ page' = [page EXCEPT ![o].loaded = TRUE, ![o].frozen = UserDetail]
    /\ UNCHANGED <<rows, orders, access, request, mutation, requests, faults, history, filled, signups>>

\* Mutant: the form starts from defaults, not from the data.
FetchMarketDefaults(o) ==
    /\ view[o] = "market"
    /\ page' = [page EXCEPT ![o].shown = market.row,
                            ![o].form = IF @.filled THEN @
                                        ELSE [filled |-> TRUE, version |-> market.version,
                                              edited |-> {}, value |-> [market.row EXCEPT !.enabled = TRUE]]]
    /\ UNCHANGED <<rows, orders, access, request, mutation, requests, faults, history, filled, signups>>

\* MarketDetailPage's query, every five seconds: only the first answer fills
\* the form, later ones change what it is compared with.
FetchMarket(o) ==
    /\ view[o] = "market" /\ HasRole(o, "SUPPORT_READ")
    /\ page' = [page EXCEPT ![o].shown = MarketDetail,
                            ![o].form = IF @.filled THEN @
                                        ELSE [filled |-> TRUE, version |-> market.version,
                                              edited |-> {}, value |-> MarketDetail]]
    /\ UNCHANGED <<rows, orders, access, request, mutation, requests, faults, history, filled, signups>>

EditMarket(o, m) ==
    /\ page[o].form.filled /\ HasRole(o, "MARKET_OPS")
    /\ m # page[o].form.value
    /\ page' = [page EXCEPT ![o].form.value = m,
                            ![o].form.edited = @ \cup {f \in DOMAIN m : m[f] # page[o].form.value[f]}]
    /\ UNCHANGED <<rows, orders, access, request, mutation, requests, faults, history, filled, signups>>

\* A confirmed dialog sends one mutation, with the token of this moment.  Its
\* button is shown with the role, and off without a reason or while the
\* mutation is pending; two operators stand also for one who sends two.
Ask(o, role, kind, arg) ==
    /\ request[o] = Idle /\ requests < MaxRequests
    /\ HasRole(o, role)
    /\ requests' = requests + 1
    /\ request' = [request EXCEPT ![o] = [Idle EXCEPT !.kind = kind, !.stage = "sent", !.nr = requests',
                                                      !.arg = arg, !.token = token[o]]]
    /\ UNCHANGED <<rows, orders, access, page, mutation, faults, history, filled, signups>>

AskFreeze(o) ==
    /\ page[o].loaded
    /\ Ask(o, "WALLET_ADJUST", "user.freeze", ~page[o].frozen)
AskAdjust(o, f, d) ==
    /\ page[o].loaded
    /\ Ask(o, "WALLET_ADJUST", "wallet.adjust", [field |-> f, delta |-> d])
\* The save button is on while the form differs from the data shown (dirty).
AskMarket(o) ==
    /\ page[o].form.filled /\ page[o].form.value # page[o].shown
    /\ Ask(o, "MARKET_OPS", "market.update", page[o].form)
AskAsset(o, kind, a) == view[o] = "assets" /\ Ask(o, "MARKET_OPS", kind, a)

-----------------------------------------------------------------------------
(* Tokens: Keycloak, the console's refresh and the guards of the API.      *)

Demote(o) ==
    /\ demotions < MaxDemotions /\ demotions' = demotions + 1
    /\ granted' = [granted EXCEPT ![o] = @ \cap {"SUPPORT_READ"}]
    /\ UNCHANGED <<rows, orders, view, token, page, request, mutation, requests, faults, history, filled, signups>>

TokenExpires(o) ==
    /\ token[o].live /\ faults < MaxFaults /\ faults' = faults + 1
    /\ token' = [token EXCEPT ![o].live = FALSE]
    /\ request' = [request EXCEPT ![o].token.live = FALSE]
    /\ UNCHANGED <<rows, orders, view, granted, demotions, page, mutation, requests, history, filled, signups>>

\* The timer of initAuth: a token that is about to run out is replaced.
UpdateToken(o) ==
    /\ token[o] # Issue(o) /\ token' = [token EXCEPT ![o] = Issue(o)]
    /\ UNCHANGED <<rows, orders, view, granted, demotions, page, request, mutation, requests, faults,
                   history, filled, signups>>

\* The writing routes of the controllers with the role each asks for.
AdminUsers == "user.freeze" :> "WALLET_ADJUST"
AdminWallets == "wallet.adjust" :> "WALLET_ADJUST"
AdminMarkets == "market.update" :> "MARKET_OPS"
AdminAssets == [action \in {"asset.create", "asset.delete"} |-> "MARKET_OPS"]
Required(kind) == (AdminUsers @@ AdminWallets @@ AdminMarkets @@ AdminAssets)[kind]

\* KeycloakAuthGuard, then KeycloakRolesGuard: the token of the request counts.
Authenticate(o, stage) ==
    request' = [request EXCEPT ![o].stage = IF request[o].token.live THEN stage ELSE "401"]
CanActivate(o) == Required(request[o].kind) \in request[o].token.roles
Guard(o) ==
    /\ request[o].stage = "sent"
    /\ IF request[o].token.live /\ ~CanActivate(o) THEN request' = [request EXCEPT ![o] = Idle]
       ELSE Authenticate(o, "handle")
    /\ UNCHANGED <<rows, orders, access, page, mutation, requests, faults, history, filled, signups>>

\* The response interceptor: one forced refresh and one retry, then the error.
Retry(o) ==
    /\ request[o].stage = "401"
    /\ IF request[o].retried THEN request' = [request EXCEPT ![o] = Idle] /\ UNCHANGED token
       ELSE /\ token' = [token EXCEPT ![o] = Issue(o)]
            /\ request' = [request EXCEPT ![o].stage = "sent", ![o].token = Issue(o), ![o].retried = TRUE]
    /\ UNCHANGED <<rows, orders, view, granted, demotions, page, mutation, requests, faults, history,
                   filled, signups>>

\* A refresh fails: kc.login leaves the page, which comes back empty; what the
\* API is doing goes on.
LoginAgain(o) ==
    /\ token[o] # Issue(o) \/ request[o].stage = "401"
    /\ faults < MaxFaults /\ faults' = faults + 1
    /\ token' = [token EXCEPT ![o] = Issue(o)]
    /\ page' = [page EXCEPT ![o] = Blank]
    /\ request' = [request EXCEPT ![o] = IF @.stage = "401" THEN Idle ELSE @]
    /\ UNCHANGED <<rows, orders, view, granted, demotions, mutation, requests, history, filled, signups>>

-----------------------------------------------------------------------------
(* The server.                                                             *)

At(o, kind, stage) == request[o].kind = kind /\ request[o].stage = stage
Reach(o, stage, read) ==
    request' = [request EXCEPT ![o].stage = stage, ![o].read = read]
\* Mutant: a refused request is logged like a successful one.
RefuseLogged(o) ==
    /\ request' = [request EXCEPT ![o] = Idle]
    /\ auditing' = auditing \cup {request[o].nr}
    /\ UNCHANGED <<rows, orders, access, page, audit, lost, requests, faults, history, filled, signups>>
Refuse(o) ==
    /\ request' = [request EXCEPT ![o] = Idle]
    /\ UNCHANGED <<rows, orders, access, page, mutation, requests, faults, history, filled, signups>>

\* AdminAuditInterceptor: the response leaves, the insert runs on its own.
Succeed(o) ==
    /\ request' = [request EXCEPT ![o] = Idle]
    /\ applied' = applied \cup {request[o].nr}
    /\ auditing' = auditing \cup {request[o].nr}
    /\ UNCHANGED <<adjusted, overtaken, lost>>

SetFrozen(o) ==
    /\ At(o, "user.freeze", "handle")
    /\ frozen' = request[o].arg
    /\ Succeed(o)
    /\ UNCHANGED <<wallet, market, assets, held, orders, access, page, audit, requests, faults, filled, signups>>

\* adjust: read the wallet, refuse a negative result.
AdjustRead(o) ==
    /\ At(o, "wallet.adjust", "handle")
    /\ IF wallet[request[o].arg.field] + request[o].arg.delta < 0 THEN Refuse(o)
       ELSE /\ Reach(o, "write", wallet)
            /\ UNCHANGED <<rows, orders, access, page, mutation, requests, faults, history, filled,
                           signups>>

\* Mutant: both columns are written back.
AdjustWriteRow(o) ==
    LET f == request[o].arg.field  after == request[o].read[f] + request[o].arg.delta IN
    /\ At(o, "wallet.adjust", "write")
    /\ wallet' = [request[o].read EXCEPT ![f] = after]
    /\ adjusted' = [adjusted EXCEPT ![f] = @ + request[o].arg.delta]
    /\ overtaken' = IF request[o].read[f] = wallet[f] THEN overtaken ELSE overtaken \cup {f}
    /\ applied' = applied \cup {request[o].nr}
    /\ Reach(o, "audit", request[o].read)
    /\ UNCHANGED <<frozen, market, assets, held, orders, access, page, mutation, requests, faults,
                   filled, signups>>

AdjustWrite(o) ==
    LET f == request[o].arg.field  after == request[o].read[f] + request[o].arg.delta IN
    /\ At(o, "wallet.adjust", "write")
    /\ wallet' = [wallet EXCEPT ![f] = after]
    /\ adjusted' = [adjusted EXCEPT ![f] = @ + request[o].arg.delta]
    /\ overtaken' = IF request[o].read[f] = wallet[f] THEN overtaken ELSE overtaken \cup {f}
    /\ applied' = applied \cup {request[o].nr}
    /\ Reach(o, "audit", request[o].read)
    /\ UNCHANGED <<frozen, market, assets, held, orders, access, page, mutation, requests, faults,
                   filled, signups>>

\* AdminAuditService.write, or its failure.
Insert(nr) ==
    \/ audit' = audit \cup {nr} /\ UNCHANGED <<lost, faults>>
    \/ faults < MaxFaults /\ faults' = faults + 1 /\ lost' = lost \cup {nr} /\ audit' = audit

\* adjust waits for its audit row; when the insert fails the operator is told
\* of an error although the wallet has changed.
AdjustAudit(o) ==
    /\ At(o, "wallet.adjust", "audit")
    /\ request' = [request EXCEPT ![o] = Idle]
    /\ Insert(request[o].nr)
    /\ UNCHANGED <<rows, orders, access, page, auditing, requests, history, filled, signups>>

\* update: every column of the form is written.
UpdateMarket(o) ==
    /\ At(o, "market.update", "handle")
    /\ market' = [row |-> request[o].arg.value, version |-> market.version + 1,
                  disabledAt |-> IF market.row.enabled /\ ~request[o].arg.value.enabled
                                 THEN market.version + 1 ELSE market.disabledAt]
    /\ Succeed(o)
    /\ UNCHANGED <<wallet, frozen, assets, held, orders, access, page, audit, requests, faults, filled, signups>>

\* create: refuse an existing symbol.
CreateAsset(o) ==
    /\ At(o, "asset.create", "handle")
    /\ IF request[o].arg \in assets THEN Refuse(o)
       ELSE /\ assets' = assets \cup {request[o].arg}
            /\ Succeed(o)
            /\ UNCHANGED <<wallet, frozen, market, held, orders, access, page, audit, requests, faults,
                           filled, signups>>

\* remove: look for markets and wallets, then delete; the foreign key of
\* Wallet refuses what has come in between.
RemoveCheck(o) ==
    /\ At(o, "asset.delete", "handle")
    /\ IF request[o].arg \in Listed \cup held THEN Refuse(o)
       ELSE /\ Reach(o, "write", 0)
            /\ UNCHANGED <<rows, orders, access, page, mutation, requests, faults, history, filled,
                           signups>>

RemoveAsset(o) ==
    /\ At(o, "asset.delete", "write")
    /\ IF request[o].arg \in held \/ request[o].arg \notin assets THEN Refuse(o)
       ELSE /\ assets' = assets \ {request[o].arg}
            /\ Succeed(o)
            /\ UNCHANGED <<wallet, frozen, market, held, orders, access, page, audit, requests, faults,
                           filled, signups>>

\* AdminAuditService.write, not awaited; its error is logged.
WriteAudit(nr) ==
    /\ nr \in auditing
    /\ auditing' = auditing \ {nr}
    /\ Insert(nr)
    /\ UNCHANGED <<rows, orders, access, page, request, requests, history, filled, signups>>

\* The API process dies: requests and inserts under way are gone.
Crash ==
    /\ faults < MaxFaults
    /\ \E o \in Operators : request[o] # Idle
    /\ faults' = faults + 1
    /\ lost' = lost \cup auditing
                    \cup {request[o].nr : o \in {p \in Operators : request[p].stage = "audit"}}
    /\ request' = [o \in Operators |-> Idle] /\ auditing' = {}
    /\ UNCHANGED <<rows, orders, access, page, audit, requests, history, filled, signups>>

-----------------------------------------------------------------------------
User(n) == CheckFrozen(n) \/ CheckMarket(n) \/ Lock(n) \/ Fill(n) \/ Cancel(n)
Console(o) ==
    \/ FetchUser(o) \/ FetchMarket(o) \/ AskFreeze(o) \/ AskMarket(o)
    \/ \E m \in Market : EditMarket(o, m)
    \/ \E f \in Field, d \in Deltas : AskAdjust(o, f, d)
    \/ \E a \in Assets, kind \in {"asset.create", "asset.delete"} : AskAsset(o, kind, a)
Server(o) ==
    \/ SetFrozen(o) \/ AdjustRead(o) \/ AdjustWrite(o) \/ AdjustAudit(o) \/ UpdateMarket(o)
    \/ CreateAsset(o) \/ RemoveCheck(o) \/ RemoveAsset(o)
Access(o) == Demote(o) \/ TokenExpires(o) \/ UpdateToken(o) \/ Guard(o) \/ Retry(o) \/ LoginAgain(o)

Next ==
    \/ \E n \in 1..MaxOrders : User(n)
    \/ \E a \in Assets : Signup(a)
    \/ \E o \in Operators : Console(o) \/ Access(o) \/ Server(o)
    \/ \E nr \in auditing : WriteAudit(nr)
    \/ Crash
Spec == Init /\ [][Next]_vars

-----------------------------------------------------------------------------
(* Properties.                                                             *)

Open == Cardinality({n \in 1..MaxOrders : orders[n] = "open"})

\* The wallet adds up: what the user deposited, the deltas operators have
\* written, the open orders and the fills explain each column, through every
\* interleaving of adjustments with locks, fills and cancels, unless an
\* adjustment overwrote the column with a sum it had computed from an older
\* value.
FundsExplained ==
    /\ "balance" \notin overtaken =>
           wallet.balance = Opening + adjusted.balance - Open - filled
    /\ "locked" \notin overtaken => wallet.locked = Open + adjusted.locked

\* The audit log tells the truth: it holds only mutations that took effect,
\* and every one that did is in it or on its way, unless an insert failed or
\* the process died; a refused or rolled back request leaves no trace.
AuditIsTruthful ==
    /\ audit \cup auditing \subseteq applied
    /\ applied \subseteq audit \cup auditing \cup lost
           \cup {request[o].nr : o \in {p \in Operators : request[p].stage = "audit"}}

\* A market that one operator disabled is enabled again only by an operator who
\* chose to, or whose form was filled before it was disabled and is sent as a
\* whole: a form filled later does not reopen it.
ReopeningIsExplained ==
    [][~market.row.enabled /\ market'.row.enabled =>
           \E o \in Operators :
               /\ request[o].kind = "market.update"
               /\ \/ "enabled" \in request[o].arg.edited
                  \/ request[o].arg.version < market.disabledAt]_vars

\* What the proofs of the three rest on.  The types, as far as sums and forms
\* need them; a request whose audit row is still to come has been applied; and
\* a form that would reopen a disabled market unasked was filled before it was
\* disabled, on the page as in a request under way.
Form == [filled : BOOLEAN, version : Nat, edited : SUBSET {"enabled", "fee"},
         value : [enabled : BOOLEAN, fee : Fees \cup {0}]]
RequestOK(r) ==
    /\ DOMAIN r = DOMAIN Idle
    /\ r.kind = "wallet.adjust" =>
           /\ r.arg \in [field : Field, delta : Int]
           /\ r.stage = "write" => r.read \in [balance : Int, locked : Int]
    /\ r.kind = "market.update" => r.arg \in Form /\ r.arg.filled
TypeOK ==
    /\ wallet \in [balance : Int, locked : Int]
    /\ market \in [row : [enabled : BOOLEAN, fee : Fees \cup {0}], version : Nat, disabledAt : Nat]
    /\ orders \in [1..MaxOrders -> {"new", "user ok", "checked", "open", "done", "refused"}]
    /\ DOMAIN page = Operators
    /\ \A o \in Operators : DOMAIN page[o] = DOMAIN Blank /\ page[o].form \in Form
    /\ DOMAIN request = Operators /\ \A o \in Operators : RequestOK(request[o])
    /\ adjusted \in [Field -> Int] /\ filled \in Nat
AwaitsAudit(nr) == \E o \in Operators : request[o].stage = "audit" /\ request[o].nr = nr
AuditInv ==
    /\ audit \cup auditing \subseteq applied
    /\ \A nr \in applied : nr \in audit \cup auditing \cup lost \/ AwaitsAudit(nr)
    /\ \A o \in Operators : request[o].stage = "audit" => request[o].nr \in applied
FormFits(f) ==
    /\ f.version <= market.version
    /\ f.value.enabled /\ "enabled" \notin f.edited /\ ~market.row.enabled
           => f.version < market.disabledAt
FormsFit ==
    /\ market.disabledAt <= market.version
    /\ \A o \in Operators :
           /\ page[o].form.filled => FormFits(page[o].form)
           /\ request[o].kind = "market.update" => FormFits(request[o].arg)
AccountsInv == TypeOK /\ FundsExplained /\ AuditInv /\ FormsFit
=============================================================================
