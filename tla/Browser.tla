------------------------------- MODULE Browser -------------------------------
(***************************************************************************)
(* One browser tab and the server it talks to.  The tab shows one page at  *)
(* a time: opening another ends the document with its timer, its calls in  *)
(* flight and what it waited for.  Other tabs and administrators work on   *)
(* the same server meanwhile.                                              *)
(***************************************************************************)
EXTENDS ConnectionsPage, InventoryPage

ASSUME BrowserAssumption ==
    /\ Ids # {} /\ Undefined \notin Nat \cup Ids
    /\ Everything \notin Ids /\ \A S \in SUBSET Ids : Everything # S
    /\ Calls \subseteq Nat /\ Queries \subseteq Nat
    /\ First \subseteq Ids /\ HomeOf \in [Vms -> Ids]
    /\ PageSize \in Nat \ {0}
    /\ NameOf \in [Vms -> Nat] /\ IdRank \in [Vms -> Nat]
    /\ \A v, w \in Vms : IdRank[v] = IdRank[w] => v = w
    /\ MaxEvents \in Nat /\ MaxPosts \in Nat
    /\ IsFiniteSet(Vms)

VARIABLE
    tab         \* the page the tab shows, or that a document asks its session

vars == <<serverVars, connVars, inventoryVars, admin, tab>>

Tabs == {"asking", "connections", "inventory", "login"}

TypeOK ==
    /\ ServerTypeOK /\ PageTypeOK /\ InventoryTypeOK
    /\ tab \in Tabs

Init ==
    /\ ServerInit /\ PageInit
    /\ admin \in BOOLEAN
    /\ admin => grants = {}
    /\ view = NewView({})
    /\ query = [q \in Queries |-> NoQuery]
    /\ walk = NoWalk
    /\ tab = "asking"

FreshInventory(v) ==
    /\ view' = v
    /\ query' = [q \in Queries |-> NoQuery]
    /\ walk' = NoWalk

\* A link, or the address bar: the document is replaced by one of either page,
\* which asks for its session first.
Open ==
    /\ tab \in {"connections", "inventory"}
    /\ tab' = "asking"
    /\ Fresh(Blank.call)
    /\ FreshInventory(NewView({}))
    /\ UNCHANGED <<serverVars, admin>>

\* requireSession('connections', 'connection.manage'), which sends others than an
\* administrator to the inventory; then the first reload()
ConnectionsOpened ==
    /\ tab = "asking" /\ admin
    /\ tab' = "connections"
    /\ \E k \in Calls : Fresh([Blank.call EXCEPT ![k].kind = "reload"])
    /\ UNCHANGED <<serverVars, inventoryVars, admin>>

\* /auth/me names the connections the user may see; then the first query.
InventoryOpened ==
    /\ tab = "asking"
    /\ tab' = "inventory"
    /\ \E q \in Queries :
         Asks(q, NewView({c \in Ids : There(c) /\ c \in Allowed}), TRUE)
    /\ UNCHANGED <<connVars, admin>>

\* No session: the login page, which leads to the inventory again.
SignedOut ==
    /\ tab = "asking"
    /\ tab' = "login"
    /\ UNCHANGED <<serverVars, connVars, inventoryVars, admin>>

SignedIn ==
    /\ tab = "login"
    /\ tab' = "asking"
    /\ UNCHANGED <<serverVars, connVars, inventoryVars, admin>>

\* The server by itself, and its other clients.
Progress(c) == \/ End(c)
               \/ MarkAttempt(c) /\ click[c]["began"] = 0

Elsewhere(step) ==
    /\ step
    /\ walk' = IF vms' = vms THEN walk ELSE NoWalk
    /\ UNCHANGED <<connVars, view, query, admin, tab>>

Connections(step) == /\ tab = "connections"
                     /\ step
                     /\ UNCHANGED <<inventoryVars, admin, tab>>

InventoryStep == /\ tab = "inventory"
                 /\ InventoryNext
                 /\ UNCHANGED <<connVars, admin, tab>>

Regranted == /\ \E to \in SUBSET Ids : ScopesChange(to)
             /\ UNCHANGED <<connVars, admin, tab>>

Next ==
    \/ Connections(PageNext) \/ InventoryStep
    \/ Open \/ ConnectionsOpened \/ InventoryOpened \/ SignedOut \/ SignedIn
    \/ \E c \in Ids : \/ Elsewhere(Progress(c))
                      \/ Elsewhere(BeginElsewhere(c) \/ CreateRow(c) \/ RemoveRow(c))
    \/ Regranted

\* The timer of an open page fires, a call of the list in flight is answered or
\* fails, and what has come is handled: the event loop of a page runs every task
\* that is due.  MaxEvents bounds how often a list call fails.  Of collections
\* nothing is assumed: they may run for ever.
Fairness ==
    /\ WF_vars(Connections(\E k \in Calls : PollFires(k)))
    /\ \A k \in Calls : WF_vars(Connections(ServeList(k) \/ ListArrives(k)))

Spec == Init /\ [][Next]_vars /\ Fairness
=============================================================================
