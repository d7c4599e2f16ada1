---------------------------- MODULE InventoryPage ----------------------------
(***************************************************************************)
(* static/js/resources.js in one tab, and GET /virtual-machines behind it: *)
(* the connection filter, the pages of the table, and queries that are     *)
(* served in three steps (the scopes of the user, the count, the rows of   *)
(* one page), each seeing what is committed by then, and answered in any   *)
(* order.                                                                  *)
(***************************************************************************)
EXTENDS CollectionServer

CONSTANTS
    Queries,    \* bound: places for GET /virtual-machines in flight, numbers
    PageSize,   \* PAGE_SIZE, the limit of each query
    NameOf,     \* name of each machine, names repeat
    IdRank,     \* order of the resource_ids
    Everything  \* no filter; no restriction

VARIABLES
    admin,      \* the user of the tab is an administrator
    view,       \* the page
    query,      \* the queries in flight
    walk        \* history: the pages of one filter, served since it changed

inventoryVars == <<view, query, walk>>

-----------------------------------------------------------------------------
(* The page and its queries                                                *)

Filters == Ids \cup {Everything}

Pages == 1..(Cardinality(Vms) + 1)

Rows == UNION {[1..n -> Vms] : n \in 0..PageSize}

View == [filter : Filters,      \* view.connectionId
         page : Pages,
         total : Nat, totalAll : Nat,
         rows : Rows,           \* the table as drawn
         at : Pages,            \* the page the pager was drawn for
         names : SUBSET Ids,    \* view.connections, from /auth/me
         wired : BOOLEAN]       \* the pager has its handlers

NewView(names) == [filter |-> Everything, page |-> 1, total |-> 0,
                   totalAll |-> 0, rows |-> <<>>, at |-> 1, names |-> names,
                   wired |-> FALSE]

Query == [stage : {"none", "sent", "scoped", "counted", "answered", "failed"},
          opening : BOOLEAN,    \* the first of its document
          filter : Filters,
          page : Pages,
          scope : {Everything} \cup SUBSET Ids,
          total : Nat,
          rows : Rows,
          may : SUBSET Ids]     \* history: granted at some time meanwhile

NoQuery == [stage |-> "none", opening |-> FALSE, filter |-> Everything,
            page |-> 1, scope |-> {}, total |-> 0, rows |-> <<>>, may |-> {}]

NoWalk == [filter |-> Everything, pages |-> [p \in Pages |-> {}]]

InventoryTypeOK ==
    /\ admin \in BOOLEAN
    /\ view \in View
    /\ query \in [Queries -> Query]
    /\ walk \in [filter : Filters, pages : [Pages -> SUBSET Vms]]

Allowed == IF admin THEN Ids ELSE grants

\* loadVirtualMachines() up to its await, for the view as it will be
Asks(q, v, opening) ==
    /\ query[q].stage = "none"
    /\ \A p \in Queries : p < q => query[p].stage # "none"
    /\ query' = [query EXCEPT ![q] =
                   [NoQuery EXCEPT !.stage = "sent", !.opening = opening,
                                   !.filter = v.filter, !.page = v.page,
                                   !.may = Allowed]]
    /\ view' = v
    /\ UNCHANGED <<walk, serverVars>>

-----------------------------------------------------------------------------
(* What the server answers                                                 *)

\* get_access_scope and build_scope
Scope == IF admin THEN Everything ELSE grants

\* can_access and is_empty
Denied(scope, filter) ==
    /\ scope # Everything
    /\ scope = {} \/ filter \notin scope \cup {Everything}

\* Mutant: the scope is left to the filter of the page.
InScopeFiltered(scope, filter) ==
    {v \in vms : filter # Everything => HomeOf[v] = filter}

\* _apply_scope and the filter
InScope(scope, filter) ==
    {v \in vms : /\ scope # Everything => HomeOf[v] \in scope
                 /\ filter # Everything => HomeOf[v] = filter}

\* Mutant: equal names have no order.
PrecedesByName(v, w) == NameOf[v] <= NameOf[w]

\* ORDER BY the name, and the resource_id as the tie-breaker
Precedes(v, w) == \/ NameOf[v] < NameOf[w]
                  \/ NameOf[v] = NameOf[w] /\ IdRank[v] <= IdRank[w]

\* The orders in which the database may return the rows.
Orders(S) ==
    {o \in [1..Cardinality(S) -> S] :
       \A i, j \in 1..Cardinality(S) :
         i < j => o[i] # o[j] /\ Precedes(o[i], o[j])}

\* OFFSET and LIMIT
Slice(o, n, page) ==
    LET from == (page - 1) * PageSize
        upto == IF from + PageSize > n THEN n ELSE from + PageSize
    IN IF upto <= from THEN <<>> ELSE [i \in 1..(upto - from) |-> o[from + i]]

Becomes(q, r) == query' = [query EXCEPT ![q] = r]

ReadScope(q) ==
    /\ query[q].stage = "sent"
    /\ Becomes(q, [query[q] EXCEPT !.scope = Scope,
                     !.stage = IF Denied(Scope, query[q].filter)
                               THEN "answered" ELSE "scoped"])
    /\ UNCHANGED <<view, walk, serverVars>>

Count(q) ==
    /\ query[q].stage = "scoped"
    /\ Becomes(q, [query[q] EXCEPT !.stage = "counted",
                     !.total = Cardinality(InScope(query[q].scope,
                                                   query[q].filter))])
    /\ UNCHANGED <<view, walk, serverVars>>

\* The page is walked on, or a new walk begins with another filter.
Walked(q, rows) ==
    LET old == IF walk.filter = query[q].filter THEN walk ELSE NoWalk IN
    walk' = IF query[q].scope # Scope THEN walk
            ELSE [filter |-> query[q].filter,
                  pages |-> [old.pages EXCEPT ![query[q].page] =
                               {rows[i] : i \in DOMAIN rows}]]

Select(q) ==
    LET hits == InScope(query[q].scope, query[q].filter) IN
    /\ query[q].stage = "counted"
    /\ \E o \in Orders(hits) :
         LET rows == Slice(o, Cardinality(hits), query[q].page) IN
         /\ Becomes(q, [query[q] EXCEPT !.stage = "answered", !.rows = rows])
         /\ Walked(q, rows)
    /\ UNCHANGED <<view, serverVars>>

Fails(q) ==
    /\ query[q].stage \notin {"none", "failed"}
    /\ Becomes(q, [query[q] EXCEPT !.stage = "failed", !.total = 0,
                                   !.rows = <<>>])
    /\ UNCHANGED <<view, walk, serverVars>>

-----------------------------------------------------------------------------
(* What the page does                                                      *)

\* The rest of loadVirtualMachines(): whichever answer comes last is drawn.
Arrives(q) ==
    LET r == query[q] IN
    /\ r.stage \in {"answered", "failed"}
    /\ view' = IF r.stage = "failed"
               THEN [view EXCEPT !.wired = @ \/ r.opening]
               ELSE [view EXCEPT
                       !.total = r.total, !.rows = r.rows, !.at = view.page,
                       !.totalAll = IF view.filter = Everything THEN r.total
                                    ELSE @,
                       !.wired = @ \/ r.opening]
    /\ Becomes(q, NoQuery)
    /\ UNCHANGED <<walk, serverVars>>

LastPage(total) == IF total = 0 THEN 1
                   ELSE (total + PageSize - 1) \div PageSize

\* One connection leaves nothing to choose.
ChooseFilter(q, f) ==
    /\ Cardinality(view.names) > 1
    /\ f \in view.names \cup {Everything}
    /\ Asks(q, [view EXCEPT !.filter = f, !.page = 1], FALSE)

PagerShown == view.wired /\ view.total > PageSize

Previous(q) ==
    /\ PagerShown /\ view.at > 1
    /\ view.page > 1
    /\ Asks(q, [view EXCEPT !.page = @ - 1], FALSE)

Following(q) ==
    /\ PagerShown /\ view.at < LastPage(view.total)
    /\ view.page < LastPage(view.total)
    /\ Asks(q, [view EXCEPT !.page = @ + 1], FALSE)

\* The scopes of the user are replaced while the page is open.
ScopesChange(to) ==
    /\ ~admin
    /\ Regrant(to)
    /\ query' = [q \in Queries |->
                   IF query[q].stage = "none" THEN query[q]
                   ELSE [query[q] EXCEPT !.may = @ \cup to]]
    /\ walk' = NoWalk
    /\ UNCHANGED view

InventoryNext ==
    \E q \in Queries :
      \/ ReadScope(q) \/ Count(q) \/ Select(q) \/ Fails(q) \/ Arrives(q)
      \/ Previous(q) \/ Following(q)
      \/ \E f \in Filters : ChooseFilter(q, f)

-----------------------------------------------------------------------------
(* Properties                                                              *)

\* An answer has rows, and counts rows, of connections the user was granted
\* while the query was served and of no other; a connection outside the
\* scopes is answered as one that does not exist (ROADMAP 9, _apply_scope).
AnswersWithinScopes ==
    \A q \in Queries :
      LET r == query[q]
          known == {v \in vms : HomeOf[v] \in r.may}
      IN r.stage = "answered" =>
           /\ \A i \in DOMAIN r.rows : r.rows[i] \in known
           /\ r.total <= Cardinality(known)
           /\ r.filter \notin r.may \cup {Everything} => r.total = 0

\* The pages of an unchanged table overlap nowhere, and leave nothing out
\* between them (search_vms: the unique tie-breaker of the order).
PagesTile ==
    LET hits == InScope(Scope, walk.filter) IN
    /\ \A p, o \in Pages : p # o => walk.pages[p] \cap walk.pages[o] = {}
    /\ (\A p \in 1..LastPage(Cardinality(hits)) : walk.pages[p] # {})
         => UNION {walk.pages[p] : p \in Pages} = hits
=============================================================================
