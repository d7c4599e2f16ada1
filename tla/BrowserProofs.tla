---------------------------- MODULE BrowserProofs ----------------------------
(***************************************************************************)
(* Theorems about Browser, for any number of connections, machines, calls  *)
(* and events and any size of a page: whatever the tab waits for is polled *)
(* by exactly one timer, no answer goes beyond the scopes of the user, the *)
(* pages of a table tile it, the end that a poll tells is the end that was *)
(* waited for, and the server tells what collections tell.                 *)
(***************************************************************************)
EXTENDS Browser, FiniteSetTheorems, TLAPS

-----------------------------------------------------------------------------
(* Polling                                                                 *)

Polls == PollsWhileWaiting /\ timer \in BOOLEAN

LEMMA FreshPolls ==
    ASSUME NEW calls, Fresh(calls)
    PROVE  Polls'
BY DEF Fresh, Polls, PollsWhileWaiting

LEMMA PollArrivesPolls ==
    ASSUME Polls, NEW k, PollArrives(k)
    PROVE  Polls'
<1> DEFINE left == collecting \ Settled(k, Reloaded(k))
<1>1. /\ collecting' = left
      /\ IF left = {} THEN StopPolling ELSE UNCHANGED <<timer, intervals>>
  BY DEF PollArrives
<1>2. left # {} => collecting # {}
  OBVIOUS
<1> HIDE DEF left
<1>3. CASE left = {}
  <2>1. timer' = FALSE /\ intervals' = 0 /\ collecting' = {}
    BY <1>1, <1>3 DEF StopPolling, Polls, PollsWhileWaiting
  <2> QED
    BY <2>1 DEF Polls, PollsWhileWaiting
<1>4. CASE left # {}
  <2>1. timer' = timer /\ intervals' = intervals /\ collecting' # {}
        /\ timer = TRUE
    BY <1>1, <1>2, <1>4 DEF Polls, PollsWhileWaiting
  <2> QED
    BY <2>1 DEF Polls, PollsWhileWaiting
<1> QED
  BY <1>3, <1>4

LEMMA ClickArrivesPolls ==
    ASSUME Polls, NEW c, ClickArrives(c)
    PROVE  Polls'
<1>1. timer' = TRUE /\ intervals' = 1 /\ collecting' # {}
  BY DEF ClickArrives, StartPolling, Polls, PollsWhileWaiting
<1> QED
  BY <1>1 DEF Polls, PollsWhileWaiting

LEMMA PollsStep == Polls /\ [Next]_vars => Polls'
<1> SUFFICES ASSUME Polls, [Next]_vars PROVE Polls'
  OBVIOUS
<1>1. CASE UNCHANGED waits
  BY <1>1 DEF waits, Polls, PollsWhileWaiting
<1>2. CASE Connections(PageNext)
  <2>1. ASSUME NEW k \in Calls, ListArrives(k) PROVE Polls'
    <3>1. CASE ReloadArrives(k)
      BY <1>1, <3>1 DEF ReloadArrives
    <3> QED
      BY <2>1, <3>1, PollArrivesPolls DEF ListArrives
  <2>2. ASSUME NEW c \in Ids, ClickMoves(c) PROVE Polls'
    <3>1. CASE ServeClick(c) \/ ClickCommitted(c) \/ ClickFails(c)
      BY <1>1, <3>1 DEF ServeClick, ClickCommitted, ClickFails
    <3> QED
      BY <2>2, <3>1, ClickArrivesPolls DEF ClickMoves
  <2>3. ASSUME NEW k \in Calls,
               \/ ServeList(k) \/ PollFires(k) \/ Save(k)
               \/ \E c \in Ids : ConfirmDelete(c, k)
        PROVE  Polls'
    BY <1>1, <2>3 DEF ServeList, PollFires, Save, ConfirmDelete
  <2>4. ASSUME NEW c \in Ids, Click(c) PROVE Polls'
    BY <1>1, <2>4 DEF Click
  <2> QED
    BY <1>2, <2>1, <2>2, <2>3, <2>4 DEF Connections, PageNext
<1>3. CASE Open
  BY <1>3, FreshPolls DEF Open
<1>4. CASE ConnectionsOpened
  BY <1>1, <1>4, FreshPolls DEF ConnectionsOpened, connVars
<1>5. CASE InventoryStep \/ InventoryOpened \/ SignedOut \/ SignedIn \/ Regranted
  BY <1>1, <1>5
  DEF InventoryStep, InventoryOpened, SignedOut, SignedIn, Regranted, connVars
<1>6. ASSUME NEW step, Elsewhere(step) PROVE Polls'
  BY <1>1, <1>6 DEF Elsewhere, connVars
<1>7. CASE UNCHANGED vars
  BY <1>1, <1>7 DEF vars, connVars
<1> QED
  BY <1>2, <1>3, <1>4, <1>5, <1>6, <1>7 DEF Next

\* A timer runs exactly while a collection is waited for, and only one, however
\* clicks, polls and documents follow each other.
THEOREM OneTimer == Spec => []PollsWhileWaiting
<1>1. Init => Polls
  BY DEF Init, PageInit, Polls, PollsWhileWaiting
<1>2. Polls => PollsWhileWaiting
  BY DEF Polls
<1> QED
  BY <1>1, <1>2, PollsStep, PTL DEF Spec

-----------------------------------------------------------------------------
(* Scopes                                                                  *)

RowLists == UNION {[1..n -> Vms] : n \in Nat}

\* Types without the bounds that TypeOK has for pages and rows.
QueryType == [stage : {"none", "sent", "scoped", "counted", "answered", "failed"},
              opening : BOOLEAN, filter : Filters, page : Nat \ {0},
              scope : {Everything} \cup SUBSET Ids, total : Nat,
              rows : RowLists, may : SUBSET Ids]

ViewType == [filter : Filters, page : Nat \ {0}, total : Nat, totalAll : Nat,
             rows : RowLists, at : Nat, names : SUBSET Ids, wired : BOOLEAN]

Known(may, stored) == {v \in stored : HomeOf[v] \in may}

\* The scope of a query and its filter are within what the user was granted.
Within(r) == /\ r.scope = Everything => r.may = Ids
             /\ r.scope # Everything => r.scope \subseteq r.may
             /\ r.filter \in r.may \cup {Everything}

QueryOK(r, adm, granted, stored) ==
    r.stage # "none" =>
      /\ IF adm THEN r.may = Ids ELSE granted \subseteq r.may
      /\ r.stage \in {"sent", "scoped"} => r.total = 0 /\ r.rows = << >>
      /\ r.stage \in {"scoped", "counted"} => Within(r)
      /\ r.stage \in {"counted", "answered"} =>
           /\ r.total <= Cardinality(Known(r.may, stored))
           /\ r.filter \notin r.may \cup {Everything} => r.total = 0
      /\ r.stage = "answered" =>
           \A i \in DOMAIN r.rows : r.rows[i] \in Known(r.may, stored)

ScopesOK ==
    /\ vms \in SUBSET Vms /\ grants \in SUBSET Ids /\ admin \in BOOLEAN
    /\ view \in ViewType
    /\ query \in [Queries -> QueryType]
    /\ \A q \in Queries : QueryOK(query[q], admin, grants, vms)

LEMMA EmptyRows == << >> \in RowLists
<1>1. << >> \in [1..0 -> Vms]
  OBVIOUS
<1> QED
  BY <1>1 DEF RowLists

LEMMA NoQueryOK == /\ NoQuery \in QueryType
                   /\ \A adm, g, s : QueryOK(NoQuery, adm, g, s)
BY EmptyRows DEF NoQuery, QueryType, QueryOK, Filters

LEMMA KnownGrows ==
    ASSUME NEW may, NEW may2, may \subseteq may2,
           NEW stored, NEW stored2 \in SUBSET Vms, stored \subseteq stored2
    PROVE  /\ Known(may, stored) \subseteq Known(may2, stored2)
           /\ Cardinality(Known(may, stored)) <= Cardinality(Known(may2, stored2))
           /\ Cardinality(Known(may, stored)) \in Nat
           /\ Cardinality(Known(may2, stored2)) \in Nat
<1>1. /\ Known(may, stored) \subseteq Known(may2, stored2)
      /\ Known(may2, stored2) \subseteq Vms
  BY DEF Known
<1>2. IsFiniteSet(Known(may2, stored2))
  BY <1>1, BrowserAssumption, FS_Subset
<1> HIDE DEF Known
<1> QED
  BY <1>1, <1>2, FS_Subset, FS_CardinalityType

\* More is stored, and the user is granted something else.
LEMMA QueryKept ==
    ASSUME NEW r \in QueryType, NEW s \in QueryType, NEW adm, NEW g, NEW g2,
           NEW stored, NEW stored2 \in SUBSET Vms, stored \subseteq stored2,
           QueryOK(r, adm, g, stored),
           s = [r EXCEPT !.may = s.may], r.may \subseteq s.may,
           adm => s.may = Ids, ~adm => g2 \subseteq s.may
    PROVE  QueryOK(s, adm, g2, stored2)
<1>1. /\ s.stage = r.stage /\ s.total = r.total /\ s.rows = r.rows
      /\ s.scope = r.scope /\ s.filter = r.filter /\ r.total \in Nat
  BY DEF QueryType
<1>2. /\ Known(r.may, stored) \subseteq Known(s.may, stored2)
      /\ Cardinality(Known(r.may, stored)) <= Cardinality(Known(s.may, stored2))
      /\ Cardinality(Known(r.may, stored)) \in Nat
      /\ Cardinality(Known(s.may, stored2)) \in Nat
  BY KnownGrows
<1>3. s.may \subseteq Ids
  BY DEF QueryType
<1>4. Within(r) => Within(s)
  BY <1>1, <1>3 DEF Within
<1> HIDE DEF Known, Within
<1> QED
  BY <1>1, <1>2, <1>4 DEF QueryOK

LEMMA OrderedIn ==
    ASSUME NEW hits \in SUBSET Vms, NEW o \in Orders(hits), NEW page \in Nat \ {0}
    PROVE  /\ Slice(o, Cardinality(hits), page) \in RowLists
           /\ \A i \in DOMAIN Slice(o, Cardinality(hits), page) :
                Slice(o, Cardinality(hits), page)[i] \in hits
<1> DEFINE n == Cardinality(hits)
           from == (page - 1) * PageSize
           upto == IF from + PageSize > n THEN n ELSE from + PageSize
<1>1. n \in Nat
  BY BrowserAssumption, FS_Subset, FS_CardinalityType
<1>2. page - 1 \in Nat /\ PageSize \in Nat
  BY BrowserAssumption
<1>3. from \in Nat
  BY <1>2
<1>4. o \in [1..n -> hits]
  BY DEF Orders
<1> HIDE DEF n, from
<1>5. upto \in Nat /\ upto <= n
  BY <1>1, <1>2, <1>3
<1>6. Slice(o, n, page) = IF upto <= from THEN <<>>
                          ELSE [i \in 1..(upto - from) |-> o[from + i]]
  BY DEF Slice, from
<1> HIDE DEF upto
<1>7. CASE upto <= from
  BY <1>6, <1>7, EmptyRows DEF n
<1>8. CASE ~(upto <= from)
  <2> DEFINE m == upto - from
             rows == [i \in 1..m |-> o[from + i]]
  <2>1. m \in Nat
    BY <1>3, <1>5, <1>8
  <2>2. \A i \in 1..m : from + i \in 1..n
    BY <1>1, <1>3, <1>5
  <2>3. rows \in [1..m -> hits]
    BY <1>4, <2>2
  <2>4. rows \in [1..m -> Vms]
    BY <2>3
  <2>5. rows \in RowLists
    BY <2>1, <2>4 DEF RowLists
  <2> QED
    BY <1>6, <1>8, <2>3, <2>5 DEF n
<1> QED
  BY <1>7, <1>8

\* The queries are in order as long as nobody touches what they depend on.
LEMMA ScopesAgain ==
    ASSUME ScopesOK, UNCHANGED <<vms, grants, admin>>, view' \in ViewType,
           query' \in [Queries -> QueryType],
           \A p \in Queries : QueryOK(query'[p], admin, grants, vms)
    PROVE  ScopesOK'
<1>1. vms' = vms /\ grants' = grants /\ admin' = admin
  OBVIOUS
<1> HIDE DEF QueryOK
<1>2. \A p \in Queries : QueryOK(query'[p], admin', grants', vms')
  BY <1>1
<1>3. vms' \in SUBSET Vms /\ grants' \in SUBSET Ids /\ admin' \in BOOLEAN
  BY <1>1 DEF ScopesOK
<1> QED
  BY <1>2, <1>3 DEF ScopesOK

\* A step of the query q that leaves the rest as it is.
LEMMA OneQuery ==
    ASSUME ScopesOK, NEW q \in Queries, NEW r \in QueryType, Becomes(q, r),
           UNCHANGED <<vms, grants, admin, view>>,
           QueryOK(r, admin, grants, vms)
    PROVE  ScopesOK'
<1>1. query' = [query EXCEPT ![q] = r]
  BY DEF Becomes
<1>2. query' \in [Queries -> QueryType]
  BY <1>1 DEF ScopesOK
<1>3. \A p \in Queries : query'[p] = IF p = q THEN r ELSE query[p]
  BY <1>1 DEF ScopesOK
<1>4. \A p \in Queries : QueryOK(query'[p], admin, grants, vms)
  BY <1>3 DEF ScopesOK
<1>5. view' \in ViewType
  BY DEF ScopesOK
<1> QED
  BY <1>2, <1>4, <1>5, ScopesAgain

LEMMA AsksOK ==
    ASSUME ScopesOK, NEW q \in Queries, NEW v \in ViewType, NEW opening \in BOOLEAN,
           Asks(q, v, opening), UNCHANGED <<vms, grants, admin>>
    PROVE  ScopesOK'
<1> DEFINE r == [NoQuery EXCEPT !.stage = "sent", !.opening = opening,
                                !.filter = v.filter, !.page = v.page,
                                !.may = Allowed]
<1>1. query' = [query EXCEPT ![q] = r] /\ view' = v
  BY DEF Asks
<1>2. /\ v.filter \in Filters /\ v.page \in Nat \ {0}
      /\ Allowed \in SUBSET Ids
      /\ admin => Allowed = Ids
      /\ ~admin => Allowed = grants
  BY DEF ViewType, Allowed, ScopesOK
<1>3. r \in QueryType
  BY <1>2, NoQueryOK DEF QueryType
<1>4. /\ r.stage = "sent" /\ r.total = 0 /\ r.rows = << >> /\ r.may = Allowed
  BY DEF NoQuery
<1>5. QueryOK(r, admin, grants, vms)
  BY <1>2, <1>4 DEF QueryOK, ScopesOK
<1> HIDE DEF r
<1>6. query' \in [Queries -> QueryType]
  BY <1>1, <1>3 DEF ScopesOK
<1>7. \A p \in Queries : query'[p] = IF p = q THEN r ELSE query[p]
  BY <1>1 DEF ScopesOK
<1>8. \A p \in Queries : QueryOK(query'[p], admin, grants, vms)
  BY <1>5, <1>7 DEF ScopesOK
<1> QED
  BY <1>1, <1>6, <1>8, ScopesAgain

LEMMA QueryFacts ==
    ASSUME ScopesOK, NEW q \in Queries
    PROVE  /\ query[q] \in QueryType
           /\ QueryOK(query[q], admin, grants, vms)
           /\ vms \in SUBSET Vms /\ grants \in SUBSET Ids /\ admin \in BOOLEAN
BY DEF ScopesOK

LEMMA ReadScopeOK ==
    ASSUME ScopesOK, NEW q \in Queries, ReadScope(q), UNCHANGED admin
    PROVE  ScopesOK'
<1> DEFINE old == query[q]
           stage == IF Denied(Scope, old.filter) THEN "answered" ELSE "scoped"
           r == [old EXCEPT !.scope = Scope, !.stage = stage]
<1>1. /\ old \in QueryType /\ QueryOK(old, admin, grants, vms)
      /\ grants \in SUBSET Ids /\ admin \in BOOLEAN
  BY QueryFacts
<1>2. /\ old.stage = "sent" /\ Becomes(q, r)
      /\ UNCHANGED <<vms, grants, admin, view>>
  BY DEF ReadScope, serverVars
<1>3. Scope \in {Everything} \cup SUBSET Ids /\ stage \in {"answered", "scoped"}
  <2>1. Scope \in {Everything} \cup SUBSET Ids
    BY <1>1 DEF Scope
  <2> QED
    BY <2>1
<1>4. r \in QueryType
  BY <1>1, <1>3 DEF QueryType
<1>5. /\ r.stage = stage /\ r.scope = Scope /\ r.total = 0 /\ r.rows = << >>
      /\ r.may = old.may /\ r.filter = old.filter
      /\ IF admin THEN r.may = Ids ELSE grants \subseteq r.may
      /\ r.filter \in Filters
  BY <1>1, <1>2 DEF QueryType, QueryOK
<1>6. Cardinality(Known(r.may, vms)) \in Nat
  BY <1>1, <1>5, KnownGrows DEF ScopesOK
<1>7. stage = "scoped" => Within(r)
  <2> SUFFICES ASSUME ~Denied(Scope, old.filter) PROVE Within(r)
    OBVIOUS
  <2>1. CASE admin
    BY <1>5, <2>1, BrowserAssumption DEF Scope, Within, Filters
  <2>2. CASE ~admin
    <3>1. Scope = grants /\ grants # Everything
      BY <1>1, <2>2, BrowserAssumption DEF Scope
    <3> QED
      BY <1>5, <2>2, <3>1 DEF Within, Denied
  <2> QED
    BY <2>1, <2>2
<1> HIDE DEF r, stage, Within, Known
<1>8. QueryOK(r, admin, grants, vms)
  BY <1>3, <1>5, <1>6, <1>7 DEF QueryOK
<1> QED
  BY <1>2, <1>4, <1>8, OneQuery

LEMMA InScopeKnown ==
    ASSUME NEW r \in QueryType, Within(r), vms \in SUBSET Vms
    PROVE  /\ InScope(r.scope, r.filter) \subseteq Known(r.may, vms)
           /\ InScope(r.scope, r.filter) \in SUBSET Vms
           /\ Cardinality(InScope(r.scope, r.filter)) \in Nat
           /\ Cardinality(InScope(r.scope, r.filter))
                <= Cardinality(Known(r.may, vms))
<1>1. InScope(r.scope, r.filter) \subseteq Known(r.may, vms)
  BY BrowserAssumption DEF Within, InScope, Known, QueryType
<1>2. Known(r.may, vms) \subseteq Vms
  BY DEF Known
<1>3. IsFiniteSet(Known(r.may, vms))
  BY <1>2, BrowserAssumption, FS_Subset
<1> HIDE DEF Known, InScope
<1> QED
  BY <1>1, <1>2, <1>3, FS_Subset, FS_CardinalityType

LEMMA CountOK ==
    ASSUME ScopesOK, NEW q \in Queries, Count(q), UNCHANGED admin
    PROVE  ScopesOK'
<1> DEFINE old == query[q]
           total == Cardinality(InScope(old.scope, old.filter))
           r == [old EXCEPT !.stage = "counted", !.total = total]
<1>1. /\ old \in QueryType /\ QueryOK(old, admin, grants, vms)
      /\ vms \in SUBSET Vms
  BY QueryFacts
<1>2. /\ old.stage = "scoped" /\ Becomes(q, r)
      /\ UNCHANGED <<vms, grants, admin, view>>
  BY DEF Count, serverVars
<1>3. Within(old)
  BY <1>1, <1>2 DEF QueryOK
<1>4. total \in Nat /\ total <= Cardinality(Known(old.may, vms))
  BY <1>1, <1>3, InScopeKnown
<1> HIDE DEF total
<1>5. r \in QueryType
  BY <1>1, <1>4 DEF QueryType
<1>6. /\ r.stage = "counted" /\ r.total = total /\ r.may = old.may
      /\ r.filter = old.filter /\ r.scope = old.scope
      /\ IF admin THEN r.may = Ids ELSE grants \subseteq r.may
  BY <1>1, <1>2 DEF QueryType, QueryOK
<1>7. Within(r)
  BY <1>3, <1>6 DEF Within
<1>8. r.filter \in r.may \cup {Everything}
  BY <1>7 DEF Within
<1> HIDE DEF r, Within, Known
<1>9. QueryOK(r, admin, grants, vms)
  BY <1>4, <1>6, <1>7, <1>8 DEF QueryOK
<1> QED
  BY <1>2, <1>5, <1>9, OneQuery

LEMMA SelectOK ==
    ASSUME ScopesOK, NEW q \in Queries, Select(q), UNCHANGED admin
    PROVE  ScopesOK'
<1> DEFINE old == query[q]
           hits == InScope(old.scope, old.filter)
<1>1. /\ old \in QueryType /\ QueryOK(old, admin, grants, vms)
      /\ vms \in SUBSET Vms
  BY QueryFacts
<1>2. /\ old.stage = "counted"
      /\ UNCHANGED <<vms, grants, admin, view>>
  BY DEF Select, serverVars
<1>3. Within(old)
  BY <1>1, <1>2 DEF QueryOK
<1>4. hits \subseteq Known(old.may, vms) /\ hits \in SUBSET Vms
  BY <1>1, <1>3, InScopeKnown
<1>5. PICK o \in Orders(hits) :
        Becomes(q, [old EXCEPT !.stage = "answered",
                      !.rows = Slice(o, Cardinality(hits), old.page)])
  BY DEF Select
<1> DEFINE rows == Slice(o, Cardinality(hits), old.page)
           r == [old EXCEPT !.stage = "answered", !.rows = rows]
<1>6. old.page \in Nat \ {0}
  BY <1>1 DEF QueryType
<1> HIDE DEF hits
<1>7. rows \in RowLists /\ \A i \in DOMAIN rows : rows[i] \in hits
  BY <1>4, <1>6, OrderedIn
<1>8. Becomes(q, r)
  BY <1>5
<1> HIDE DEF rows
<1>9. r \in QueryType
  BY <1>1, <1>7 DEF QueryType
<1>10. /\ r.stage = "answered" /\ r.total = old.total /\ r.may = old.may
       /\ r.filter = old.filter /\ r.rows = rows
       /\ IF admin THEN r.may = Ids ELSE grants \subseteq r.may
       /\ r.total <= Cardinality(Known(r.may, vms))
       /\ r.filter \notin r.may \cup {Everything} => r.total = 0
  BY <1>1, <1>2 DEF QueryType, QueryOK
<1> HIDE DEF r, Within, Known
<1>11. QueryOK(r, admin, grants, vms)
  BY <1>4, <1>7, <1>10 DEF QueryOK
<1> QED
  BY <1>2, <1>8, <1>9, <1>11, OneQuery

LEMMA FailsOK ==
    ASSUME ScopesOK, NEW q \in Queries, Fails(q), UNCHANGED admin
    PROVE  ScopesOK'
<1> DEFINE old == query[q]
           r == [old EXCEPT !.stage = "failed", !.total = 0, !.rows = <<>>]
<1>1. old \in QueryType /\ QueryOK(old, admin, grants, vms)
  BY QueryFacts
<1>2. /\ old.stage # "none" /\ Becomes(q, r)
      /\ UNCHANGED <<vms, grants, admin, view>>
  BY DEF Fails, serverVars
<1>3. r \in QueryType
  BY <1>1, EmptyRows DEF QueryType
<1>4. /\ r.stage = "failed" /\ r.may = old.may
      /\ IF admin THEN r.may = Ids ELSE grants \subseteq r.may
  BY <1>1, <1>2 DEF QueryType, QueryOK
<1> HIDE DEF r
<1>5. QueryOK(r, admin, grants, vms)
  BY <1>4 DEF QueryOK
<1> QED
  BY <1>2, <1>3, <1>5, OneQuery

LEMMA ArrivesOK ==
    ASSUME ScopesOK, NEW q \in Queries, Arrives(q), UNCHANGED admin
    PROVE  ScopesOK'
<1> DEFINE r == query[q]
<1>1. r \in QueryType /\ view \in ViewType
  BY DEF ScopesOK
<1>2. view' \in ViewType
  <2>1. (view.wired \/ r.opening) \in BOOLEAN
    OBVIOUS
  <2>2. CASE r.stage = "failed"
    BY <1>1, <2>1, <2>2 DEF Arrives, ViewType
  <2>3. CASE r.stage # "failed"
    <3> DEFINE all == IF view.filter = Everything THEN r.total ELSE view.totalAll
    <3>1. view' = [view EXCEPT !.total = r.total, !.rows = r.rows,
                               !.at = view.page, !.totalAll = all,
                               !.wired = view.wired \/ r.opening]
      BY <2>3 DEF Arrives
    <3>2. all \in Nat /\ r.total \in Nat /\ r.rows \in RowLists
          /\ view.page \in Nat
      BY <1>1 DEF ViewType, QueryType
    <3> HIDE DEF all
    <3> QED
      BY <1>1, <2>1, <3>1, <3>2 DEF ViewType
  <2> QED
    BY <2>2, <2>3
<1>3. query' = [query EXCEPT ![q] = NoQuery] /\ UNCHANGED <<vms, grants, admin>>
  BY DEF Arrives, Becomes, serverVars
<1>4. query' \in [Queries -> QueryType]
  BY <1>3, NoQueryOK DEF ScopesOK
<1>5. \A p \in Queries : query'[p] = IF p = q THEN NoQuery ELSE query[p]
  BY <1>3 DEF ScopesOK
<1>6. \A p \in Queries : QueryOK(query'[p], admin, grants, vms)
  BY <1>5, NoQueryOK DEF ScopesOK
<1> QED
  BY <1>2, <1>3, <1>4, <1>6, ScopesAgain

LEMMA TurnOK ==
    ASSUME ScopesOK, NEW q \in Queries, UNCHANGED admin,
           \/ Previous(q) \/ Following(q)
           \/ \E f \in Filters : ChooseFilter(q, f)
    PROVE  ScopesOK'
<1>1. view \in ViewType
  BY DEF ScopesOK
<1>2. UNCHANGED <<vms, grants, admin>>
  BY DEF Previous, Following, ChooseFilter, Asks, serverVars
<1>3. CASE Previous(q)
  <2>1. view.page - 1 \in Nat \ {0}
    BY <1>1, <1>3 DEF Previous, ViewType
  <2>2. [view EXCEPT !.page = @ - 1] \in ViewType
    BY <1>1, <2>1 DEF ViewType
  <2> QED
    BY <1>2, <1>3, <2>2, AsksOK DEF Previous
<1>4. CASE Following(q)
  <2>1. view.page + 1 \in Nat \ {0}
    BY <1>1 DEF ViewType
  <2>2. [view EXCEPT !.page = @ + 1] \in ViewType
    BY <1>1, <2>1 DEF ViewType
  <2> QED
    BY <1>2, <1>4, <2>2, AsksOK DEF Following
<1>5. ASSUME NEW f \in Filters, ChooseFilter(q, f) PROVE ScopesOK'
  <2>0. 1 \in Nat \ {0} /\ f \in Filters
    OBVIOUS
  <2>1. [view EXCEPT !.filter = f, !.page = 1] \in ViewType
    BY <1>1, <2>0 DEF ViewType
  <2> QED
    BY <1>2, <1>5, <2>1, AsksOK DEF ChooseFilter
<1> QED
  BY <1>3, <1>4, <1>5

\* A new document asks nothing yet.
LEMMA NewViewTyped ==
    ASSUME NEW names \in SUBSET Ids
    PROVE  NewView(names) \in ViewType
BY EmptyRows DEF NewView, ViewType, Filters

LEMMA FreshOK ==
    ASSUME ScopesOK, FreshInventory(NewView({})),
           UNCHANGED <<vms, grants, admin>>
    PROVE  ScopesOK'
<1>1. view' \in ViewType /\ query' = [q \in Queries |-> NoQuery]
  BY NewViewTyped DEF FreshInventory
<1>2. query' \in [Queries -> QueryType]
      /\ \A q \in Queries : QueryOK(query'[q], admin, grants, vms)
  BY <1>1, NoQueryOK
<1> QED
  BY <1>1, <1>2, ScopesAgain

\* What others do only adds machines.
LEMMA GrowsOK ==
    ASSUME ScopesOK, vms' \in SUBSET Vms, vms \subseteq vms',
           UNCHANGED <<grants, admin, view, query>>
    PROVE  ScopesOK'
<1>1. \A q \in Queries : QueryOK(query[q], admin, grants, vms')
  <2> TAKE q \in Queries
  <2>1. /\ query[q] \in QueryType /\ QueryOK(query[q], admin, grants, vms)
    BY QueryFacts
  <2>2. query[q] = [query[q] EXCEPT !.may = query[q].may]
    BY <2>1 DEF QueryType
  <2>3. CASE query[q].stage = "none"
    BY <2>3 DEF QueryOK
  <2>4. CASE query[q].stage # "none"
    <3>1. /\ admin => query[q].may = Ids
          /\ ~admin => grants \subseteq query[q].may
      BY <2>1, <2>4 DEF QueryOK
    <3> QED
      BY <2>1, <2>2, <3>1, QueryKept
  <2> QED
    BY <2>3, <2>4
<1> QED
  BY <1>1 DEF ScopesOK, QueryOK, Known, Within

LEMMA RegrantOK ==
    ASSUME ScopesOK, NEW to \in SUBSET Ids, ScopesChange(to), UNCHANGED admin
    PROVE  ScopesOK'
<1> DEFINE s(q) == IF query[q].stage = "none" THEN query[q]
                   ELSE [query[q] EXCEPT !.may = @ \cup to]
<1>1. /\ ~admin /\ grants' = to /\ vms' = vms /\ view' = view
      /\ query' = [q \in Queries |-> s(q)]
  BY DEF ScopesChange, Regrant
<1>2. ASSUME NEW q \in Queries
      PROVE  s(q) \in QueryType /\ QueryOK(s(q), admin, to, vms)
  <2>1. /\ query[q] \in QueryType /\ QueryOK(query[q], admin, grants, vms)
        /\ vms \in SUBSET Vms
    BY QueryFacts
  <2>2. CASE query[q].stage = "none"
    BY <2>1, <2>2 DEF QueryOK
  <2>3. CASE query[q].stage # "none"
    <3>1. s(q) = [query[q] EXCEPT !.may = @ \cup to]
      BY <2>3
    <3>2. query[q].may \in SUBSET Ids
      BY <2>1 DEF QueryType
    <3>3. s(q) \in QueryType /\ s(q).may = query[q].may \cup to
      BY <2>1, <3>1, <3>2 DEF QueryType
    <3>4. s(q) = [query[q] EXCEPT !.may = s(q).may]
      BY <3>1, <3>3
    <3> HIDE DEF s
    <3>5. query[q].may \subseteq s(q).may /\ to \subseteq s(q).may
      BY <3>3
    <3> QED
      BY <1>1, <2>1, <3>3, <3>4, <3>5, QueryKept
  <2> QED
    BY <2>2, <2>3
<1> HIDE DEF s
<1>3. /\ query' \in [Queries -> QueryType]
      /\ \A q \in Queries : QueryOK(query'[q], admin, to, vms)
  BY <1>1, <1>2
<1> QED
  BY <1>1, <1>3 DEF ScopesOK, QueryOK, Known, Within

\* The connections page stores no machine and grants nothing.
LEMMA PageStoresNothing ==
    ASSUME Connections(PageNext)
    PROVE  UNCHANGED <<vms, grants>>
<1>1. ASSUME NEW c \in Ids, CreateRow(c) \/ RemoveRow(c) \/ MarkAttempt(c)
                              \/ Begin(c, TRUE)
      PROVE  UNCHANGED <<vms, grants>>
  BY <1>1 DEF CreateRow, RemoveRow, MarkAttempt, Begin
<1>2. ASSUME NEW c \in Ids, Click(c) \/ ClickMoves(c)
      PROVE  UNCHANGED <<vms, grants>>
  BY <1>1, <1>2
  DEF Click, ClickMoves, ServeClick, ClickCommitted, ClickFails, ClickArrives,
      BeginHere, serverVars
<1>3. ASSUME NEW k \in Calls,
             \/ ServeList(k) \/ ListArrives(k) \/ PollFires(k)
             \/ Save(k) \/ \E c \in Ids : ConfirmDelete(c, k)
      PROVE  UNCHANGED <<vms, grants>>
  BY <1>1, <1>3
  DEF ServeList, ListArrives, ReloadArrives, PollArrives, Returns, PollFires,
      Save, ConfirmDelete, serverVars
<1> QED
  BY <1>2, <1>3 DEF Connections, PageNext

LEMMA ServerGrows ==
    ASSUME vms \in SUBSET Vms,
           \/ \E c \in Ids : Progress(c) \/ BeginElsewhere(c) \/ CreateRow(c)
                              \/ RemoveRow(c)
    PROVE  vms' \in SUBSET Vms /\ vms \subseteq vms' /\ UNCHANGED grants
BY DEF Progress, End, MarkAttempt, BeginElsewhere, Begin, CreateRow, RemoveRow,
       VmsOf

LEMMA ScopesStep == ScopesOK /\ [Next]_vars => ScopesOK'
<1> SUFFICES ASSUME ScopesOK, [Next]_vars PROVE ScopesOK'
  OBVIOUS
<1>1. ASSUME UNCHANGED <<vms, grants, admin, view, query>> PROVE ScopesOK'
  BY <1>1, GrowsOK DEF ScopesOK
<1>2. CASE InventoryStep
  BY <1>2, ReadScopeOK, CountOK, SelectOK, FailsOK, ArrivesOK, TurnOK
  DEF InventoryStep, InventoryNext
<1>3. CASE Connections(PageNext)
  BY <1>1, <1>3, PageStoresNothing DEF Connections, inventoryVars
<1>4. CASE Open
  BY <1>4, FreshOK DEF Open, serverVars
<1>5. CASE ConnectionsOpened \/ SignedOut \/ SignedIn
  BY <1>1, <1>5
  DEF ConnectionsOpened, SignedOut, SignedIn, serverVars, inventoryVars
<1>6. CASE InventoryOpened
  <2> DEFINE names == {c \in Ids : There(c) /\ c \in Allowed}
  <2>1. PICK q \in Queries : Asks(q, NewView(names), TRUE)
    BY <1>6 DEF InventoryOpened
  <2>2. UNCHANGED <<vms, grants, admin>>
    BY <1>6, <2>1 DEF InventoryOpened, Asks, serverVars
  <2> HIDE DEF names
  <2>3. NewView(names) \in ViewType
    BY NewViewTyped DEF names
  <2> QED
    BY <2>1, <2>2, <2>3, AsksOK
<1>7. ASSUME NEW c \in Ids,
             \/ Elsewhere(Progress(c))
             \/ Elsewhere(BeginElsewhere(c) \/ CreateRow(c) \/ RemoveRow(c))
      PROVE  ScopesOK'
  <2>1. vms \in SUBSET Vms
    BY DEF ScopesOK
  <2>2. vms' \in SUBSET Vms /\ vms \subseteq vms' /\ UNCHANGED grants
    BY <1>7, <2>1, ServerGrows DEF Elsewhere
  <2> QED
    BY <1>7, <2>2, GrowsOK DEF Elsewhere
<1>8. CASE Regranted
  BY <1>8, RegrantOK DEF Regranted
<1>9. CASE UNCHANGED vars
  BY <1>1, <1>9 DEF vars, serverVars, inventoryVars
<1> QED
  BY <1>2, <1>3, <1>4, <1>5, <1>6, <1>7, <1>8, <1>9 DEF Next

LEMMA ScopesInit == Init => ScopesOK
<1> SUFFICES ASSUME Init PROVE ScopesOK
  OBVIOUS
<1>1. vms = {} /\ grants \in SUBSET Ids /\ admin \in BOOLEAN
  BY DEF Init, ServerInit
<1>2. view \in ViewType
  BY NewViewTyped DEF Init
<1>3. query = [q \in Queries |-> NoQuery]
  BY DEF Init
<1>4. /\ query \in [Queries -> QueryType]
      /\ \A q \in Queries : QueryOK(query[q], admin, grants, vms)
  BY <1>3, NoQueryOK
<1> QED
  BY <1>1, <1>2, <1>4 DEF ScopesOK

\* However a query, its count and its rows interleave with collections and with
\* the scopes being replaced, its answer has and counts nothing outside of what
\* the user was granted meanwhile (ROADMAP 9, _apply_scope).
THEOREM AnswersInScope == Spec => []AnswersWithinScopes
<1>1. ScopesOK => AnswersWithinScopes
  <2> SUFFICES ASSUME ScopesOK, NEW q \in Queries,
                      query[q].stage = "answered"
               PROVE  /\ \A i \in DOMAIN query[q].rows :
                           query[q].rows[i] \in Known(query[q].may, vms)
                      /\ query[q].total <= Cardinality(Known(query[q].may, vms))
                      /\ query[q].filter \notin query[q].may \cup {Everything}
                           => query[q].total = 0
    BY DEF AnswersWithinScopes, Known
  <2>1. QueryOK(query[q], admin, grants, vms)
    BY DEF ScopesOK
  <2> QED
    BY <2>1 DEF QueryOK
<1> QED
  BY <1>1, ScopesInit, ScopesStep, PTL DEF Spec

-----------------------------------------------------------------------------
(* Pages                                                                   *)

\* The machines of S up to v, in the order of the list.
Below(S, v) == {w \in S : Precedes(w, v)}

\* The machines whose place in the order is on the page.
PageOf(S, page) ==
    {v \in S : /\ (page - 1) * PageSize < Cardinality(Below(S, v))
               /\ Cardinality(Below(S, v)) <= page * PageSize}

\* Each page of the walk is not served yet, or what its places hold.
PagesOf(pages, hits) ==
    /\ pages \in [Pages -> SUBSET Vms]
    /\ \A p \in Pages : pages[p] \in {{}, PageOf(hits, p)}

WalkOK == PagesOf(walk.pages, InScope(Scope, walk.filter))

\* The resource_id tells machines of the same name apart.
LEMMA OneOrder ==
    ASSUME NEW v \in Vms, NEW w \in Vms, Precedes(v, w), Precedes(w, v)
    PROVE  v = w
<1>1. /\ NameOf[v] \in Nat /\ NameOf[w] \in Nat
      /\ IdRank[v] \in Nat /\ IdRank[w] \in Nat
  BY BrowserAssumption
<1>2. IdRank[v] = IdRank[w]
  BY <1>1 DEF Precedes
<1> QED
  BY <1>2, BrowserAssumption

\* Whatever order the database returns, a machine has the same place in it.
LEMMA Placed ==
    ASSUME NEW S \in SUBSET Vms, NEW o \in Orders(S)
    PROVE  /\ \A v \in S : \E i \in 1..Cardinality(S) : o[i] = v
           /\ \A i \in 1..Cardinality(S) : Cardinality(Below(S, o[i])) = i
<1> DEFINE n == Cardinality(S)
<1>1. IsFiniteSet(S) /\ n \in Nat
  BY BrowserAssumption, FS_Subset, FS_CardinalityType
<1>2. /\ o \in [1..n -> S]
      /\ \A i, j \in 1..n : i < j => o[i] # o[j] /\ Precedes(o[i], o[j])
  BY DEF Orders
<1> HIDE DEF n
<1>3. \A i, j \in 1..n : o[i] = o[j] => i = j
  <2> SUFFICES ASSUME NEW i \in 1..n, NEW j \in 1..n, i # j PROVE o[i] # o[j]
    OBVIOUS
  <2>1. i < j \/ j < i
    BY <1>1
  <2> QED
    BY <1>2, <2>1
<1>4. o \in Injection(1..n, S)
  BY <1>2, <1>3 DEF Injection, IsInjective
<1>5. Cardinality(1..n) = n
  BY <1>1, FS_Interval
<1>6. o \in Surjection(1..n, S)
  BY <1>1, <1>4, <1>5, FS_Injection DEF n
<1>7. \A v \in S : \E i \in 1..n : o[i] = v
  BY <1>6 DEF Surjection
<1>8. ASSUME NEW i \in 1..n PROVE Cardinality(Below(S, o[i])) = i
  <2> DEFINE f == [j \in 1..i |-> o[j]]
             B == Below(S, o[i])
  <2>1. o[i] \in S /\ \A v \in S : v \in Vms
    BY <1>2
  <2>2. \A j \in 1..i : j \in 1..n
    BY <1>1
  <2>3. \A j \in 1..i : o[j] \in B
    <3> SUFFICES ASSUME NEW j \in 1..i PROVE Precedes(o[j], o[i])
      BY <1>2, <2>2 DEF Below
    <3>1. CASE j = i
      BY <3>1, <2>1, BrowserAssumption DEF Precedes
    <3>2. CASE j # i
      BY <3>2, <1>1, <1>2, <2>2
    <3> QED
      BY <3>1, <3>2
  <2>4. \A v \in B : \E j \in 1..i : o[j] = v
    <3> SUFFICES ASSUME NEW v \in B PROVE \E j \in 1..i : o[j] = v
      OBVIOUS
    <3>1. v \in S /\ Precedes(v, o[i])
      BY DEF Below
    <3>2. PICK k \in 1..n : o[k] = v
      BY <1>7, <3>1
    <3>3. ~(i < k)
      <4> SUFFICES ASSUME i < k PROVE FALSE
        OBVIOUS
      <4>1. Precedes(o[i], v) /\ o[i] # v
        BY <1>2, <3>2
      <4> QED
        BY <2>1, <3>1, <4>1, OneOrder
    <3> QED
      BY <1>1, <3>2, <3>3
  <2> HIDE DEF B
  <2>5. f \in [1..i -> B]
    BY <2>3
  <2>6. f \in Surjection(1..i, B)
    BY <2>4, <2>5 DEF Surjection
  <2>7. f \in Injection(1..i, B)
    BY <1>3, <2>2, <2>5 DEF Injection, IsInjective
  <2>8. IsFiniteSet(1..i) /\ Cardinality(1..i) = i
    BY <1>1, FS_Interval
  <2> QED
    BY <2>6, <2>7, <2>8, FS_Surjection DEF B
<1> QED
  BY <1>7, <1>8 DEF n

\* OFFSET and LIMIT return the machines whose places are on the page.
LEMMA SliceIsPage ==
    ASSUME NEW S \in SUBSET Vms, NEW o \in Orders(S), NEW page \in Nat \ {0},
           NEW rows, rows = Slice(o, Cardinality(S), page)
    PROVE  {rows[i] : i \in DOMAIN rows} = PageOf(S, page)
<1> DEFINE n == Cardinality(S)
           from == (page - 1) * PageSize
           upto == IF from + PageSize > n THEN n ELSE from + PageSize
<1>1. n \in Nat /\ PageSize \in Nat \ {0}
  BY BrowserAssumption, FS_Subset, FS_CardinalityType
<1>2. from \in Nat /\ page * PageSize = from + PageSize
  <2>1. page - 1 \in Nat /\ page = (page - 1) + 1
    OBVIOUS
  <2>2. ASSUME NEW m \in Nat PROVE (m + 1) * PageSize = m * PageSize + PageSize
                                   /\ m * PageSize \in Nat
    BY <1>1
  <2> QED
    BY <2>1, <2>2
<1>3. /\ \A v \in S : \E i \in 1..n : o[i] = v
      /\ \A i \in 1..n : Cardinality(Below(S, o[i])) = i
      /\ o \in [1..n -> S]
  BY Placed DEF Orders
<1>4. rows = IF upto <= from THEN <<>>
             ELSE [i \in 1..(upto - from) |-> o[from + i]]
  BY DEF Slice
<1>5. PageOf(S, page) = {v \in S : /\ from < Cardinality(Below(S, v))
                                   /\ Cardinality(Below(S, v)) <= from + PageSize}
  BY <1>2 DEF PageOf
<1> HIDE DEF n, from, Below
<1>6. PageOf(S, page) = {o[i] : i \in {j \in 1..n : from < j /\ j <= upto}}
  <2>1. ASSUME NEW v \in PageOf(S, page)
        PROVE  \E i \in 1..n : from < i /\ i <= upto /\ o[i] = v
    <3>1. PICK i \in 1..n : o[i] = v
      BY <1>3, <1>5
    <3>2. from < i /\ i <= from + PageSize
      BY <1>3, <1>5, <3>1
    <3> QED
      BY <1>1, <1>2, <3>1, <3>2
  <2>2. ASSUME NEW i \in 1..n, from < i, i <= upto
        PROVE  o[i] \in PageOf(S, page)
    <3>1. i <= from + PageSize
      BY <1>1, <1>2, <2>2
    <3> QED
      BY <1>3, <1>5, <2>2, <3>1
  <2> QED
    BY <2>1, <2>2
<1>7. upto \in Nat /\ upto <= n
  BY <1>1, <1>2
<1> HIDE DEF upto
<1>8. CASE upto <= from
  <2>1. DOMAIN rows = {}
    BY <1>4, <1>8
  <2>2. {j \in 1..n : from < j /\ j <= upto} = {}
    BY <1>1, <1>2, <1>7, <1>8
  <2> QED
    BY <1>6, <2>1, <2>2
<1>9. CASE ~(upto <= from)
  <2>1. /\ DOMAIN rows = 1..(upto - from)
        /\ \A i \in 1..(upto - from) : rows[i] = o[from + i]
    BY <1>4, <1>9
  <2>2. \A i \in 1..(upto - from) : /\ from + i \in 1..n
                                    /\ from < from + i /\ from + i <= upto
    BY <1>1, <1>2, <1>7
  <2>3. \A j \in 1..n : from < j /\ j <= upto =>
          j - from \in 1..(upto - from) /\ j = from + (j - from)
    BY <1>1, <1>2, <1>7
  <2> QED
    BY <1>6, <2>1, <2>2, <2>3
<1> QED
  BY <1>8, <1>9

LEMMA WalkKept ==
    ASSUME WalkOK, UNCHANGED <<walk, vms, grants, admin>>
    PROVE  WalkOK'
BY DEF WalkOK, InScope, Scope

LEMMA WalkBegins ==
    ASSUME walk' = NoWalk
    PROVE  WalkOK'
<1>1. /\ NoWalk.pages \in [Pages -> SUBSET Vms]
      /\ \A p \in Pages : NoWalk.pages[p] = {}
  BY DEF NoWalk
<1> QED
  BY <1>1 DEF WalkOK, PagesOf

LEMMA SelectWalks ==
    ASSUME ScopesOK, WalkOK, NEW q \in Queries, Select(q), UNCHANGED admin
    PROVE  WalkOK'
<1> DEFINE r == query[q]
           hits == InScope(r.scope, r.filter)
<1>1. PICK o \in Orders(hits) :
        Walked(q, Slice(o, Cardinality(hits), r.page))
  BY DEF Select
<1>2. r \in QueryType /\ vms \in SUBSET Vms /\ hits \in SUBSET Vms
  BY QueryFacts DEF InScope
<1>3. r.page \in Nat \ {0}
  BY <1>2 DEF QueryType
<1>4. UNCHANGED <<vms, grants, admin>>
  BY DEF Select, serverVars
<1>5. Scope' = Scope /\ \A s, f : InScope(s, f)' = InScope(s, f)
  BY <1>4 DEF Scope, InScope
<1>6. CASE r.scope # Scope
  <2>1. walk' = walk
    BY <1>1, <1>6 DEF Walked
  <2> QED
    BY <1>4, <2>1, WalkKept
<1>7. CASE r.scope = Scope
  <2> DEFINE rows == Slice(o, Cardinality(hits), r.page)
             old == IF walk.filter = r.filter THEN walk ELSE NoWalk
             found == {rows[i] : i \in DOMAIN rows}
  <2>1. found = PageOf(hits, r.page)
    BY <1>2, <1>3, SliceIsPage
  <2>2. PagesOf(old.pages, hits)
    BY <1>7 DEF WalkOK, PagesOf, NoWalk
  <2>3. walk' = [filter |-> r.filter,
                 pages |-> [old.pages EXCEPT ![r.page] = found]]
    BY <1>1, <1>7 DEF Walked
  <2>4. walk'.filter = r.filter
        /\ walk'.pages = [old.pages EXCEPT ![r.page] = found]
    BY <2>3
  <2>5. PageOf(hits, r.page) \in SUBSET Vms
    BY <1>2 DEF PageOf
  <2> HIDE DEF rows, old, found, hits
  <2>6. PagesOf(walk'.pages, hits)
    BY <2>1, <2>2, <2>4, <2>5 DEF PagesOf
  <2>7. InScope(Scope, walk.filter)' = hits
    BY <1>4, <1>7, <2>4 DEF hits, InScope, Scope
  <2> QED
    BY <2>6, <2>7 DEF WalkOK
<1> QED
  BY <1>6, <1>7

LEMMA WalkStep == ScopesOK /\ WalkOK /\ [Next]_vars => WalkOK'
<1> SUFFICES ASSUME ScopesOK, WalkOK, [Next]_vars PROVE WalkOK'
  OBVIOUS
<1>1. CASE InventoryStep
  <2>1. PICK q \in Queries :
          \/ Select(q)
          \/ ReadScope(q) \/ Count(q) \/ Fails(q) \/ Arrives(q)
          \/ Previous(q) \/ Following(q)
          \/ \E f \in Filters : ChooseFilter(q, f)
    BY <1>1 DEF InventoryStep, InventoryNext
  <2>2. CASE Select(q)
    BY <1>1, <2>2, SelectWalks DEF InventoryStep
  <2>3. CASE ~Select(q)
    <3>1. UNCHANGED <<walk, vms, grants>>
      BY <2>1, <2>3
      DEF ReadScope, Count, Fails, Arrives, Previous, Following, ChooseFilter,
          Asks, serverVars
    <3> QED
      BY <1>1, <3>1, WalkKept DEF InventoryStep
  <2> QED
    BY <2>2, <2>3
<1>2. CASE Connections(PageNext)
  BY <1>2, PageStoresNothing, WalkKept DEF Connections, inventoryVars
<1>3. CASE Open
  BY <1>3, WalkBegins DEF Open, FreshInventory
<1>4. CASE ConnectionsOpened \/ SignedOut \/ SignedIn
  BY <1>4, WalkKept
  DEF ConnectionsOpened, SignedOut, SignedIn, serverVars, inventoryVars
<1>5. CASE InventoryOpened
  BY <1>5, WalkKept DEF InventoryOpened, Asks, serverVars
<1>6. ASSUME NEW c \in Ids,
             \/ Elsewhere(Progress(c))
             \/ Elsewhere(BeginElsewhere(c) \/ CreateRow(c) \/ RemoveRow(c))
      PROVE  WalkOK'
  <2>1. vms \in SUBSET Vms
    BY DEF ScopesOK
  <2>2. UNCHANGED <<grants, admin>>
    BY <1>6, <2>1, ServerGrows DEF Elsewhere
  <2>3. walk' = IF vms' = vms THEN walk ELSE NoWalk
    BY <1>6 DEF Elsewhere
  <2> QED
    BY <2>2, <2>3, WalkKept, WalkBegins
<1>7. CASE Regranted
  BY <1>7, WalkBegins DEF Regranted, ScopesChange
<1>8. CASE UNCHANGED vars
  BY <1>8, WalkKept DEF vars, serverVars, inventoryVars
<1> QED
  BY <1>1, <1>2, <1>3, <1>4, <1>5, <1>6, <1>7, <1>8 DEF Next

\* Pages of a positive size are disjoint ranges of places.
LEMMA PagesApart ==
    ASSUME NEW p \in Nat \ {0}, NEW o \in Nat \ {0}, p < o
    PROVE  p * PageSize \in Nat /\ (o - 1) * PageSize \in Nat
           /\ p * PageSize <= (o - 1) * PageSize
<1>1. PageSize \in Nat /\ o - 1 \in Nat /\ p <= o - 1
  BY BrowserAssumption
<1>2. \A a, b, s \in Nat : a <= b => a * s \in Nat /\ b * s \in Nat /\ a * s <= b * s
  OBVIOUS
<1> QED
  BY <1>1, <1>2

\* Each place up to n is on one of the pages up to the last.
LEMMA PlaceHasPage ==
    ASSUME NEW n \in Nat, NEW i \in 1..n
    PROVE  /\ LastPage(n) \in 1..n
           /\ \E p \in 1..LastPage(n) :
                (p - 1) * PageSize < i /\ i <= p * PageSize
<1> DEFINE s == PageSize
           a == (i - 1) \div s
           b == (n + s - 1) \div s
<1>1. s \in Nat \ {0}
  BY BrowserAssumption
<1> HIDE DEF s
<1>2. \A m \in Nat, t \in Nat \ {0} :
        /\ m \div t \in Nat
        /\ t * (m \div t) <= m /\ m < t * (m \div t) + t
  OBVIOUS
<1>3. /\ a \in Nat /\ s * a <= i - 1 /\ i - 1 < s * a + s
      /\ b \in Nat /\ s * b <= n + s - 1 /\ n + s - 1 < s * b + s
  BY <1>1, <1>2
<1> HIDE DEF a, b
<1>4. s * a \in Nat /\ s * b \in Nat
  BY <1>1, <1>3
<1>5. a + 1 <= b
  <2> SUFFICES ASSUME b <= a PROVE FALSE
    BY <1>3
  <2>1. \A x, y, t \in Nat : x <= y => t * x <= t * y
    OBVIOUS
  <2>2. s * b <= s * a
    BY <1>1, <1>3, <2>1
  <2> QED
    BY <1>1, <1>3, <1>4, <2>2
<1>6. b <= n
  <2> SUFFICES ASSUME n + 1 <= b PROVE FALSE
    BY <1>3
  <2>1. \A x, y, t \in Nat : x <= y => t * x <= t * y
    OBVIOUS
  <2>2. s * (n + 1) <= s * b /\ s * (n + 1) = s * n + s /\ s * n \in Nat
    BY <1>1, <1>3, <2>1
  <2>3. n <= s * n
    BY <1>1
  <2> QED
    BY <1>1, <1>3, <1>4, <2>2, <2>3
<1>7. LastPage(n) = b
  BY DEF LastPage, b, s
<1>8. (a + 1) * s = s * a + s /\ ((a + 1) - 1) * s = s * a
  BY <1>1, <1>3
<1>9. a + 1 \in 1..b /\ s * a < i /\ i <= s * a + s
  BY <1>1, <1>3, <1>4, <1>5
<1> QED
  BY <1>3, <1>5, <1>6, <1>7, <1>8, <1>9 DEF s

\* Disjoint ranges, and together they are all places.
LEMMA WalkTiles ==
    ASSUME ScopesOK, WalkOK
    PROVE  PagesTile
<1> DEFINE hits == InScope(Scope, walk.filter)
           n == Cardinality(hits)
<1>1. PagesOf(walk.pages, hits)
  BY DEF WalkOK
<1>2. /\ hits \in SUBSET Vms /\ IsFiniteSet(hits) /\ n \in Nat
      /\ Cardinality(Vms) \in Nat /\ n <= Cardinality(Vms)
  <2>1. hits \in SUBSET Vms
    BY DEF InScope, ScopesOK
  <2> HIDE DEF hits
  <2> QED
    BY <2>1, BrowserAssumption, FS_Subset, FS_CardinalityType
<1> HIDE DEF hits
<1>3. ASSUME NEW v \in hits
      PROVE  Cardinality(Below(hits, v)) \in 1..n
  <2>1. Below(hits, v) \subseteq hits /\ v \in Below(hits, v)
    <3>1. NameOf[v] \in Nat /\ IdRank[v] \in Nat
      BY <1>2, BrowserAssumption
    <3> QED
      BY <3>1 DEF Below, Precedes
  <2>2. /\ IsFiniteSet(Below(hits, v)) /\ Cardinality(Below(hits, v)) <= n
        /\ Cardinality(Below(hits, v)) \in Nat
    BY <1>2, <2>1, FS_Subset, FS_CardinalityType
  <2>3. Cardinality(Below(hits, v)) # 0
    BY <2>1, <2>2, FS_EmptySet
  <2> QED
    BY <1>2, <2>2, <2>3
<1> HIDE DEF n
<1>4. ASSUME NEW p \in Pages, NEW o \in Pages, p # o
      PROVE  walk.pages[p] \cap walk.pages[o] = {}
  <2>1. p \in Nat \ {0} /\ o \in Nat \ {0}
    BY <1>2 DEF Pages
  <2>2. ASSUME NEW x \in Nat \ {0}, NEW y \in Nat \ {0}, x < y
        PROVE  PageOf(hits, x) \cap PageOf(hits, y) = {}
    <3>1. /\ x * PageSize \in Nat /\ (y - 1) * PageSize \in Nat
          /\ x * PageSize <= (y - 1) * PageSize
      BY <2>2, PagesApart
    <3> SUFFICES ASSUME NEW v \in hits,
                        Cardinality(Below(hits, v)) <= x * PageSize,
                        (y - 1) * PageSize < Cardinality(Below(hits, v))
                 PROVE  FALSE
      BY DEF PageOf
    <3>2. Cardinality(Below(hits, v)) \in Nat
      BY <1>2, <1>3
    <3> QED
      BY <3>1, <3>2
  <2>3. PageOf(hits, p) \cap PageOf(hits, o) = {}
    <3>1. p < o \/ o < p
      BY <1>4, <2>1
    <3> QED
      BY <2>1, <2>2, <3>1
  <2> QED
    BY <1>1, <2>3 DEF PagesOf
<1>5. ASSUME \A p \in 1..LastPage(n) : walk.pages[p] # {}
      PROVE  UNION {walk.pages[p] : p \in Pages} = hits
  <2>1. ASSUME NEW p \in Pages PROVE walk.pages[p] \subseteq hits
    BY <1>1 DEF PagesOf, PageOf
  <2>2. ASSUME NEW v \in hits
        PROVE  \E p \in Pages : v \in walk.pages[p]
    <3> DEFINE i == Cardinality(Below(hits, v))
    <3>1. i \in 1..n
      BY <1>3
    <3> HIDE DEF i
    <3>2. /\ LastPage(n) \in 1..n
          /\ \E p \in 1..LastPage(n) :
               (p - 1) * PageSize < i /\ i <= p * PageSize
      BY <1>2, <3>1, PlaceHasPage
    <3>3. PICK p \in 1..LastPage(n) :
            (p - 1) * PageSize < i /\ i <= p * PageSize
      BY <3>2
    <3>4. p \in Pages
      BY <1>2, <3>2, <3>3 DEF Pages
    <3>5. v \in PageOf(hits, p)
      BY <3>3 DEF PageOf, i
    <3>6. walk.pages[p] = PageOf(hits, p)
      BY <1>1, <1>5, <3>4 DEF PagesOf
    <3> QED
      BY <3>4, <3>5, <3>6
  <2> QED
    BY <2>1, <2>2
<1> QED
  BY <1>4, <1>5 DEF PagesTile, hits, n

\* However the names repeat and whichever order the database returns, pages of
\* an unchanged table overlap nowhere and leave nothing out (search_vms: the
\* unique tie-breaker of the order).
THEOREM PagesTileTheTable == Spec => []PagesTile
<1>1. Init => WalkOK
  <2> SUFFICES ASSUME Init PROVE WalkOK
    OBVIOUS
  <2>1. /\ walk.pages \in [Pages -> SUBSET Vms]
        /\ \A p \in Pages : walk.pages[p] = {}
    BY DEF Init, NoWalk
  <2> QED
    BY <2>1 DEF WalkOK, PagesOf
<1> QED
  BY <1>1, ScopesInit, ScopesStep, WalkStep, WalkTiles, PTL DEF Spec

-----------------------------------------------------------------------------
(* Ends of collections                                                     *)

\* A failure is cleared when the next collection starts, in the same commit.
RowKept(e) ==
    /\ e.there = "unborn" => e.job = "none"
    /\ e.job = "running" /\ e.there = "there" => ~e.error

\* Until the end, the collection goes on.
Awaited(e) ==
    /\ e.there # "unborn"
    /\ ~e.ended /\ e.there = "there" => e.job # "none"

\* Until the end, the poll `r' has seen that nothing has ended yet.
PollTrue(e, r, c) ==
    ~e.ended /\ r.stage = "read" /\ r.answer[c].there =>
      ~r.answer[c].error /\ r.answer[c].success = e.success

ConnTyped ==
    /\ table \in [Ids -> Entry]
    /\ list \in Lists
    /\ call \in [Calls -> Call]
    /\ click \in [Ids -> [Stages -> Nat]]
    /\ collecting \in SUBSET Ids
    /\ greyed \in SUBSET Ids

\* The page waits for c, or will when the answer to a click comes.
Asked(c) == \/ c \in collecting
            \/ click[c]["began"] > 0 \/ click[c]["accepted"] > 0

EndsOK ==
    \A c \in Ids :
      /\ RowKept(table[c])
      /\ Asked(c) => Awaited(table[c])
      /\ c \in collecting => c \in greyed
      /\ \A k \in Calls : c \in call[k].recorded =>
            c \in collecting /\ Quiet(c) /\ PollTrue(table[c], call[k], c)

\* What may become of a row without the tab asking for it.
Moved(e, f) ==
    \/ f = e
    \/ /\ e.there = "there" /\ e.job = "none"
       /\ f = [e EXCEPT !.job = "starting"]
    \/ /\ e.job = "starting"
       /\ IF e.there = "there" THEN f = Attempted(e)
          ELSE f \in {[e EXCEPT !.job = "none"], [e EXCEPT !.job = "running"]}
    \/ /\ e.job = "running"
       /\ IF e.there = "there" THEN f \in Results(e) ELSE f = [e EXCEPT !.job = "none"]
    \/ e.there = "unborn" /\ f = [e EXCEPT !.there = "there"]
    \/ e.there = "there" /\ f = [e EXCEPT !.there = "gone"]

LEMMA MovedKeeps ==
    ASSUME NEW e \in Entry, NEW f, Moved(e, f)
    PROVE  /\ f \in Entry
           /\ RowKept(e) => RowKept(f)
           /\ Awaited(e) => Awaited(f)
           /\ \A r, c : Awaited(e) /\ PollTrue(e, r, c) => PollTrue(f, r, c)
<1>1. CASE f = e
  BY <1>1
<1>2. CASE e.there = "there" /\ e.job = "none" /\ f = [e EXCEPT !.job = "starting"]
  <2>1. /\ f \in Entry /\ f.there = e.there /\ f.job = "starting"
        /\ f.ended = e.ended /\ f.success = e.success /\ f.error = e.error
    BY <1>2 DEF Entry
  <2> QED
    BY <1>2, <2>1 DEF RowKept, Awaited, PollTrue
<1>3. CASE e.job = "starting" /\ e.there = "there" /\ f = Attempted(e)
  <2>1. /\ f \in Entry /\ f.there = e.there /\ f.job = "running"
        /\ f.ended = e.ended /\ f.success = e.success /\ f.error = FALSE
    BY <1>3 DEF Entry, Attempted
  <2> QED
    BY <1>3, <2>1 DEF RowKept, Awaited, PollTrue
<1>4. CASE e.there # "there" /\ f = [e EXCEPT !.job = "none"]
  <2>1. /\ f \in Entry /\ f.there = e.there /\ f.job = "none"
        /\ f.ended = e.ended /\ f.success = e.success /\ f.error = e.error
    BY <1>4 DEF Entry
  <2> QED
    BY <1>4, <2>1 DEF RowKept, Awaited, PollTrue
<1>8. CASE /\ e.job = "starting" /\ e.there # "there"
           /\ f = [e EXCEPT !.job = "running"]
  <2>1. /\ f \in Entry /\ f.there = e.there /\ f.job = "running"
        /\ f.ended = e.ended /\ f.success = e.success /\ f.error = e.error
    BY <1>8 DEF Entry
  <2> QED
    BY <1>8, <2>1 DEF RowKept, Awaited, PollTrue
<1>5. CASE e.job = "running" /\ e.there = "there" /\ f \in Results(e)
  <2> DEFINE won == [e EXCEPT !.job = "none", !.ended = TRUE,
                              !.success = @ + 1, !.error = FALSE]
             lost == [e EXCEPT !.job = "none", !.ended = TRUE, !.error = TRUE]
  <2>2. e.success + 1 \in Nat
    BY DEF Entry
  <2>3. /\ won \in Entry /\ won.there = "there" /\ won.job = "none"
        /\ won.ended = TRUE
    BY <1>5, <2>2 DEF Entry
  <2>4. /\ lost \in Entry /\ lost.there = "there" /\ lost.job = "none"
        /\ lost.ended = TRUE
    BY <1>5 DEF Entry
  <2>5. f = won \/ f = lost
    BY <1>5 DEF Results
  <2> HIDE DEF won, lost
  <2>1. /\ f \in Entry /\ f.there = "there" /\ f.job = "none" /\ f.ended = TRUE
    BY <2>3, <2>4, <2>5
  <2> QED
    BY <1>5, <2>1 DEF RowKept, Awaited, PollTrue
<1>6. CASE e.there = "unborn" /\ f = [e EXCEPT !.there = "there"]
  <2>1. /\ f \in Entry /\ f.there = "there" /\ f.job = e.job
    BY <1>6 DEF Entry
  <2> QED
    BY <1>6, <2>1 DEF RowKept, Awaited, PollTrue
<1>7. CASE e.there = "there" /\ f = [e EXCEPT !.there = "gone"]
  <2>1. /\ f \in Entry /\ f.there = "gone" /\ f.job = e.job
        /\ f.ended = e.ended /\ f.success = e.success /\ f.error = e.error
    BY <1>7 DEF Entry
  <2> QED
    BY <1>7, <2>1 DEF RowKept, Awaited, PollTrue
<1> QED
  BY <1>1, <1>2, <1>3, <1>4, <1>5, <1>6, <1>7, <1>8 DEF Moved

LEMMA ServerMoves ==
    ASSUME table \in [Ids -> Entry], NEW c \in Ids,
           \/ End(c) \/ MarkAttempt(c) \/ BeginElsewhere(c)
           \/ CreateRow(c) \/ RemoveRow(c)
    PROVE  /\ table' \in [Ids -> Entry]
           /\ \A d \in Ids : Moved(table[d], table'[d])
<1> DEFINE f == table'[c]
<1>1. PICK g : Moved(table[c], g) /\ table' = [table EXCEPT ![c] = g]
  <2>1. CASE End(c)
    <3>1. CASE There(c)
      <4>1. PICK entry \in Results(table[c]) : table' = [table EXCEPT ![c] = entry]
        BY <2>1, <3>1 DEF End
      <4> QED
        BY <2>1, <3>1, <4>1 DEF Moved, End, There
    <3>2. CASE ~There(c)
      BY <2>1, <3>2 DEF Moved, End, There
    <3> QED
      BY <3>1, <3>2
  <2>2. CASE MarkAttempt(c)
    <3>1. CASE There(c)
      BY <2>2, <3>1 DEF Moved, MarkAttempt, There
    <3>2. CASE ~There(c)
      <4>1. PICK job \in {"none", "running"} :
              table' = [table EXCEPT ![c].job = job]
        BY <2>2, <3>2 DEF MarkAttempt
      <4>2. table' = [table EXCEPT ![c] = [table[c] EXCEPT !.job = job]]
        BY <4>1
      <4>3. Moved(table[c], [table[c] EXCEPT !.job = job])
        BY <2>2, <3>2 DEF Moved, MarkAttempt, There
      <4> QED
        BY <4>2, <4>3
    <3> QED
      BY <3>1, <3>2
  <2>3. CASE BeginElsewhere(c)
    <3>1. table' = [table EXCEPT ![c].job = "starting", ![c].ended = @]
      BY <2>3 DEF BeginElsewhere, Begin
    <3>2. table' = [table EXCEPT ![c] = [@ EXCEPT !.job = "starting"]]
      BY <3>1 DEF Entry
    <3> QED
      BY <2>3, <3>2 DEF Moved, BeginElsewhere, Begin, There
  <2>4. CASE CreateRow(c)
    BY <2>4 DEF Moved, CreateRow
  <2>5. CASE RemoveRow(c)
    BY <2>5 DEF Moved, RemoveRow, Deletable, There
  <2> QED
    BY <2>1, <2>2, <2>3, <2>4, <2>5
<1>2. g \in Entry
  BY <1>1, MovedKeeps
<1>3. \A d \in Ids : table'[d] = IF d = c THEN g ELSE table[d]
  BY <1>1
<1>4. \A d \in Ids : Moved(table[d], table'[d])
  BY <1>1, <1>3 DEF Moved
<1> QED
  BY <1>1, <1>2, <1>4

\* No poll begins or is answered.
Calm(k) == /\ call'[k].recorded \subseteq call[k].recorded
           /\ \/ call'[k].recorded = {}
              \/ /\ call'[k].stage = call[k].stage
                 /\ call'[k].answer = call[k].answer

\* Nobody begins to wait, and nobody who is waited for is clicked.
LEMMA EndsFrame ==
    ASSUME ConnTyped, EndsOK,
           \A c \in Ids : Moved(table[c], table'[c]),
           \A c \in Ids : Asked(c)' => Asked(c),
           \A c \in Ids : c \in collecting' => c \in greyed',
           \A c \in Ids : c \in collecting /\ Quiet(c) => Quiet(c)',
           \A k \in Calls : Calm(k),
           \/ collecting' = collecting
           \/ \A k \in Calls : call'[k].recorded \subseteq collecting'
    PROVE  EndsOK'
<1> SUFFICES ASSUME NEW c \in Ids
             PROVE  /\ RowKept(table'[c])
                    /\ Asked(c)' => Awaited(table'[c])
                    /\ c \in collecting' => c \in greyed'
                    /\ \A k \in Calls : c \in call'[k].recorded =>
                         /\ c \in collecting' /\ Quiet(c)'
                         /\ PollTrue(table'[c], call'[k], c)
  BY DEF EndsOK, RowKept, Awaited, PollTrue
<1>1. /\ table[c] \in Entry /\ Moved(table[c], table'[c])
      /\ RowKept(table[c])
      /\ Asked(c) => Awaited(table[c])
  BY DEF ConnTyped, EndsOK
<1>2. /\ RowKept(table'[c])
      /\ Asked(c) => Awaited(table'[c])
      /\ \A r : Asked(c) /\ PollTrue(table[c], r, c) => PollTrue(table'[c], r, c)
  BY <1>1, MovedKeeps
<1>3. ASSUME NEW k \in Calls, c \in call'[k].recorded
      PROVE  /\ c \in collecting' /\ Quiet(c)'
             /\ PollTrue(table'[c], call'[k], c)
  <2>1. /\ Calm(k) /\ c \in call[k].recorded
        /\ call'[k].stage = call[k].stage /\ call'[k].answer = call[k].answer
    BY <1>3 DEF Calm
  <2>2. c \in collecting /\ Quiet(c) /\ PollTrue(table[c], call[k], c)
    BY <2>1 DEF EndsOK
  <2>3. PollTrue(table'[c], call[k], c)
    BY <1>2, <2>2 DEF Asked
  <2> QED
    BY <1>3, <2>1, <2>2, <2>3 DEF PollTrue
<1> HIDE DEF RowKept, Awaited, PollTrue, Moved
<1> QED
  BY <1>2, <1>3

LEMMA CallsTyped ==
    /\ NoCall \in Call /\ Blank.call \in [Calls -> Call]
    /\ Blank.list \in Lists
    /\ NoCall.recorded = {} /\ \A k \in Calls : Blank.call[k].recorded = {}
BY DEF NoCall, Blank, Call, Lists, Shown, Nowhere

LEMMA ListingTyped ==
    ASSUME table \in [Ids -> Entry]
    PROVE  Listing \in Lists
BY DEF Listing, Lists, Shown, Nowhere, Entry, There

\* A call of the list that ends, or is sent for no one in particular.
LEMMA CallEnds ==
    ASSUME ConnTyped, NEW k \in Calls,
           \/ call' = [call EXCEPT ![k] = NoCall]
           \/ call' = [call EXCEPT ![k] = [NoCall EXCEPT !.kind = "reload"]]
    PROVE  call' \in [Calls -> Call] /\ \A j \in Calls : Calm(j)
<1> DEFINE sent == [NoCall EXCEPT !.kind = "reload"]
<1>1. call \in [Calls -> Call] /\ call[k] \in Call
  BY DEF ConnTyped
<1>2. sent \in Call /\ sent.recorded = {}
  BY CallsTyped DEF Call, NoCall
<1> HIDE DEF sent
<1>3. CASE call' = [call EXCEPT ![k] = NoCall]
  BY <1>1, <1>3, CallsTyped DEF Calm
<1>4. CASE call' = [call EXCEPT ![k] = sent]
  BY <1>1, <1>2, <1>4 DEF Calm
<1> QED
  BY <1>3, <1>4 DEF sent

\* A poll that ends, with those it has told of.
LEMMA PollEnds ==
    ASSUME ConnTyped, NEW k \in Calls, NEW left,
           call' = [j \in Calls |-> IF j = k THEN NoCall
                                    ELSE [call[j] EXCEPT !.recorded = @ \cap left]]
    PROVE  /\ call' \in [Calls -> Call]
           /\ \A j \in Calls : Calm(j) /\ call'[j].recorded \subseteq left
<1>1. ASSUME NEW j \in Calls
      PROVE  /\ call'[j] \in Call /\ Calm(j)
             /\ call'[j].recorded \subseteq left
  <2>1. CASE j = k
    BY <2>1, CallsTyped DEF Calm
  <2>2. CASE j # k
    <3>1. /\ call[j] \in Call
          /\ call'[j] = [call[j] EXCEPT !.recorded = @ \cap left]
      BY <2>2 DEF ConnTyped
    <3>2. /\ call'[j] \in Call /\ call'[j].stage = call[j].stage
          /\ call'[j].answer = call[j].answer
          /\ call'[j].recorded = call[j].recorded \cap left
      BY <3>1 DEF Call
    <3> QED
      BY <3>2 DEF Calm
  <2> QED
    BY <2>1, <2>2
<1>2. call' \in [Calls -> Call]
  BY <1>1
<1> QED
  BY <1>1, <1>2

\* What is drawn after a reload.
LEMMA ReloadedTyped ==
    ASSUME ConnTyped, NEW k \in Calls
    PROVE  Reloaded(k) \in Lists
BY DEF ConnTyped, Reloaded, Call

LEMMA ServeListEnds ==
    ASSUME ConnTyped, EndsOK, NEW k \in Calls, ServeList(k)
    PROVE  ConnTyped' /\ EndsOK'
<1> DEFINE known == {c \in call[k].recorded : table[c].job # "starting"}
           r == [call[k] EXCEPT !.stage = "read", !.answer = Listing,
                                !.recorded = known]
<1>1. call \in [Calls -> Call] /\ call[k] \in Call
  BY DEF ConnTyped
<1>2. UNCHANGED <<table, list, greyed, collecting, click>>
  BY DEF ServeList, drawn, waits, serverVars
<1>3. call' = [call EXCEPT ![k] = r]
  BY DEF ServeList
<1>4. known \subseteq call[k].recorded /\ known \in SUBSET Ids
  BY <1>1 DEF Call
<1>5. \A c \in known : table[c].job # "starting"
  OBVIOUS
<1> HIDE DEF known
<1>6. /\ r \in Call /\ r.recorded = known /\ r.stage = "read"
      /\ r.answer = Listing
  BY <1>1, <1>4, ListingTyped DEF Call, ConnTyped
<1> HIDE DEF r
<1>7. ConnTyped'
  BY <1>1, <1>2, <1>3, <1>6 DEF ConnTyped
<1>8. \A j \in Calls : call'[j] = IF j = k THEN r ELSE call[j]
  BY <1>1, <1>3
<1>9. ASSUME NEW c \in Ids, c \in known
      PROVE  /\ c \in collecting /\ Quiet(c)
             /\ PollTrue(table[c], r, c)
  <2>1. c \in collecting /\ Quiet(c)
    BY <1>4, <1>9 DEF EndsOK
  <2>2. /\ RowKept(table[c]) /\ Awaited(table[c]) /\ table[c] \in Entry
        /\ table[c].job # "starting"
    BY <1>5, <1>9, <2>1 DEF EndsOK, Asked, ConnTyped
  <2>3. r.answer[c].there =>
          /\ table[c].there = "there" /\ r.answer[c].success = table[c].success
          /\ r.answer[c].error = table[c].error
    <3>1. r.answer[c] = IF table[c].there = "there"
                        THEN [there |-> TRUE, success |-> table[c].success,
                              error |-> table[c].error]
                        ELSE Nowhere
      BY <1>6 DEF Listing, There
    <3>2. CASE table[c].there = "there"
      <4>1. r.answer[c] = [there |-> TRUE, success |-> table[c].success,
                           error |-> table[c].error]
        BY <3>1, <3>2
      <4> QED
        BY <3>2, <4>1
    <3>3. CASE table[c].there # "there"
      BY <3>1, <3>3 DEF Nowhere
    <3> QED
      BY <3>2, <3>3
  <2>4. ~table[c].ended /\ table[c].there = "there" => ~table[c].error
    BY <2>2 DEF RowKept, Awaited, Entry
  <2> QED
    BY <2>1, <2>3, <2>4 DEF PollTrue
<1>10. \A c \in Ids : \A j \in Calls : c \in call'[j].recorded =>
         c \in collecting /\ Quiet(c) /\ PollTrue(table[c], call'[j], c)
  BY <1>6, <1>8, <1>9 DEF EndsOK
<1> QED
  BY <1>2, <1>7, <1>10 DEF EndsOK, Asked, RowKept, Awaited, PollTrue, Quiet

LEMMA PollFiresEnds ==
    ASSUME ConnTyped, EndsOK, NEW k \in Calls, PollFires(k)
    PROVE  ConnTyped' /\ EndsOK'
<1> DEFINE before == [c \in Ids |-> IF list[c].there THEN list[c].success
                                     ELSE Undefined]
           calm == {c \in collecting : Quiet(c)}
           r == [NoCall EXCEPT !.kind = "poll", !.before = before,
                               !.recorded = calm]
<1>1. call \in [Calls -> Call]
  BY DEF ConnTyped
<1>2. /\ UNCHANGED <<table, list, greyed, collecting, click>>
      /\ call' = [call EXCEPT ![k] = r]
  BY DEF PollFires, drawn, waits, serverVars
<1>3. before \in [Ids -> Nat \cup {Undefined}] /\ calm \in SUBSET Ids
  BY DEF ConnTyped, Lists, Shown
<1>4. \A c \in calm : c \in collecting /\ Quiet(c)
  OBVIOUS
<1> HIDE DEF before, calm
<1>5. r \in Call /\ r.recorded = calm /\ r.stage = "sent"
  BY <1>3, CallsTyped DEF Call, NoCall
<1> HIDE DEF r
<1>6. ConnTyped'
  BY <1>1, <1>2, <1>5 DEF ConnTyped
<1>7. \A j \in Calls : call'[j] = IF j = k THEN r ELSE call[j]
  BY <1>1, <1>2
<1>8. \A c \in Ids : \A j \in Calls : c \in call'[j].recorded =>
        c \in collecting /\ Quiet(c) /\ PollTrue(table[c], call'[j], c)
  BY <1>4, <1>5, <1>7 DEF EndsOK, PollTrue
<1> QED
  BY <1>2, <1>6, <1>8 DEF EndsOK, Asked, RowKept, Awaited, PollTrue, Quiet

LEMMA ListArrivesEnds ==
    ASSUME ConnTyped, EndsOK, NEW k \in Calls, ListArrives(k)
    PROVE  ConnTyped' /\ EndsOK'
<1>1. UNCHANGED <<table, click>>
  BY DEF ListArrives, ReloadArrives, PollArrives, Returns
<1>2. \A c \in Ids : Moved(table[c], table'[c]) /\ (Quiet(c) => Quiet(c)')
  BY <1>1 DEF Moved, Quiet
<1>3. CASE ReloadArrives(k)
  <2>1. /\ UNCHANGED collecting /\ list' = Reloaded(k)
        /\ greyed' = IF call[k].stage = "read" THEN collecting ELSE greyed
        /\ call' = [call EXCEPT ![k] = NoCall]
    BY <1>3 DEF ReloadArrives, waits
  <2>2. call' \in [Calls -> Call] /\ \A j \in Calls : Calm(j)
    BY <2>1, CallEnds
  <2>3. ConnTyped'
    BY <1>1, <2>1, <2>2, ReloadedTyped DEF ConnTyped
  <2>4. \A c \in Ids : /\ Asked(c)' => Asked(c)
                       /\ c \in collecting' => c \in greyed'
    BY <1>1, <2>1 DEF Asked, EndsOK
  <2> QED
    BY <1>2, <2>1, <2>2, <2>3, <2>4, EndsFrame
<1>4. CASE PollArrives(k)
  <2> DEFINE settled == Settled(k, Reloaded(k))
             left == collecting \ settled
  <2>1. /\ collecting' = left /\ list' = Reloaded(k)
        /\ greyed' = IF left = {} THEN {}
                     ELSE IF call[k].stage = "read" THEN collecting ELSE greyed
        /\ call' = [j \in Calls |-> IF j = k THEN NoCall
                                    ELSE [call[j] EXCEPT !.recorded = @ \cap left]]
    BY <1>4 DEF PollArrives
  <2> HIDE DEF settled
  <2>2. left \subseteq collecting
    OBVIOUS
  <2> HIDE DEF left
  <2>3. /\ call' \in [Calls -> Call]
        /\ \A j \in Calls : Calm(j) /\ call'[j].recorded \subseteq collecting'
    BY <2>1, PollEnds
  <2>4. ConnTyped'
    BY <1>1, <2>1, <2>2, <2>3, ReloadedTyped DEF ConnTyped
  <2>5. \A c \in Ids : /\ Asked(c)' => Asked(c)
                       /\ c \in collecting' => c \in greyed'
    BY <1>1, <2>1, <2>2 DEF Asked, EndsOK
  <2> QED
    BY <1>2, <2>3, <2>4, <2>5, EndsFrame
<1> QED
  BY <1>3, <1>4 DEF ListArrives

-----------------------------------------------------------------------------
(* Clicks                                                                  *)

LEMMA PostsTyped == NoPost \in [Stages -> Nat]
BY DEF NoPost

\* A call that leaves its stage, or passes to another.
LEMMA PostsMove ==
    ASSUME click \in [Ids -> [Stages -> Nat]], NEW c \in Ids, NEW s \in Stages,
           \/ Leaves(c, s)
           \/ \E t \in Stages \ {s} : Passes(c, s, t)
    PROVE  /\ click' \in [Ids -> [Stages -> Nat]]
           /\ click[c][s] > 0 /\ ~Quiet(c)
           /\ \A d \in Ids \ {c} : click'[d] = click[d]
<1>1. click[c] \in [Stages -> Nat] /\ click[c][s] > 0
  BY DEF Leaves, Passes
<1>2. ~Quiet(c)
  BY <1>1 DEF Quiet, NoPost
<1>3. click[c][s] - 1 \in Nat
  BY <1>1
<1>4. CASE Leaves(c, s)
  <2> DEFINE f == [click[c] EXCEPT ![s] = @ - 1]
  <2>1. f \in [Stages -> Nat]
    BY <1>1, <1>3
  <2>2. click' = [click EXCEPT ![c] = f]
    BY <1>4 DEF Leaves
  <2> HIDE DEF f
  <2> QED
    BY <1>1, <1>2, <2>1, <2>2
<1>5. ASSUME NEW t \in Stages \ {s}, Passes(c, s, t)
      PROVE  /\ click' \in [Ids -> [Stages -> Nat]]
             /\ \A d \in Ids \ {c} : click'[d] = click[d]
  <2> DEFINE f == [click[c] EXCEPT ![s] = @ - 1, ![t] = @ + 1]
  <2>1. click[c][t] + 1 \in Nat
    BY <1>1
  <2>2. f \in [Stages -> Nat]
    BY <1>1, <1>3, <2>1
  <2>3. click' = [click EXCEPT ![c][s] = @ - 1, ![c][t] = @ + 1]
    BY <1>5 DEF Passes
  <2>4. click' = [click EXCEPT ![c] = f]
    BY <2>3
  <2> HIDE DEF f
  <2> QED
    BY <2>2, <2>4
<1> QED
  BY <1>1, <1>2, <1>4, <1>5

\* Those that have been served after a call left its stage, or passed.
LEMMA LeavesLess ==
    ASSUME click \in [Ids -> [Stages -> Nat]], NEW c \in Ids, NEW s \in Stages,
           Leaves(c, s)
    PROVE  \A d \in Ids : Asked(d)' => d \in collecting' \/ Asked(d)
<1>1. \A d \in Ids, t \in Stages :
        /\ click[d][t] \in Nat
        /\ click'[d][t] = IF d = c /\ t = s THEN click[d][t] - 1 ELSE click[d][t]
  BY DEF Leaves
<1> QED
  BY <1>1 DEF Asked, Stages

LEMMA ClickEnds ==
    ASSUME ConnTyped, EndsOK, NEW c \in Ids, Click(c)
    PROVE  ConnTyped' /\ EndsOK'
<1>1. /\ c \notin greyed /\ c \notin collecting
      /\ UNCHANGED <<list, greyed, collecting, call, table>>
      /\ click' = [click EXCEPT ![c]["sent"] = @ + 1]
  BY DEF Click, EndsOK, drawn, waits, serverVars
<1>2. click[c] \in [Stages -> Nat] /\ "sent" \in Stages
  BY DEF ConnTyped, Stages
<1>3. [click[c] EXCEPT !["sent"] = @ + 1] \in [Stages -> Nat]
  BY <1>2
<1>4. click' = [click EXCEPT ![c] = [click[c] EXCEPT !["sent"] = @ + 1]]
  BY <1>1
<1>5. ConnTyped'
  BY <1>1, <1>3, <1>4 DEF ConnTyped
<1>6. \A d \in Ids : /\ click'[d]["began"] = click[d]["began"]
                     /\ click'[d]["accepted"] = click[d]["accepted"]
  BY <1>1, <1>2 DEF ConnTyped, Stages
<1>7. \A d \in Ids : /\ Asked(d)' => Asked(d)
                     /\ d \in collecting' => d \in greyed'
  BY <1>1, <1>6 DEF Asked, EndsOK
<1>8. \A d \in Ids : d \in collecting /\ Quiet(d) => Quiet(d)'
  BY <1>1 DEF Quiet, ConnTyped
<1>9. /\ \A d \in Ids : Moved(table[d], table'[d])
      /\ \A k \in Calls : Calm(k)
  BY <1>1 DEF Moved, Calm
<1> QED
  BY <1>1, <1>5, <1>7, <1>8, <1>9, EndsFrame

LEMMA ServeClickEnds ==
    ASSUME ConnTyped, EndsOK, NEW c \in Ids, ServeClick(c)
    PROVE  ConnTyped' /\ EndsOK'
<1>1. UNCHANGED <<list, greyed, collecting, call>>
  BY DEF ServeClick, drawn, waits
<1>2. table \in [Ids -> Entry] /\ table[c] \in Entry
  BY DEF ConnTyped
<1>3. PICK t \in {"began", "accepted"} : Passes(c, "sent", t)
  BY DEF ServeClick
<1>4. /\ click' \in [Ids -> [Stages -> Nat]] /\ ~Quiet(c)
      /\ \A d \in Ids \ {c} : click'[d] = click[d]
  <2>1. t \in Stages \ {"sent"} /\ "sent" \in Stages
    BY DEF Stages
  <2> QED
    BY <1>3, <2>1, PostsMove DEF ConnTyped
<1>5. PICK f \in Entry : /\ table' = [table EXCEPT ![c] = f]
                         /\ RowKept(f) /\ Awaited(f)
  <2>1. CASE BeginHere(c)
    <3> DEFINE f == [table[c] EXCEPT !.job = "starting", !.ended = FALSE]
    <3>1. table' = [table EXCEPT ![c] = f] /\ table[c].there = "there"
      BY <2>1 DEF BeginHere, Begin, There
    <3>2. f \in Entry /\ f.job = "starting" /\ f.there = table[c].there
      BY <1>2 DEF Entry
    <3>3. RowKept(f) /\ Awaited(f)
      BY <3>1, <3>2 DEF RowKept, Awaited
    <3> HIDE DEF f
    <3> QED
      BY <3>1, <3>2, <3>3
  <2>2. CASE /\ table[c].job # "none"
             /\ table' = [table EXCEPT ![c].ended = FALSE]
    <3> DEFINE f == [table[c] EXCEPT !.ended = FALSE]
    <3>1. table' = [table EXCEPT ![c] = f] /\ RowKept(table[c])
      BY <2>2 DEF EndsOK
    <3>2. /\ f \in Entry /\ f.job = table[c].job /\ f.there = table[c].there
          /\ f.error = table[c].error
      BY <1>2 DEF Entry
    <3>3. RowKept(f) /\ Awaited(f)
      BY <2>2, <3>1, <3>2 DEF RowKept, Awaited
    <3> HIDE DEF f
    <3> QED
      BY <3>1, <3>2, <3>3
  <2> QED
    BY <2>1, <2>2 DEF ServeClick
<1>6. ConnTyped'
  BY <1>1, <1>2, <1>4, <1>5 DEF ConnTyped
<1>7. \A d \in Ids \ {c} : table'[d] = table[d]
  BY <1>5 DEF ConnTyped
<1>8. table'[c] = f
  BY <1>5 DEF ConnTyped
<1>9. ASSUME NEW d \in Ids
      PROVE  /\ RowKept(table'[d])
             /\ Asked(d)' => Awaited(table'[d])
             /\ d \in collecting' => d \in greyed'
             /\ \A k \in Calls : d \in call'[k].recorded =>
                  d \in collecting' /\ Quiet(d)' /\ PollTrue(table'[d], call'[k], d)
  <2>0. /\ RowKept(table[d])
        /\ Asked(d) => Awaited(table[d])
        /\ d \in collecting => d \in greyed
        /\ \A k \in Calls : d \in call[k].recorded =>
             d \in collecting /\ Quiet(d) /\ PollTrue(table[d], call[k], d)
    BY DEF EndsOK
  <2>1. CASE d = c
    BY <1>1, <1>4, <1>5, <1>8, <2>0, <2>1
  <2>2. CASE d # c
    <3>1. (Asked(d)' <=> Asked(d)) /\ (Quiet(d)' <=> Quiet(d))
      BY <1>1, <1>4, <2>2 DEF Asked, Quiet
    <3> QED
      BY <1>1, <1>7, <2>0, <2>2, <3>1
  <2> QED
    BY <2>1, <2>2
<1> QED
  BY <1>6, <1>9 DEF EndsOK, RowKept, Awaited, PollTrue

LEMMA ClickCommittedEnds ==
    ASSUME ConnTyped, EndsOK, NEW c \in Ids, ClickCommitted(c)
    PROVE  ConnTyped' /\ EndsOK'
<1>1. /\ MarkAttempt(c) /\ UNCHANGED <<list, greyed, collecting, call>>
      /\ Passes(c, "began", "accepted") \/ Leaves(c, "began")
  BY DEF ClickCommitted, drawn, waits
<1>2. table' \in [Ids -> Entry] /\ \A d \in Ids : Moved(table[d], table'[d])
  BY <1>1, ServerMoves DEF ConnTyped
<1>3. /\ click' \in [Ids -> [Stages -> Nat]]
      /\ click[c]["began"] > 0 /\ ~Quiet(c)
      /\ \A d \in Ids \ {c} : click'[d] = click[d]
  <2>1. "began" \in Stages /\ "accepted" \in Stages \ {"began"}
    BY DEF Stages
  <2> QED
    BY <1>1, <2>1, PostsMove DEF ConnTyped
<1>4. ConnTyped'
  BY <1>1, <1>2, <1>3 DEF ConnTyped
<1>5. \A d \in Ids : Asked(d)' => Asked(d)
  BY <1>1, <1>3 DEF Asked
<1>6. \A d \in Ids : /\ d \in collecting' => d \in greyed'
                     /\ Quiet(d) => Quiet(d)'
  BY <1>1, <1>3 DEF EndsOK, Quiet
<1>7. \A k \in Calls : Calm(k)
  BY <1>1 DEF Calm
<1> QED
  BY <1>1, <1>2, <1>4, <1>5, <1>6, <1>7, EndsFrame

LEMMA ClickFailsEnds ==
    ASSUME ConnTyped, EndsOK, NEW c \in Ids, ClickFails(c)
    PROVE  ConnTyped' /\ EndsOK'
<1>1. UNCHANGED <<list, greyed, collecting, call, table>>
  BY DEF ClickFails, drawn, waits, serverVars
<1>2. PICK s \in Stages : Leaves(c, s)
  BY DEF ClickFails
<1>3. /\ click' \in [Ids -> [Stages -> Nat]] /\ ~Quiet(c)
      /\ \A d \in Ids \ {c} : click'[d] = click[d]
  BY <1>2, PostsMove DEF ConnTyped
<1>4. ConnTyped'
  BY <1>1, <1>3 DEF ConnTyped
<1>5. \A d \in Ids : Asked(d)' => Asked(d)
  <2>1. \A d \in Ids : Asked(d)' => d \in collecting' \/ Asked(d)
    BY <1>2, LeavesLess DEF ConnTyped
  <2> QED
    BY <1>1, <2>1 DEF Asked
<1>6. \A d \in Ids : /\ d \in collecting' => d \in greyed'
                     /\ Quiet(d) => Quiet(d)'
  BY <1>1, <1>3 DEF EndsOK, Quiet
<1>7. /\ \A k \in Calls : Calm(k)
      /\ \A d \in Ids : Moved(table[d], table'[d])
  BY <1>1 DEF Calm, Moved
<1> QED
  BY <1>1, <1>4, <1>5, <1>6, <1>7, EndsFrame

LEMMA ClickArrivesEnds ==
    ASSUME ConnTyped, EndsOK, NEW c \in Ids, ClickArrives(c)
    PROVE  ConnTyped' /\ EndsOK'
<1>1. /\ Leaves(c, "accepted")
      /\ collecting' = collecting \cup {c} /\ greyed' = collecting \cup {c}
      /\ UNCHANGED <<table, list, call>>
  BY DEF ClickArrives, serverVars
<1>2. /\ click' \in [Ids -> [Stages -> Nat]]
      /\ click[c]["accepted"] > 0 /\ ~Quiet(c)
      /\ \A d \in Ids \ {c} : click'[d] = click[d]
  <2>1. "accepted" \in Stages
    BY DEF Stages
  <2> QED
    BY <1>1, <2>1, PostsMove DEF ConnTyped
<1>3. ConnTyped'
  BY <1>1, <1>2 DEF ConnTyped
<1>4. ASSUME NEW d \in Ids
      PROVE  /\ RowKept(table'[d])
             /\ Asked(d)' => Awaited(table'[d])
             /\ d \in collecting' => d \in greyed'
             /\ \A k \in Calls : d \in call'[k].recorded =>
                  d \in collecting' /\ Quiet(d)' /\ PollTrue(table'[d], call'[k], d)
  <2>1. /\ RowKept(table[d])
        /\ Asked(d) => Awaited(table[d])
        /\ d \in collecting => d \in greyed
        /\ \A k \in Calls : d \in call[k].recorded =>
             d \in collecting /\ Quiet(d) /\ PollTrue(table[d], call[k], d)
    BY DEF EndsOK
  <2>2. Asked(d)' => Asked(d)
    BY <1>1, <1>2 DEF Asked
  <2>3. ASSUME NEW k \in Calls, d \in call'[k].recorded
        PROVE  d \in collecting' /\ Quiet(d)' /\ PollTrue(table'[d], call'[k], d)
    <3>1. d \in collecting /\ Quiet(d) /\ PollTrue(table[d], call[k], d)
      BY <1>1, <2>1, <2>3
    <3>2. d # c
      BY <1>2, <3>1
    <3>3. Quiet(d)'
      BY <1>2, <3>1, <3>2 DEF Quiet
    <3> QED
      BY <1>1, <3>1, <3>3
  <2> QED
    BY <1>1, <2>1, <2>2, <2>3
<1> QED
  BY <1>3, <1>4 DEF EndsOK, RowKept, Awaited, PollTrue

\* A row of the list is made or deleted.
LEMMA DialogEnds ==
    ASSUME ConnTyped, EndsOK, NEW k \in Calls,
           Save(k) \/ \E c \in Ids : ConfirmDelete(c, k)
    PROVE  ConnTyped' /\ EndsOK'
<1>1. UNCHANGED <<list, greyed, collecting, click>>
  BY DEF Save, ConfirmDelete, drawn, waits
<1>2. call' \in [Calls -> Call] /\ \A j \in Calls : Calm(j)
  BY CallEnds DEF Save, ConfirmDelete, Reloading
<1>3. table' \in [Ids -> Entry] /\ \A d \in Ids : Moved(table[d], table'[d])
  BY ServerMoves DEF Save, ConfirmDelete, ConnTyped
<1>4. ConnTyped'
  BY <1>1, <1>2, <1>3 DEF ConnTyped
<1>5. \A c \in Ids : /\ Asked(c)' => Asked(c)
                     /\ c \in collecting' => c \in greyed'
                     /\ Quiet(c) => Quiet(c)'
  BY <1>1 DEF Asked, EndsOK, Quiet
<1> QED
  BY <1>1, <1>2, <1>3, <1>4, <1>5, EndsFrame

\* A new document waits for nothing.
LEMMA FreshEnds ==
    ASSUME ConnTyped, EndsOK, UNCHANGED table,
           NEW calls \in [Calls -> Call], \A k \in Calls : calls[k].recorded = {},
           Fresh(calls)
    PROVE  ConnTyped' /\ EndsOK'
<1>1. /\ list' = Blank.list /\ greyed' = {} /\ collecting' = {}
      /\ call' = calls /\ click' = [c \in Ids |-> NoPost]
  BY DEF Fresh, Blank
<1>2. ConnTyped'
  BY <1>1, CallsTyped DEF ConnTyped, NoPost
<1>3. \A k \in Calls : Calm(k) /\ call'[k].recorded \subseteq collecting'
  BY <1>1 DEF Calm
<1>4. \A c \in Ids : ~Asked(c)' /\ Moved(table[c], table'[c]) /\ Quiet(c)'
  BY <1>1 DEF Asked, Moved, NoPost, Stages, Quiet
<1> QED
  BY <1>1, <1>2, <1>3, <1>4, EndsFrame

\* The server moves and the page does not.
LEMMA OthersEnd ==
    ASSUME ConnTyped, EndsOK, UNCHANGED connVars,
           table' \in [Ids -> Entry], \A c \in Ids : Moved(table[c], table'[c])
    PROVE  ConnTyped' /\ EndsOK'
<1>1. UNCHANGED <<list, greyed, collecting, call, click>>
  BY DEF connVars, drawn, waits
<1>2. ConnTyped'
  BY <1>1 DEF ConnTyped
<1>3. \A c \in Ids : /\ Asked(c)' => Asked(c)
                     /\ c \in collecting' => c \in greyed'
                     /\ Quiet(c) => Quiet(c)'
  BY <1>1 DEF Asked, EndsOK, Quiet
<1>4. \A k \in Calls : Calm(k)
  BY <1>1 DEF Calm
<1> QED
  BY <1>1, <1>2, <1>3, <1>4, EndsFrame

LEMMA EndsStep == ConnTyped /\ EndsOK /\ [Next]_vars => ConnTyped' /\ EndsOK'
<1> SUFFICES ASSUME ConnTyped, EndsOK, [Next]_vars PROVE ConnTyped' /\ EndsOK'
  OBVIOUS
<1>1. ASSUME UNCHANGED <<table, connVars>> PROVE ConnTyped' /\ EndsOK'
  BY <1>1, OthersEnd DEF ConnTyped, Moved
<1>2. CASE Connections(PageNext)
  BY <1>2, ServeListEnds, PollFiresEnds, ListArrivesEnds, ClickEnds,
     ServeClickEnds, ClickCommittedEnds, ClickFailsEnds, ClickArrivesEnds,
     DialogEnds
  DEF Connections, PageNext, ClickMoves
<1>3. CASE InventoryStep \/ InventoryOpened
  BY <1>1, <1>3
  DEF InventoryStep, InventoryNext, InventoryOpened, Asks, ReadScope, Count,
      Select, Fails, Arrives, Previous, Following, ChooseFilter, serverVars
<1>4. CASE Open
  BY <1>4, FreshEnds, CallsTyped DEF Open, serverVars
<1>5. CASE ConnectionsOpened
  <2>1. PICK k \in Calls : Fresh([Blank.call EXCEPT ![k].kind = "reload"])
    BY <1>5 DEF ConnectionsOpened
  <2> DEFINE sent == [Blank.call[k] EXCEPT !.kind = "reload"]
             calls == [Blank.call EXCEPT ![k] = sent]
  <2>2. Blank.call[k] \in Call /\ Blank.call[k].recorded = {}
    BY CallsTyped
  <2>3. sent \in Call /\ sent.recorded = {}
    BY <2>2 DEF Call
  <2>4. [Blank.call EXCEPT ![k].kind = "reload"] = calls
    OBVIOUS
  <2> HIDE DEF sent
  <2>5. calls \in [Calls -> Call] /\ \A j \in Calls : calls[j].recorded = {}
    BY <2>3, CallsTyped
  <2> HIDE DEF calls
  <2> QED
    BY <1>5, <2>1, <2>4, <2>5, FreshEnds DEF ConnectionsOpened, serverVars
<1>6. CASE SignedOut \/ SignedIn
  BY <1>1, <1>6 DEF SignedOut, SignedIn, serverVars
<1>7. ASSUME NEW c \in Ids,
             \/ Elsewhere(Progress(c))
             \/ Elsewhere(BeginElsewhere(c) \/ CreateRow(c) \/ RemoveRow(c))
      PROVE  ConnTyped' /\ EndsOK'
  <2>1. table' \in [Ids -> Entry] /\ \A d \in Ids : Moved(table[d], table'[d])
    BY <1>7, ServerMoves DEF Elsewhere, Progress, ConnTyped
  <2> QED
    BY <1>7, <2>1, OthersEnd DEF Elsewhere
<1>8. CASE Regranted
  BY <1>1, <1>8 DEF Regranted, ScopesChange, Regrant
<1>9. CASE UNCHANGED vars
  BY <1>1, <1>9 DEF vars, serverVars
<1> QED
  BY <1>2, <1>3, <1>4, <1>5, <1>6, <1>7, <1>8, <1>9 DEF Next

LEMMA EndsInit == Init => ConnTyped /\ EndsOK
<1> SUFFICES ASSUME Init PROVE ConnTyped /\ EndsOK
  OBVIOUS
<1>1. /\ list = Blank.list /\ greyed = {} /\ collecting = {}
      /\ call = Blank.call /\ click = [c \in Ids |-> NoPost]
  BY DEF Init, PageInit, Blank
<1>2. PICK old \in SUBSET Ids, failed \in SUBSET Ids :
        table = [c \in Ids |-> [NewEntry(IF c \in old THEN "there" ELSE "unborn")
                                 EXCEPT !.error = c \in failed]]
  BY DEF Init, ServerInit
<1>3. ASSUME NEW c \in Ids
      PROVE  table[c] \in Entry /\ table[c].job = "none"
  <2> DEFINE state == IF c \in old THEN "there" ELSE "unborn"
             bad == c \in failed
  <2>1. table[c] = [NewEntry(state) EXCEPT !.error = bad]
    BY <1>2
  <2>2. state \in {"unborn", "there", "gone"} /\ bad \in BOOLEAN
    OBVIOUS
  <2> HIDE DEF state, bad
  <2>3. table[c] = [there |-> state, success |-> 0, error |-> bad,
                    job |-> "none", ended |-> TRUE]
    BY <2>1 DEF NewEntry
  <2> QED
    BY <2>2, <2>3 DEF Entry
<1>4. table \in [Ids -> Entry]
  BY <1>2, <1>3
<1>5. ConnTyped
  BY <1>1, <1>4, CallsTyped DEF ConnTyped, NoPost
<1>6. \A c \in Ids : ~Asked(c)
  BY <1>1 DEF Asked, NoPost, Stages
<1>7. \A k \in Calls : call[k].recorded = {}
  BY <1>1, CallsTyped
<1> QED
  BY <1>1, <1>3, <1>5, <1>6, <1>7 DEF EndsOK, RowKept

\* Only a poll that arrives takes a connection out of what is waited for, while
\* the document stays.
LEMMA WaitsLess ==
    ASSUME [Next]_vars, NEW c, c \in collecting, c \notin collecting'
    PROVE  list' = Blank.list \/ \E k \in Calls : PollArrives(k)
<1>1. CASE Connections(PageNext)
  <2>1. ASSUME NEW k \in Calls,
               \/ ServeList(k) \/ PollFires(k) \/ Save(k)
               \/ \E d \in Ids : ConfirmDelete(d, k)
        PROVE  FALSE
    BY <2>1 DEF ServeList, PollFires, Save, ConfirmDelete, waits
  <2>2. ASSUME NEW d \in Ids, Click(d) \/ ClickMoves(d) PROVE FALSE
    BY <2>2
    DEF Click, ClickMoves, ServeClick, ClickCommitted, ClickFails, ClickArrives,
        waits
  <2>3. ASSUME NEW k \in Calls, ReloadArrives(k) PROVE FALSE
    BY <2>3 DEF ReloadArrives, waits
  <2> QED
    BY <1>1, <2>1, <2>2, <2>3 DEF Connections, PageNext, ListArrives
<1>2. CASE ConnectionsOpened \/ Open
  BY <1>2 DEF ConnectionsOpened, Open, Fresh, connVars, waits
<1>3. CASE UNCHANGED collecting
  BY <1>3
<1>4. ASSUME NEW step, Elsewhere(step) PROVE FALSE
  BY <1>4 DEF Elsewhere, connVars, waits
<1> QED
  BY <1>1, <1>2, <1>3, <1>4
  DEF Next, vars, connVars, waits, InventoryStep, InventoryOpened, SignedOut,
      SignedIn, Regranted

\* When a poll that was answered after the attempt had been committed tells the
\* end of a collection that the page has waited for all the while, and tells a
\* failure or compares with an up to date list, that collection is over; however
\* polls, clicks and collections of others interleave (connections.js: a change
\* of last_success_at, or a last_error).  Of a poll that was answered before the
\* attempt was committed it says nothing.
THEOREM RecordedReportsTold == Spec => RecordedReportsAreTrue
<1>1. ConnTyped /\ EndsOK /\ [Next]_vars =>
      [\A k \in Calls, c \in Ids :
         /\ Reports(k, c)
         /\ c \in call[k].recorded /\ call[k].stage = "read"
         /\ \/ call[k].answer[c].error
            \/ call[k].before[c] = table[c].success
         => table[c].ended]_<<connVars, serverVars>>
  <2> SUFFICES ASSUME ConnTyped, EndsOK, [Next]_vars,
                      NEW k \in Calls, NEW c \in Ids, Reports(k, c),
                      c \in call[k].recorded, call[k].stage = "read",
                      \/ call[k].answer[c].error
                      \/ call[k].before[c] = table[c].success,
                      ~table[c].ended
               PROVE  FALSE
    OBVIOUS
  <2>1. /\ call[k].kind = "poll" /\ call'[k].kind = "none"
        /\ c \in collecting /\ c \notin collecting'
        /\ list' = call[k].answer /\ call[k].answer[c].there
    BY DEF Reports, Reloaded
  <2>2. ~call[k].answer[c].error /\ call[k].answer[c].success = table[c].success
    BY <2>1 DEF EndsOK, PollTrue
  <2>3. list' # Blank.list
    BY <2>1 DEF Blank, Nowhere
  <2>4. PICK j \in Calls : PollArrives(j)
    BY <2>1, <2>3, WaitsLess
  <2>5. j = k
    <3>1. CASE j # k
      <4>1. /\ call[k] \in Call
            /\ call'[k] = [call[k] EXCEPT
                            !.recorded = @ \cap (collecting \ Settled(j, Reloaded(j)))]
        BY <2>4, <3>1 DEF PollArrives, ConnTyped
      <4>2. call'[k].kind = call[k].kind
        BY <4>1 DEF Call
      <4> QED
        BY <2>1, <4>2
    <3> QED
      BY <3>1
  <2>6. c \in Settled(k, call[k].answer)
    BY <2>1, <2>4, <2>5 DEF PollArrives, Reloaded
  <2> QED
    BY <2>2, <2>6 DEF Settled
<1> QED
  BY <1>1, EndsInit, EndsStep, PTL DEF Spec, RecordedReportsAreTrue

-----------------------------------------------------------------------------
(* What the list tells is what collections report                          *)

Told(there, success, error, job, machines) ==
    [there |-> there, success |-> success, error |-> error, job |-> job,
     machines |-> machines]

\* The line of the report for a row `e' and the machines `m'.
Line(e, m) == Told(e.there, e.success, IF e.error THEN "told" ELSE "none",
                   e.job, m)

LEMMA ReportLines ==
    ASSUME NEW c \in Ids
    PROVE  Reported[c] = Line(table[c], vms \cap VmsOf(c))
BY DEF Reported, Line, Told

LEMMA OneLineMoves ==
    ASSUME NEW c \in Ids, NEW f, NEW n,
           Report!Moves(Line(table[c], vms \cap VmsOf(c)), Line(f, n)),
           table' = [table EXCEPT ![c] = f], table \in [Ids -> Entry],
           vms' \cap VmsOf(c) = n,
           \A d \in Ids \ {c} : vms' \cap VmsOf(d) = vms \cap VmsOf(d)
    PROVE  Report!Next
<1>1. \A d \in Ids : table'[d] = IF d = c THEN f ELSE table[d]
  OBVIOUS
<1>2. Reported'[c] = Line(f, n)
  BY <1>1 DEF Reported, Line, Told, VmsOf
<1>3. \A d \in Ids \ {c} : Reported'[d] = Reported[d]
  BY <1>1 DEF Reported, VmsOf
<1>4. /\ Reported' = [d \in Ids |-> Reported'[d]]
      /\ Reported = [d \in Ids |-> Reported[d]]
  BY DEF Reported
<1>5. Reported' = [Reported EXCEPT ![c] = Reported'[c]]
  BY <1>3, <1>4
<1>6. Report!Moves(Reported[c], Reported'[c])
  BY <1>2, ReportLines
<1> QED
  BY <1>5, <1>6 DEF Report!Next, Report!Move

LEMMA LinesKept ==
    ASSUME UNCHANGED vms,
           \A c \in Ids : /\ table'[c].there = table[c].there
                          /\ table'[c].success = table[c].success
                          /\ table'[c].error = table[c].error
                          /\ table'[c].job = table[c].job
    PROVE  UNCHANGED Reported
BY DEF Reported, VmsOf

\* The steps of the report on lines.
LEMMA BeginTold ==
    ASSUME NEW s, NEW x, NEW m
    PROVE  Report!Begins(Told("there", s, x, "none", m),
                         Told("there", s, x, "starting", m))
BY DEF Told, Report!Begins

LEMMA GoneTold ==
    ASSUME NEW t, t # "there", NEW s, NEW x, NEW m, NEW j,
           j \in {"starting", "running"}
    PROVE  \/ Report!GivesUp(Told(t, s, x, j, m), Told(t, s, x, "none", m))
           \/ Report!Vanishes(Told(t, s, x, j, m), Told(t, s, x, "none", m))
<1>1. CASE j = "starting"
  BY <1>1 DEF Told, Report!GivesUp
<1>2. CASE j = "running"
  BY <1>2 DEF Told, Report!Vanishes
<1> QED
  BY <1>1, <1>2

LEMMA MissTold ==
    ASSUME NEW t, t # "there", NEW s, NEW x, NEW m
    PROVE  Report!Misses(Told(t, s, x, "starting", m),
                         Told(t, s, x, "running", m))
BY DEF Told, Report!Misses

LEMMA CreatedTold ==
    ASSUME NEW s, NEW x, NEW j, NEW m
    PROVE  Report!Created(Told("unborn", s, x, j, m),
                          Told("there", s, x, j, m))
BY DEF Told, Report!Created

LEMMA DeletedTold ==
    ASSUME NEW s, NEW x, NEW j
    PROVE  Report!Deleted(Told("there", s, x, j, {}),
                          Told("gone", s, x, j, {}))
BY DEF Told, Report!Deleted

LEMMA AttemptTold ==
    ASSUME NEW s, NEW x, NEW m
    PROVE  Report!Attempts(Told("there", s, x, "starting", m),
                           Told("there", s, "none", "running", m))
<1> DEFINE e == Told("there", s, x, "starting", m)
<1>1. [e EXCEPT !.job = "running", !.error = "none"]
        = [k \in DOMAIN e |-> IF k = "job" THEN "running"
                              ELSE IF k = "error" THEN "none" ELSE e[k]]
  OBVIOUS
<1>2. @ = Told("there", s, "none", "running", m)
  BY DEF Told
<1>3. e.job = "starting" /\ e.there = "there"
  BY DEF Told
<1> QED
  BY <1>1, <1>2, <1>3 DEF Report!Attempts

LEMMA SuccessTold ==
    ASSUME NEW s, NEW x, NEW m, NEW u, s < u, NEW n, m \subseteq n
    PROVE  Report!Succeeds(Told("there", s, x, "running", m),
                           Told("there", u, "none", "none", n))
<1> DEFINE e == Told("there", s, x, "running", m)
           f == Told("there", u, "none", "none", n)
<1>1. [e EXCEPT !.job = "none", !.error = "none", !.success = u,
                !.machines = n]
        = [k \in DOMAIN e |-> IF k = "job" THEN "none"
                              ELSE IF k = "error" THEN "none"
                              ELSE IF k = "success" THEN u
                              ELSE IF k = "machines" THEN n ELSE e[k]]
  OBVIOUS
<1>2. @ = f
  BY DEF Told
<1>3. /\ e.job = "running" /\ e.there = "there" /\ e.machines = m
      /\ f.success = u /\ f.machines = n /\ e.success = s
  BY DEF Told
<1> HIDE DEF e, f
<1>4. Report!Succeeds(e, f)
  BY <1>1, <1>2, <1>3 DEF Report!Succeeds, Report!Ends
<1> QED
  BY <1>4 DEF e, f

LEMMA FailureTold ==
    ASSUME NEW s, NEW x, NEW m, NEW n, m \subseteq n
    PROVE  Report!Fails(Told("there", s, x, "running", m),
                        Told("there", s, "told", "none", n))
<1> DEFINE e == Told("there", s, x, "running", m)
           f == Told("there", s, "told", "none", n)
<1>1. [e EXCEPT !.job = "none", !.error = "told", !.machines = n]
        = [k \in DOMAIN e |-> IF k = "job" THEN "none"
                              ELSE IF k = "error" THEN "told"
                              ELSE IF k = "machines" THEN n ELSE e[k]]
  OBVIOUS
<1>2. @ = f
  BY DEF Told
<1>3. /\ e.job = "running" /\ e.there = "there" /\ e.machines = m
      /\ f.machines = n
  BY DEF Told
<1> HIDE DEF e, f
<1>4. Report!Fails(e, f)
  BY <1>1, <1>2, <1>3 DEF Report!Fails, Report!Ends
<1> QED
  BY <1>4 DEF e, f

\* What the row of a connection becomes when its collection begins, is
\* recorded, given up or over, and when the row is made or deleted.
LEMMA RowMoves ==
    ASSUME table \in [Ids -> Entry], NEW c \in Ids, UNCHANGED vms,
           \/ \E asked \in BOOLEAN : Begin(c, asked)
           \/ MarkAttempt(c) \/ CreateRow(c) \/ RemoveRow(c)
           \/ End(c) /\ ~There(c)
    PROVE  Report!Next
<1> DEFINE e == table[c]
           m == vms \cap VmsOf(c)
           x == IF e.error THEN "told" ELSE "none"
<1>e. e \in Entry /\ Line(e, m) = Told(e.there, e.success, x, e.job, m)
  BY DEF Line
<1>m. \A d \in Ids : vms' \cap VmsOf(d) = vms \cap VmsOf(d)
  BY DEF VmsOf
<1>move. ASSUME NEW f, table' = [table EXCEPT ![c] = f],
                Report!Moves(Line(e, m), Line(f, m))
         PROVE  Report!Next
  BY <1>m, <1>move, OneLineMoves
<1>1. ASSUME NEW asked \in BOOLEAN, Begin(c, asked) PROVE Report!Next
  <2> DEFINE f == [e EXCEPT !.job = "starting",
                            !.ended = IF asked THEN FALSE ELSE @]
  <2>1. /\ table' = [table EXCEPT ![c] = f]
        /\ e.there = "there" /\ e.job = "none"
    BY <1>1 DEF Begin, There
  <2>2. /\ f.there = "there" /\ f.success = e.success /\ f.error = e.error
        /\ f.job = "starting"
    BY <1>e, <2>1 DEF Entry
  <2> HIDE DEF f
  <2>3. Line(f, m) = Told("there", e.success, x, "starting", m)
    BY <2>2 DEF Line
  <2>4. Line(e, m) = Told("there", e.success, x, "none", m)
    BY <1>e, <2>1
  <2>5. Report!Begins(Line(e, m), Line(f, m))
    BY <2>3, <2>4, BeginTold
  <2> QED
    BY <1>move, <2>1, <2>5 DEF Report!Moves
<1>2. ASSUME e.job \in {"starting", "running"}, e.there # "there",
             table' = [table EXCEPT ![c].job = "none"]
      PROVE  Report!Next
  <2> DEFINE f == [e EXCEPT !.job = "none"]
  <2>1. table' = [table EXCEPT ![c] = f]
    BY <1>2
  <2>2. /\ f.there = e.there /\ f.success = e.success /\ f.error = e.error
        /\ f.job = "none"
    BY <1>e DEF Entry
  <2> HIDE DEF f
  <2>3. Line(f, m) = Told(e.there, e.success, x, "none", m)
    BY <2>2 DEF Line
  <2>5. \/ Report!GivesUp(Line(e, m), Line(f, m))
        \/ Report!Vanishes(Line(e, m), Line(f, m))
    BY <1>2, <1>e, <2>3, GoneTold
  <2> QED
    BY <1>move, <2>1, <2>5 DEF Report!Moves
<1>3. CASE MarkAttempt(c)
  <2>1. CASE There(c)
    <3> DEFINE f == Attempted(e)
    <3>1. /\ table' = [table EXCEPT ![c] = f]
          /\ e.there = "there" /\ e.job = "starting"
      BY <1>3, <2>1 DEF MarkAttempt, There
    <3>2. /\ f.there = "there" /\ f.success = e.success /\ f.error = FALSE
          /\ f.job = "running"
      BY <1>e, <3>1 DEF Entry, Attempted
    <3> HIDE DEF f
    <3>3. Line(f, m) = Told("there", e.success, "none", "running", m)
      BY <3>2 DEF Line
    <3>4. Line(e, m) = Told("there", e.success, x, "starting", m)
      BY <1>e, <3>1
    <3>5. Report!Attempts(Line(e, m), Line(f, m))
      BY <3>3, <3>4, AttemptTold
    <3> QED
      BY <1>move, <3>1, <3>5 DEF Report!Moves
  <2>2. CASE ~There(c)
    <3>1. CASE table' = [table EXCEPT ![c].job = "none"]
      BY <1>2, <1>3, <2>2, <3>1 DEF MarkAttempt, There
    <3>2. CASE table' = [table EXCEPT ![c].job = "running"]
      <4> DEFINE f == [e EXCEPT !.job = "running"]
      <4>1. /\ table' = [table EXCEPT ![c] = f]
            /\ e.there # "there" /\ e.job = "starting"
        BY <1>3, <2>2, <3>2 DEF MarkAttempt, There
      <4>2. /\ f.there = e.there /\ f.success = e.success
            /\ f.error = e.error /\ f.job = "running"
        BY <1>e DEF Entry
      <4> HIDE DEF f
      <4>3. Line(f, m) = Told(e.there, e.success, x, "running", m)
        BY <4>2 DEF Line
      <4>4. Line(e, m) = Told(e.there, e.success, x, "starting", m)
        BY <1>e, <4>1
      <4>5. Report!Misses(Line(e, m), Line(f, m))
        BY <4>1, <4>3, <4>4, MissTold
      <4> QED
        BY <1>move, <4>1, <4>5 DEF Report!Moves
    <3> QED
      BY <1>3, <2>2, <3>1, <3>2 DEF MarkAttempt
  <2> QED
    BY <2>1, <2>2
<1>4. CASE End(c) /\ ~There(c)
  BY <1>2, <1>4 DEF End, There
<1>5. CASE CreateRow(c)
  <2> DEFINE f == [e EXCEPT !.there = "there"]
  <2>1. table' = [table EXCEPT ![c] = f] /\ e.there = "unborn"
    BY <1>5 DEF CreateRow
  <2>2. /\ f.there = "there" /\ f.success = e.success /\ f.error = e.error
        /\ f.job = e.job
    BY <1>e DEF Entry
  <2> HIDE DEF f
  <2>3. Line(f, m) = Told("there", e.success, x, e.job, m)
    BY <2>2 DEF Line
  <2>4. Line(e, m) = Told("unborn", e.success, x, e.job, m)
    BY <1>e, <2>1
  <2>5. Report!Created(Line(e, m), Line(f, m))
    BY <2>3, <2>4, CreatedTold
  <2> QED
    BY <1>move, <2>1, <2>5 DEF Report!Moves
<1>6. CASE RemoveRow(c)
  <2> DEFINE f == [e EXCEPT !.there = "gone"]
  <2>1. table' = [table EXCEPT ![c] = f] /\ e.there = "there" /\ m = {}
    BY <1>6 DEF RemoveRow, Deletable, There
  <2>2. /\ f.there = "gone" /\ f.success = e.success /\ f.error = e.error
        /\ f.job = e.job
    BY <1>e DEF Entry
  <2> HIDE DEF f
  <2>3. Line(f, m) = Told("gone", e.success, x, e.job, m)
    BY <2>2 DEF Line
  <2>4. Line(e, m) = Told("there", e.success, x, e.job, {})
    BY <1>e, <2>1
  <2>5. Report!Deleted(Line(e, m), Line(f, m))
    BY <2>1, <2>3, <2>4, DeletedTold
  <2> QED
    BY <1>move, <2>1, <2>5 DEF Report!Moves
<1> QED
  BY <1>1, <1>3, <1>4, <1>5, <1>6

\* The end of a collection comes with its result and its machines.
LEMMA EndTold ==
    ASSUME table \in [Ids -> Entry], NEW c \in Ids, End(c), There(c)
    PROVE  Report!Next
<1> DEFINE e == table[c]
           m == vms \cap VmsOf(c)
           n == vms' \cap VmsOf(c)
           x == IF e.error THEN "told" ELSE "none"
<1>1. PICK f \in Results(e) : table' = [table EXCEPT ![c] = f]
  BY DEF End
<1>2. vms' \in {vms, vms \cup VmsOf(c)}
  BY DEF End
<1>3. /\ m \subseteq n
      /\ \A d \in Ids \ {c} : vms' \cap VmsOf(d) = vms \cap VmsOf(d)
  BY <1>2 DEF VmsOf
<1>4. e \in Entry /\ e.there = "there" /\ e.job = "running"
  BY DEF End, There
<1>5. Line(e, m) = Told("there", e.success, x, "running", m)
  BY <1>4 DEF Line
<1>6. \/ /\ f.there = "there" /\ f.job = "none" /\ f.error = FALSE
         /\ f.success = e.success + 1
      \/ /\ f.there = "there" /\ f.job = "none" /\ f.error = TRUE
         /\ f.success = e.success
  BY <1>4 DEF Results, Entry
<1>7. \/ Line(f, n) = Told("there", e.success + 1, "none", "none", n)
      \/ Line(f, n) = Told("there", e.success, "told", "none", n)
  BY <1>6 DEF Line
<1>8. e.success < e.success + 1
  BY <1>4 DEF Entry
<1> HIDE DEF m, n, x, e
<1>9. \/ Report!Succeeds(Line(e, m), Line(f, n))
      \/ Report!Fails(Line(e, m), Line(f, n))
  BY <1>3, <1>5, <1>7, <1>8, SuccessTold, FailureTold
<1>10. Report!Moves(Line(e, m), Line(f, n))
  BY <1>9 DEF Report!Moves
<1> QED
  BY <1>1, <1>3, <1>10, OneLineMoves DEF m, n, e

\* A click registers a collection, is told of one that runs, or is committed.
LEMMA ClickTold ==
    ASSUME ConnTyped, NEW c \in Ids, Click(c) \/ ClickMoves(c)
    PROVE  [Report!Next]_Reported
<1>1. CASE ServeClick(c) /\ BeginHere(c)
  BY <1>1, RowMoves DEF BeginHere, Begin, ConnTyped
<1>2. CASE ServeClick(c) /\ table' = [table EXCEPT ![c].ended = FALSE]
                         /\ UNCHANGED vms
  <2>1. \A d \in Ids : /\ table'[d].there = table[d].there
                       /\ table'[d].success = table[d].success
                       /\ table'[d].error = table[d].error
                       /\ table'[d].job = table[d].job
    BY <1>2 DEF ConnTyped, Entry
  <2> QED
    BY <1>2, <2>1, LinesKept
<1>3. CASE ClickCommitted(c)
  BY <1>3, RowMoves DEF ClickCommitted, MarkAttempt, ConnTyped
<1>4. CASE Click(c) \/ ClickFails(c) \/ ClickArrives(c)
  BY <1>4, LinesKept DEF Click, ClickFails, ClickArrives, serverVars
<1> QED
  BY <1>1, <1>2, <1>3, <1>4 DEF ServeClick, ClickMoves

LEMMA TellStep ==
    ASSUME ConnTyped, [Next]_vars
    PROVE  [Report!Next]_Reported
<1>1. ASSUME UNCHANGED <<table, vms>> PROVE UNCHANGED Reported
  BY <1>1, LinesKept
<1>2. CASE Connections(PageNext)
  <2>1. ASSUME NEW c \in Ids, CreateRow(c) \/ RemoveRow(c)
        PROVE  [Report!Next]_Reported
    BY <2>1, RowMoves DEF CreateRow, RemoveRow, ConnTyped
  <2>2. ASSUME NEW k \in Calls, Save(k) \/ \E c \in Ids : ConfirmDelete(c, k)
        PROVE  [Report!Next]_Reported
    BY <2>1, <2>2 DEF Save, ConfirmDelete
  <2>3. ASSUME NEW k \in Calls,
               ServeList(k) \/ ListArrives(k) \/ PollFires(k)
        PROVE  [Report!Next]_Reported
    BY <1>1, <2>3
    DEF ServeList, ListArrives, ReloadArrives, PollArrives, Returns, PollFires,
        serverVars
  <2> QED
    BY <1>2, <2>2, <2>3, ClickTold DEF Connections, PageNext
<1>3. CASE InventoryStep \/ InventoryOpened
  BY <1>1, <1>3
  DEF InventoryStep, InventoryNext, InventoryOpened, Asks, ReadScope, Count,
      Select, Fails, Arrives, Previous, Following, ChooseFilter, serverVars
<1>4. CASE ConnectionsOpened \/ SignedOut \/ SignedIn \/ Open
  BY <1>1, <1>4 DEF ConnectionsOpened, SignedOut, SignedIn, Open, serverVars
<1>5. ASSUME NEW c \in Ids,
             \/ Elsewhere(Progress(c))
             \/ Elsewhere(BeginElsewhere(c) \/ CreateRow(c) \/ RemoveRow(c))
      PROVE  [Report!Next]_Reported
  <2>1. CASE End(c)
    <3>1. CASE There(c)
      BY <2>1, <3>1, EndTold DEF ConnTyped
    <3>2. CASE ~There(c)
      BY <2>1, <3>2, RowMoves DEF End, There, ConnTyped
    <3> QED
      BY <3>1, <3>2
  <2>2. CASE MarkAttempt(c) \/ CreateRow(c) \/ RemoveRow(c)
    BY <2>2, RowMoves DEF MarkAttempt, CreateRow, RemoveRow, ConnTyped
  <2>3. CASE BeginElsewhere(c)
    BY <2>3, RowMoves DEF BeginElsewhere, Begin, ConnTyped
  <2> QED
    BY <1>5, <2>1, <2>2, <2>3 DEF Elsewhere, Progress
<1>6. CASE Regranted
  BY <1>1, <1>6 DEF Regranted, ScopesChange, Regrant
<1>7. CASE UNCHANGED vars
  BY <1>1, <1>7 DEF vars, serverVars
<1> QED
  BY <1>2, <1>3, <1>4, <1>5, <1>6, <1>7 DEF Next

LEMMA TellInit == Init => Report!Init
<1> SUFFICES ASSUME Init, NEW c \in Ids
             PROVE  /\ Reported[c].there \in {"unborn", "there"}
                    /\ Reported[c].success \in Nat
                    /\ Reported[c].error \in {"none", "told"}
                    /\ Reported[c].job = "none"
  BY DEF Report!Init
<1>1. PICK old \in SUBSET Ids, failed \in SUBSET Ids :
        table = [d \in Ids |-> [NewEntry(IF d \in old THEN "there" ELSE "unborn")
                                 EXCEPT !.error = d \in failed]]
  BY DEF Init, ServerInit
<1> DEFINE there == IF c \in old THEN "there" ELSE "unborn"
<1>2. /\ table[c].there = there /\ table[c].success = 0
      /\ table[c].job = "none"
  BY <1>1 DEF NewEntry
<1>3. /\ Reported[c].there = table[c].there
      /\ Reported[c].success = table[c].success
      /\ Reported[c].error = IF table[c].error THEN "told" ELSE "none"
      /\ Reported[c].job = table[c].job
  BY DEF Reported
<1> QED
  BY <1>2, <1>3

\* What the server of the browser tells of collections is what collections
\* tell (CollectionProofs!OneWorkerReports), when every attempt and every end
\* is recorded: the page is shown to work against no other server.
THEOREM ServerReports == Spec => ImplementsReport
<1>1. [](ConnTyped /\ EndsOK) /\ [][Next]_vars => [][Report!Next]_Reported
  BY TellStep, PTL
<1> QED
  BY <1>1, EndsInit, EndsStep, TellInit, PTL
  DEF Spec, ImplementsReport, Report!Spec
=============================================================================
