--------------------------- MODULE ConnectionsPage ---------------------------
(***************************************************************************)
(* static/js/connections.js in one tab of an administrator: the list as it *)
(* was last drawn, the connections whose collection the page waits for,    *)
(* the timer that polls the list, and the calls that are in flight.  An    *)
(* event handler runs to its next await without interruption; calls are    *)
(* served and answered in any order, or fail.                              *)
(***************************************************************************)
EXTENDS CollectionServer

CONSTANTS
    Calls,      \* bound: places for GET /connections in flight, numbers
    MaxPosts,   \* bound: POST .../collect in flight
    Undefined   \* what a Map answers for a key it does not have

VARIABLES
    list,       \* page.connections, as drawn
    greyed,     \* connections whose [collect now] was drawn disabled
    collecting, \* page.collecting
    timer,      \* page.pollTimer is set
    intervals,  \* setInterval timers alive
    call,       \* the calls of the list in flight
    click       \* how many calls that start a collection are in flight, of
                \* each connection and at each stage

drawn == <<list, greyed>>
waits == <<collecting, timer, intervals>>
connVars == <<drawn, waits, click, call>>

-----------------------------------------------------------------------------
(* The list                                                                *)

Shown == [there : BOOLEAN, success : Nat, error : BOOLEAN]

Nowhere == [there |-> FALSE, success |-> 0, error |-> FALSE]

Lists == [Ids -> Shown]

\* What GET /connections answers.
Listing == [c \in Ids |-> IF There(c)
                          THEN [there |-> TRUE, success |-> table[c].success,
                                error |-> table[c].error]
                          ELSE Nowhere]

Call == [kind : {"none", "reload", "poll"},
         before : [Ids -> Nat \cup {Undefined}],
         stage : {"sent", "read"},
         answer : Lists,
         recorded : SUBSET Ids]     \* history: waited for all the while, with
                                    \* no click on its way when it was sent, and
                                    \* the attempt committed by its answer

NoCall == [kind |-> "none", before |-> [c \in Ids |-> Undefined],
           stage |-> "sent", answer |-> [c \in Ids |-> Nowhere],
           recorded |-> {}]

\* A POST .../collect: on its way, at work with the registration it made, or
\* answered 202 and the answer on its way.
Stages == {"sent", "began", "accepted"}

NoPost == [s \in Stages |-> 0]

PageTypeOK ==
    /\ list \in Lists
    /\ greyed \in SUBSET Ids
    /\ collecting \in SUBSET Ids
    /\ timer \in BOOLEAN
    /\ intervals \in Nat
    /\ call \in [Calls -> Call]
    /\ click \in [Ids -> [Stages -> Nat]]

\* A document that has just been loaded.
Blank ==
    [list |-> [c \in Ids |-> Nowhere], call |-> [k \in Calls |-> NoCall],
     click |-> [c \in Ids |-> NoPost]]

PageInit ==
    /\ list = Blank.list
    /\ greyed = {}
    /\ collecting = {}
    /\ timer = FALSE
    /\ intervals = 0
    /\ call = Blank.call
    /\ click = Blank.click

\* The document goes away and a new one begins; `calls' are its first.
Fresh(calls) ==
    /\ list' = Blank.list
    /\ greyed' = {}
    /\ collecting' = {}
    /\ timer' = FALSE
    /\ intervals' = 0
    /\ call' = calls
    /\ click' = Blank.click

\* A new call takes the lowest place.
Free(k) == /\ call[k].kind = "none"
           /\ \A j \in Calls : j < k => call[j].kind # "none"

\* reload() up to its await
Reloading(k) ==
    /\ Free(k)
    /\ call' = [call EXCEPT ![k] = [NoCall EXCEPT !.kind = "reload"]]

\* The server reads the list.
ServeList(k) ==
    /\ call[k].kind # "none" /\ call[k].stage = "sent"
    /\ call' = [call EXCEPT ![k].stage = "read", ![k].answer = Listing,
                 ![k].recorded = {c \in call[k].recorded :
                                    table[c].job # "starting"}]
    /\ UNCHANGED <<drawn, waits, click, serverVars>>

\* The call is over: with its answer, or it fails on one of its ways.
Returns(k) == /\ IF call[k].stage = "read" THEN UNCHANGED events ELSE Event
              /\ UNCHANGED <<table, vms, grants>>

\* page.connections after reload(): the answer, or what it was.
Reloaded(k) == IF call[k].stage = "read" THEN call[k].answer ELSE list

\* A reload that is not a poll's.
ReloadArrives(k) ==
    /\ call[k].kind = "reload" /\ Returns(k)
    /\ list' = Reloaded(k)
    /\ greyed' = IF call[k].stage = "read" THEN collecting ELSE greyed
    /\ call' = [call EXCEPT ![k] = NoCall]
    /\ UNCHANGED <<waits, click>>

-----------------------------------------------------------------------------
(* Polling                                                                 *)

\* No click on c is on its way or waits for its answer.
Quiet(c) == click[c] = NoPost

\* The interval elapses: what is drawn is remembered and the list is asked for.
PollFires(k) ==
    /\ intervals > 0 /\ Free(k)
    /\ call' = [call EXCEPT ![k] =
                  [NoCall EXCEPT !.kind = "poll",
                     !.before = [c \in Ids |-> IF list[c].there
                                               THEN list[c].success
                                               ELSE Undefined],
                     !.recorded = {c \in collecting : Quiet(c)}]]
    /\ UNCHANGED <<drawn, waits, click, serverVars>>

\* Mutant: a failure is not looked for.
SettledOnSuccess(k, now) ==
    {c \in collecting : /\ now[c].there
                        /\ call[k].before[c] # now[c].success}

\* The waited for connections of which the poll reports an end.
Settled(k, now) ==
    {c \in collecting : /\ now[c].there
                        /\ \/ call[k].before[c] # now[c].success
                           \/ now[c].error}

\* clearInterval(page.pollTimer): nothing happens if it is null.
StopPolling ==
    /\ timer' = FALSE
    /\ intervals' = IF timer THEN intervals - 1 ELSE intervals

PollArrives(k) ==
    LET now == Reloaded(k)
        left == collecting \ Settled(k, now)
    IN
    /\ call[k].kind = "poll" /\ Returns(k)
    /\ list' = now
    /\ collecting' = left
    /\ greyed' = IF left = {} THEN {}
                 ELSE IF call[k].stage = "read" THEN collecting ELSE greyed
    /\ IF left = {} THEN StopPolling ELSE UNCHANGED <<timer, intervals>>
    /\ call' = [j \in Calls |-> IF j = k THEN NoCall
                               ELSE [call[j] EXCEPT !.recorded = @ \cap left]]
    /\ UNCHANGED click

-----------------------------------------------------------------------------
(* [collect now]                                                           *)

\* The calls in flight, numbered within their connection and stage.
Posted == {p \in Ids \X Stages \X (1..MaxPosts) : p[3] <= click[p[1]][p[2]]}

\* One of the calls for c leaves the stage.
Leaves(c, s) == click[c][s] > 0 /\ click' = [click EXCEPT ![c][s] = @ - 1]

Passes(c, s, t) == /\ click[c][s] > 0
                   /\ click' = [click EXCEPT ![c][s] = @ - 1, ![c][t] = @ + 1]

\* startCollection() up to its await: the button stays as it is drawn, so a
\* second click may follow before the answer to the first.
Click(c) ==
    /\ list[c].there /\ c \notin greyed
    /\ Cardinality(Posted) < MaxPosts
    /\ click' = [click EXCEPT ![c]["sent"] = @ + 1]
    /\ UNCHANGED <<drawn, waits, call, serverVars>>

\* The server registers the collection, or answers that one is registered.
ServeClick(c) ==
    /\ \/ BeginHere(c) /\ Passes(c, "sent", "began")
       \/ /\ table[c].job # "none"         \* already_running, 202 as well
          /\ Passes(c, "sent", "accepted")
          /\ table' = [table EXCEPT ![c].ended = FALSE]
          /\ UNCHANGED <<vms, grants, events>>
    /\ UNCHANGED <<drawn, waits, call>>

\* The task is queued and the answer is 202, or the row is gone and it is 404.
ClickCommitted(c) ==
    /\ MarkAttempt(c)
    /\ IF table'[c].job = "running"
       THEN Passes(c, "began", "accepted") ELSE Leaves(c, "began")
    /\ UNCHANGED <<drawn, waits, call>>

\* The catch: the call is refused, 404 or 5xx, or lost before or after it was
\* served; the server goes on with what it has begun.
ClickFails(c) ==
    /\ \E s \in Stages : Leaves(c, s)
    /\ UNCHANGED <<drawn, waits, call, serverVars>>

\* Mutant: each start sets a timer.
StartPollingAgain == timer' = TRUE /\ intervals' = intervals + 1

\* startPolling()
StartPolling ==
    /\ timer' = TRUE
    /\ intervals' = IF timer THEN intervals ELSE intervals + 1

\* 202: the page waits for the end of the collection, whoever began it.
ClickArrives(c) ==
    /\ Leaves(c, "accepted")
    /\ collecting' = collecting \cup {c}
    /\ greyed' = collecting \cup {c}
    /\ StartPolling
    /\ UNCHANGED <<list, call, serverVars>>

-----------------------------------------------------------------------------
(* [add connection] and [delete].  The dialogs and the refused calls, which *)
(* change nothing but a dialog, are left out; the reload that follows an    *)
(* answer may be under way for as long as one likes, which stands for the   *)
(* time the answer takes, too.                                              *)

Save(k) ==
    /\ \E c \in Ids : CreateRow(c)
    /\ Reloading(k)
    /\ UNCHANGED <<drawn, waits, click>>

ConfirmDelete(c, k) ==
    /\ list[c].there
    /\ RemoveRow(c)
    /\ Reloading(k)
    /\ UNCHANGED <<drawn, waits, click>>

-----------------------------------------------------------------------------
\* What the network and the browser do by themselves.
ListArrives(k) == ReloadArrives(k) \/ PollArrives(k)
ClickMoves(c) == ServeClick(c) \/ ClickCommitted(c) \/ ClickFails(c) \/ ClickArrives(c)

PageNext ==
    \/ \E k \in Calls : \/ ServeList(k) \/ ListArrives(k) \/ PollFires(k)
                        \/ Save(k) \/ \E c \in Ids : ConfirmDelete(c, k)
    \/ \E c \in Ids : Click(c) \/ ClickMoves(c)

-----------------------------------------------------------------------------
(* Properties                                                              *)

\* Whatever the page waits for is polled, by one timer, and once nothing is
\* waited for no timer is left: however starts, polls that overtake each
\* other and reloads interleave (startPolling, connections.js).
PollsWhileWaiting ==
    /\ timer = (collecting # {})
    /\ intervals = IF timer THEN 1 ELSE 0

\* A collection that the page waits for and that is over.
Over(c) == c \in collecting /\ table[c].job = "none"

\* A failure is told: once a collection that the page waits for has failed,
\* the page stops waiting, unless the connection is deleted or the failure is
\* gone from its row because another collection has cleared it (start_collection,
\* routes/connections.py:148).  How long a collection runs does not matter.
FailureIsTold ==
    \A c \in Ids :
      Over(c) /\ There(c) /\ table[c].error
        ~> c \notin collecting \/ ~There(c) \/ ~table[c].error

\* The page shows that it collects until the collection is over, and no longer:
\* polling tells the end (routes/connections.py:148, connections.js:155).
EveryEndIsNoticed == \A c \in Ids : Over(c) ~> ~Over(c)

\* The poll `k' arrives in this step and reports the end of c.
Reports(k, c) ==
    /\ call[k].kind = "poll" /\ call'[k].kind = "none"
    /\ c \in collecting /\ c \notin collecting'
    /\ list' = Reloaded(k) /\ list'[c].there

\* An end that a poll reports is the end of the collection the page waits
\* for, not of an earlier one, if the poll was sent while the page waited, was
\* answered after the attempt of the collection had been committed
\* (mark_attempt clears last_error), and reports a failure or compares with a
\* list that was up to date: until its end a collection does not move
\* last_success_at.  A poll that is answered before the
\* attempt is committed may report an earlier failure: the click was answered
\* "already_running" while another request was between connections.py:160 and
\* the commit of its attempt.
RecordedReportsAreTrue ==
    [][\A k \in Calls, c \in Ids :
         /\ Reports(k, c)
         /\ c \in call[k].recorded /\ call[k].stage = "read"
         /\ \/ call[k].answer[c].error
            \/ call[k].before[c] = table[c].success
         => table[c].ended]_<<connVars, serverVars>>
=============================================================================
