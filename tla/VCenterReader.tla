---------------------------- MODULE VCenterReader ----------------------------
(***************************************************************************)
(* VCenterInventoryReader and the PropertyCollectorReader it reads from:   *)
(* a ContainerView on the server, pages of machines, and the finally that  *)
(* releases the view.  A consumer that stops reading leaves the generator  *)
(* suspended; the event loop closes it later, which runs the finally then. *)
(***************************************************************************)
EXTENDS ReaderState

CONSTANT PageSize       \* settings.collection_page_size

Turns(r) == reader' = r /\ UNCHANGED target

AtVCenter(position) == reader.kind = "vcenter" /\ reader.at = position

\* A generator that nobody reads from any more and that has still its view:
\* of a stream that was dropped, or of the probe of a connection test.
Suspended(r) == r.at \in {"none", "dropped"} /\ r.view

CreateView ==
    /\ AtVCenter("begin")
    /\ Turns([reader EXCEPT !.at = "page", !.view = TRUE, !.rest = Registered,
                            !.answered = Nodes])

\* No ViewManager, or no answer: nothing to release yet.
CreateViewFails ==
    /\ AtVCenter("begin")
    /\ Turns(Ended(reader, TRUE, "reason"))

\* RetrievePropertiesEx and its continuation: a page, a token while there is
\* more, nothing at all when nothing is registered.
RetrievePage(page) ==
    /\ AtVCenter("page")
    /\ page \subseteq reader.rest
    /\ \/ Cardinality(page) = PageSize
       \/ Cardinality(page) < PageSize /\ page = reader.rest
    /\ Turns([reader EXCEPT !.at = "rows", !.rows = page,
                            !.rest = @ \ page])

\* The exception passes the finally before it reaches list_virtual_machines.
RetrieveFails ==
    /\ AtVCenter("page")
    /\ Turns([reader EXCEPT !.at = "release", !.verdict = "failed"])

\* An InvalidLogin in the middle of the stream.
RetrieveRefused ==
    /\ AtVCenter("page") /\ ~accepts
    /\ Turns([reader EXCEPT !.at = "release", !.verdict = "refused"])

\* Mutant: the stream ends with its first page.
FirstPageOnly == reader' = [reader EXCEPT !.at = "release"] /\ UNCHANGED target

AfterRows ==
    Turns([reader EXCEPT !.at = IF reader.rest = {} THEN "release" ELSE "page"])

NextPage ==
    /\ AtVCenter("rows")
    /\ reader.rows = {}
    /\ AfterRows

\* DestroyView; that it fails is ignored, the session takes the view with it.
Released(r) == [r EXCEPT !.view = FALSE]

ReleaseView ==
    /\ AtVCenter("release")
    /\ Turns(CASE reader.verdict = "ok" ->
                    Ended(Released(reader), FALSE, "none")
               [] reader.verdict = "failed" ->
                    Ended(Released(reader), TRUE, "reason")
               [] reader.verdict = "refused" -> Refused(Released(reader)))

\* The event loop closes a generator that nobody refers to any more.
FinaliseGenerator ==
    /\ Suspended(reader)
    /\ Turns(Released(reader))

VCenterNext ==
    \/ CreateView \/ CreateViewFails
    \/ \E page \in SUBSET Vms : RetrievePage(page)
    \/ RetrieveFails \/ RetrieveRefused
    \/ NextPage \/ ReleaseView
=============================================================================
