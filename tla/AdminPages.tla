------------------------------ MODULE AdminPages ------------------------------
(***************************************************************************)
(* The lists and the document details of the console: a filter and a page  *)
(* that make requests, answers in any order, and writes that refetch.  The *)
(* lists differ in whether they write (FaqManagementPage.tsx,              *)
(* DocumentManagementPage.tsx, KnowledgeReviewPage.tsx) or only browse     *)
(* (EscalationTriagePage.tsx, ConversationsPage.tsx, DashboardPage.tsx).   *)
(***************************************************************************)
EXTENDS Naturals, FiniteSets, Sequences

CONSTANTS
    Filters,      \* what a filter can be; one of them is "all"
    Files,    \* of the details
    MaxFetches,   \* bound on the request numbers of a list and of the details
    MaxFlights    \* bound on the answers under way, one more for the details

ASSUME PagesAssumption == "all" \in Filters /\ MaxFetches \in Nat /\ MaxFlights \in Nat

VARIABLES
    list,      \* the list of a page, and whether the page writes
    fetches,   \* its requests under way
    write,     \* its write under way, with the query of the render it began in
    stored,  \* the server's version of the rows
    details,   \* the document details
    lookups    \* their requests under way

pageVars == <<list, fetches, write, stored, details, lookups>>
listVars == <<list, fetches, write, stored>>
detailVars == <<details, lookups>>

Query == [filter : Filters, page : 1..2]
FirstPage(f) == [filter |-> f, page |-> 1]
NoWrite == [stage |-> "none", query |-> FirstPage("all"), upload |-> FALSE]

\* written: the version after the page's last write that succeeded.
PagesInit ==
    /\ \E writes \in BOOLEAN :
         list = [writes |-> writes, typed |-> "all", query |-> FirstPage("all"), latest |-> 1,
                 shown |-> FirstPage("all"), version |-> 0, loading |-> TRUE, failed |-> FALSE,
                 written |-> 0]
    /\ fetches = {[id |-> 1, query |-> FirstPage("all"), version |-> 0, stage |-> "sent"]}
    /\ write = NoWrite /\ stored = 1
    /\ details = [selected |-> "none", latest |-> 0, rows |-> "none", loading |-> FALSE, failed |-> FALSE]
    /\ lookups = {}

-----------------------------------------------------------------------------
(* A list: requestIdRef numbers the requests.                              *)

\* The list after the change, fetching the queries.
Fetch(changed, queries) ==
    /\ list.latest + Len(queries) <= MaxFetches /\ Cardinality(fetches) + Len(queries) <= MaxFlights
    /\ list' = [changed EXCEPT !.latest = @ + Len(queries), !.loading = TRUE]
    /\ fetches' = fetches \cup {[id |-> list.latest + i, query |-> queries[i], version |-> 0,
                                 stage |-> "sent"] : i \in DOMAIN queries}

Type(f) ==
    /\ list.typed # f
    /\ list' = [list EXCEPT !.typed = f]
    /\ UNCHANGED <<fetches, write, stored, detailVars>>

\* handleSearch: either the effect on the applied query fetches, or the handler.
Search ==
    /\ LET query == FirstPage(list.typed) IN Fetch([list EXCEPT !.query = query], <<query>>)
    /\ UNCHANGED <<write, stored, detailVars>>

\* handleReset fetches when the query changes, or anyway (resetFilters).
Reset ==
    /\ LET cleared == [list EXCEPT !.typed = "all", !.query = FirstPage("all")] IN
       \/ list.query = FirstPage("all") /\ list' = cleared /\ UNCHANGED fetches
       \/ Fetch(cleared, <<FirstPage("all")>>)
    /\ UNCHANGED <<write, stored, detailVars>>

TurnPage(n) ==
    /\ list.query.page # n
    /\ LET query == [list.query EXCEPT !.page = n] IN Fetch([list EXCEPT !.query = query], <<query>>)
    /\ UNCHANGED <<write, stored, detailVars>>

\* The refresh button, a change of language, or the poll of a pending document.
Refresh ==
    /\ Fetch(list, <<list.query>>)
    /\ UNCHANGED <<write, stored, detailVars>>

ServeFetch(q) ==
    /\ q.stage = "sent"
    /\ \E stage \in {"ok", "failed"} :
         fetches' = (fetches \ {q}) \cup {[q EXCEPT !.stage = stage, !.version = stored]}
    /\ UNCHANGED <<list, write, stored, detailVars>>

\* Mutant: the number of a request is not compared.
EveryAnswer(q) == TRUE

IsLatest(q) == q.id = list.latest

Fetched(q) ==
    /\ q.stage # "sent"
    /\ fetches' = fetches \ {q}
    /\ list' = IF ~IsLatest(q) THEN list
               ELSE IF q.stage = "failed" THEN [list EXCEPT !.loading = FALSE, !.failed = TRUE]
               ELSE [list EXCEPT !.loading = FALSE, !.failed = FALSE,
                                 !.shown = q.query, !.version = q.version]
    /\ UNCHANGED <<write, stored, detailVars>>

\* A delete, a save, a switch, an import, a conversion: one at a time.  An
\* upload also turns to the first page.
Write ==
    /\ list.writes /\ write.stage = "none"
    /\ \E upload \in BOOLEAN : write' = [stage |-> "sent", query |-> list.query, upload |-> upload]
    /\ UNCHANGED <<list, fetches, stored, detailVars>>
ServeWrite ==
    /\ write.stage = "sent"
    /\ \/ write' = [write EXCEPT !.stage = "ok"] /\ stored' = stored + 1
       \/ write' = [write EXCEPT !.stage = "failed"] /\ UNCHANGED stored
    /\ UNCHANGED <<list, fetches, detailVars>>

\* The handler fetches what its own render asked for, and the page it turned to.
Written ==
    /\ write.stage \in {"ok", "failed"} /\ write' = NoWrite
    /\ LET first == [list.query EXCEPT !.page = 1]
           seen == [list EXCEPT !.written = stored]
       IN IF write.stage = "failed" THEN UNCHANGED <<list, fetches>>
          ELSE IF write.upload /\ list.query # first
          THEN Fetch([seen EXCEPT !.query = first], <<write.query, first>>)
          ELSE Fetch(seen, <<write.query>>)
    /\ UNCHANGED <<stored, detailVars>>

-----------------------------------------------------------------------------
(* The details of a document, and their chunks and blocks.                 *)

Lookup(kind, d, id) == [kind |-> kind, document |-> d, id |-> id, stage |-> "sent"]

\* openDetails: the rows of the document before are still there.
OpenDetails(d) ==
    /\ details.latest < MaxFetches /\ Cardinality(lookups) < MaxFlights
    /\ details' = [details EXCEPT !.selected = d, !.latest = @ + 1, !.loading = TRUE, !.failed = FALSE]
    /\ lookups' = lookups \cup {Lookup("document", d, details.latest + 1),
                                Lookup("rows", d, details.latest + 1)}
    /\ UNCHANGED listVars

\* Another page of the rows keeps the number of the details.
TurnRows ==
    /\ details.selected # "none" /\ Cardinality(lookups) <= MaxFlights
    /\ details' = [details EXCEPT !.loading = TRUE]
    /\ lookups' = lookups \cup {Lookup("rows", details.selected, details.latest)}
    /\ UNCHANGED listVars

CloseDetails ==
    /\ details.selected # "none" /\ details.latest < MaxFetches
    /\ details' = [selected |-> "none", latest |-> details.latest + 1, rows |-> "none",
                   loading |-> FALSE, failed |-> FALSE]
    /\ UNCHANGED <<lookups, listVars>>

\* handleDelete, and the button that starts the review: the number stays, so a
\* late answer opens the details again.
Deleted ==
    /\ details.selected # "none"
    /\ details' = [details EXCEPT !.selected = "none"]
    /\ UNCHANGED <<lookups, listVars>>

ServeLookup(q) ==
    /\ q.stage = "sent"
    /\ \E stage \in {"ok", "failed"} : lookups' = (lookups \ {q}) \cup {[q EXCEPT !.stage = stage]}
    /\ UNCHANGED <<details, listVars>>

\* Mutant: the number of a request is not compared.
EveryLookup(q) == TRUE

IsLatestLookup(q) == q.id = details.latest

\* The document waits for its rows, which never fail the details.
LookedUp(q) ==
    /\ q.stage # "sent"
    /\ q.kind = "document" /\ q.stage = "ok" => \A o \in lookups : o.kind = "rows" => o.id # q.id
    /\ lookups' = lookups \ {q}
    /\ details' =
         IF ~IsLatestLookup(q) THEN details
         ELSE IF q.kind = "document"
         THEN [details EXCEPT !.selected = IF q.stage = "ok" THEN q.document ELSE "none"]
         ELSE IF q.stage = "ok"
         THEN [details EXCEPT !.rows = q.document, !.loading = FALSE, !.failed = FALSE]
         ELSE [details EXCEPT !.loading = FALSE, !.failed = TRUE]
    /\ UNCHANGED listVars

ListNext ==
    \/ \E f \in Filters : Type(f)
    \/ Search \/ Reset \/ Refresh \/ Write \/ ServeWrite \/ Written
    \/ \E n \in 1..2 : TurnPage(n)
    \/ \E q \in fetches : ServeFetch(q) \/ Fetched(q)

DetailsNext ==
    \/ \E d \in Files : OpenDetails(d)
    \/ TurnRows \/ CloseDetails \/ Deleted
    \/ \E q \in lookups : ServeLookup(q) \/ LookedUp(q)

\* The two share nothing, so they are explored one at a time.
ListSpec == PagesInit /\ [][ListNext]_pageVars
DetailsSpec == PagesInit /\ [][DetailsNext]_pageVars

-----------------------------------------------------------------------------
(* Properties.                                                             *)

PagesTypeOK ==
    /\ list.query \in Query /\ list.shown \in Query /\ list.typed \in Filters
    /\ \A q \in fetches : q.query \in Query /\ q.id \in 1..list.latest
    /\ details.selected \in Files \cup {"none"}
    /\ \A q \in lookups : q.document \in Files /\ q.id \in 1..details.latest

\* Unless it says that it is loading, or that it failed, a list that only
\* browses answers the query above it, and a list that writes shows its last
\* write, in whatever order the answers came (fetchEscalations, fetchFaqs); a page
\* makes one write at a time.
ListIsCurrent ==
    ~list.loading /\ ~list.failed =>
        IF list.writes THEN list.version >= list.written ELSE list.shown = list.query

\* The chunks and blocks under a document's details are that document's
\* (openDetails, fetchChunks, fetchBlocks).
RowsAreOfSelected ==
    details.selected # "none" /\ ~details.loading /\ ~details.failed =>
        details.rows = details.selected
=============================================================================
