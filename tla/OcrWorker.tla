-------------------------------- MODULE OcrWorker --------------------------------
(***************************************************************************)
(* The OCR worker (ocr-worker/) and its client (ocr-extractor.ts): one     *)
(* extraction at a time behind a slot, a timeout that ends the process,    *)
(* the pages of the engine mapped to blocks, and the contract the blocks   *)
(* must keep (ocr-contract.ts).                                            *)
(*                                                                         *)
(* A page is [index, items, tables, lines]; an item [label, words, score]; *)
(* a table the cells of its markup, [row, rows, cols], whose words are     *)
(* those of its item.  -1: the engine says nothing.                        *)
(***************************************************************************)
EXTENDS Integers, Sequences, FiniteSets, FiniteSetsExt, SequencesExt

CONSTANTS
    Requests,     \* calls of the application server
    Defects,      \* request |-> the checks its source fails
    Scans,        \* request |-> what the engine finds in its source
    MaxCells,     \* MAX_TABLE_CELLS
    MaxScanPages, \* MAX_PAGES of the worker
    MaxScanBlocks \* MAX_DOCUMENT_BLOCKS of the contract

VARIABLES
    alive,        \* the worker runs
    exitDue,      \* schedule_forced_exit was called
    slot,         \* _extraction_slot: who holds it
    thread,       \* what the executor does: [of, ended, ok]
    files,        \* temporary files on disk
    stray,        \* history: files a forced exit left behind
    call,         \* request |-> how far the worker got with it
    answer,       \* request |-> the response
    outcome       \* request |-> what the client made of it

ocrVars == <<alive, exitDue, slot, thread, files, stray, call, answer, outcome>>

Nobody == "none"
NoThread == [of |-> Nobody, ended |-> TRUE, ok |-> FALSE]

-----------------------------------------------------------------------------
(* Tables (_TableParser): a cell goes to the first column that no earlier   *)
(* cell reaches into.                                                       *)

Span(cell, column) == {<<r, c>> : r \in cell.row .. cell.row + cell.rows - 1, c \in column .. column + cell.cols - 1}

\* Mutant: the cells that reach down from the row above are not skipped.
ColumnNext(occupied, row, from) == from

Column(occupied, row, from) ==
    Min({c \in from .. from + Cardinality(occupied) : <<row, c>> \notin occupied})

AddCell(acc, cell) ==
    LET from == IF acc.cells # <<>> /\ Last(acc.cells).row = cell.row
                THEN Last(acc.cells).column + Last(acc.cells).cols ELSE 0
        column == Column(acc.occupied, cell.row, from)
    IN  [occupied |-> acc.occupied \cup Span(cell, column),
         cells |-> Append(acc.cells, [row |-> cell.row, rows |-> cell.rows, cols |-> cell.cols, column |-> column])]

TableStructure(markup) == FoldLeft(AddCell, [occupied |-> {}, cells |-> <<>>], markup).cells

TooManyCells(markup) ==
    \E k \in DOMAIN markup :
        LET before == FoldLeft(AddCell, [occupied |-> {}, cells |-> <<>>], SubSeq(markup, 1, k - 1)).occupied
        IN  Cardinality(before) + markup[k].rows * markup[k].cols > MaxCells

-----------------------------------------------------------------------------
(* Pages to blocks (map_ppstructure_results).                               *)

ScanBlock(page, path, kind, item) ==
    [kind |-> kind, page |-> page, path |-> path, words |-> item.words, score |-> item.score,
     cells |-> <<>>, order |-> 0]

\* _map_parsing_blocks, one item: the table results are used up in order, and
\* the white space of a text is one blank before its lines are looked for.
MapItem(acc, item) ==
    LET Plain(kind) == Append(acc.blocks, ScanBlock(acc.page, acc.path, kind, item))
        cells == IF acc.tables # <<>> THEN TableStructure(Head(acc.tables)) ELSE <<>>
    IN  CASE item.words = <<>> /\ item.label \notin {"image", "table"} -> acc
          [] item.words # <<>> /\ item.label = "title" ->
                [acc EXCEPT !.path = <<item.words>>,
                            !.blocks = Append(@, ScanBlock(acc.page, <<item.words>>, "heading", item))]
          [] item.label = "table" ->
                [acc EXCEPT !.tables = IF @ = <<>> THEN @ ELSE Tail(@),
                            !.blocks = CASE cells # <<>> -> Append(@, [ScanBlock(acc.page, acc.path, "table", item)
                                                                        EXCEPT !.cells = cells])
                                         [] cells = <<>> /\ item.words # <<>> -> Plain("paragraph")
                                         [] OTHER -> @]
          [] item.label = "image" -> [acc EXCEPT !.blocks = Plain("image_ref")]
          [] item.words # <<>> /\ item.label \in {"list", "key_value", "text"} ->
                [acc EXCEPT !.blocks = Plain(IF item.label = "text" THEN "paragraph" ELSE item.label)]

PageNumber(page, offset) == 1 + (IF page.index < 0 THEN offset - 1 ELSE page.index)

\* _map_ocr_lines, one line.
MapLine(acc, line) ==
    IF line.words = <<>> THEN acc
    ELSE [acc EXCEPT !.blocks = Append(@, ScanBlock(acc.page, <<>>, "paragraph", line))]

\* The lines of a page stand in when its layout gave nothing.
PageBlocks(page, offset) ==
    LET start == [blocks |-> <<>>, page |-> PageNumber(page, offset), path |-> <<>>, tables |-> page.tables]
        parsed == FoldLeft(MapItem, start, page.items).blocks
    IN  IF parsed # <<>> THEN parsed ELSE FoldLeft(MapLine, start, page.lines).blocks

\* What the engine hands over: tables row by row, pages in their order.
Markup(table) ==
    /\ table \in Seq([row : Nat, rows : Nat \ {0}, cols : Nat \ {0}])
    /\ \A i, j \in DOMAIN table : i < j => table[i].row <= table[j].row

Scanned(page) ==
    /\ page.items \in Seq(ToSet(page.items)) /\ page.lines \in Seq(ToSet(page.lines)) /\ page.tables \in Seq(ToSet(page.tables))
    /\ \A x \in ToSet(page.items) \cup ToSet(page.lines) : x.words \in Seq(ToSet(x.words)) /\ x.score \in Int
    /\ \A x \in ToSet(page.items) : x.label \in {"text", "title", "list", "key_value", "table", "image"}
    /\ \A table \in ToSet(page.tables) : Markup(table)

ASSUME OcrAssumption ==
    /\ Nobody \notin Requests
    /\ \A r \in Requests :
          /\ Scans[r] \in Seq(ToSet(Scans[r]))
          /\ \A i \in DOMAIN Scans[r] : Scanned(Scans[r][i]) /\ PageNumber(Scans[r][i], i) \in Nat
          /\ \A i, j \in DOMAIN Scans[r] : i < j => PageNumber(Scans[r][i], i) < PageNumber(Scans[r][j], j)

\* The extraction fails as a whole when one page cannot be mapped.
Unmappable(pages) ==
    \/ Len(pages) > MaxScanPages
    \/ \E i \in DOMAIN pages : \E t \in ToSet(pages[i].tables) : TooManyCells(t)

MapResults(pages) ==
    LET per == [i \in DOMAIN pages |-> PageBlocks(pages[i], i)]
        all == FlattenSeq(per)
        blocks == [i \in DOMAIN all |-> [all[i] EXCEPT !.order = i]]
    IN  [blocks |-> blocks,
         low |-> {i \in DOMAIN blocks : blocks[i].score \in 0 .. 59},
         empty |-> {i \in DOMAIN pages : per[i] = <<>>},
         pages |-> Cardinality({PageNumber(pages[i], i) : i \in DOMAIN pages})]

\* validateOcrExtractionResult
ValidResult(r) ==
    /\ Len(r.blocks) <= MaxScanBlocks
    /\ \A i \in DOMAIN r.blocks : r.blocks[i].order = i /\ r.blocks[i].page \in 1 .. r.pages

-----------------------------------------------------------------------------
(* The worker.                                                              *)

\* The checks of a request in their order, and what the first failure answers.
Checks == <<"authorization", "length", "json", "contract", "encoding", "empty", "hash", "signature",
            "unreadable_image", "dimensions", "pages">>
StatusOf(check) ==
    CASE check = "authorization" -> 401 [] check \in {"json", "encoding"} -> 400
      [] check \in {"length", "empty", "dimensions", "pages"} -> 413
      [] check \in {"contract", "hash", "signature", "unreadable_image"} -> 422
Rejection(r) == StatusOf(Checks[Min({i \in DOMAIN Checks : Checks[i] \in Defects[r]})])
Accepted(r) == ToSet(Checks) \cap Defects[r] = {}

OcrInit ==
    /\ alive = TRUE /\ exitDue = FALSE /\ slot = Nobody /\ thread = NoThread
    /\ files = {} /\ stray = {}
    /\ call = [r \in Requests |-> "idle"]
    /\ answer = [r \in Requests |-> 0]
    /\ outcome = [r \in Requests |-> "none"]

\* extract: the client checks the request itself first.
Send(r) ==
    /\ call[r] = "idle"
    /\ call' = [call EXCEPT ![r] = IF alive /\ "request" \notin Defects[r] THEN "sent" ELSE "over"]
    /\ outcome' = [outcome EXCEPT ![r] = IF "request" \in Defects[r] THEN "invalid_ocr_request" ELSE "waiting"]
    /\ UNCHANGED <<alive, exitDue, slot, thread, files, stray, answer>>

Reject(r) ==
    /\ alive /\ call[r] = "sent" /\ ~Accepted(r)
    /\ call' = [call EXCEPT ![r] = "over"]
    /\ answer' = [answer EXCEPT ![r] = Rejection(r)]
    /\ UNCHANGED <<alive, exitDue, slot, thread, files, stray, outcome>>

\* The file is written before the slot is asked for, and removed when it is taken.
Busy(r) ==
    /\ alive /\ call[r] = "sent" /\ Accepted(r) /\ slot # Nobody
    /\ call' = [call EXCEPT ![r] = "over"]
    /\ answer' = [answer EXCEPT ![r] = 503]
    /\ UNCHANGED <<alive, exitDue, slot, thread, files, stray, outcome>>

Start(r) ==
    /\ alive /\ call[r] = "sent" /\ Accepted(r) /\ slot = Nobody
    /\ call' = [call EXCEPT ![r] = "awaited"]
    /\ slot' = r
    /\ files' = files \cup {r}
    /\ thread' = [of |-> r, ended |-> FALSE, ok |-> FALSE]
    /\ UNCHANGED <<alive, exitDue, stray, answer, outcome>>

\* _run_extraction in its thread: the file goes whatever happens.
RunExtraction ==
    /\ ~thread.ended
    /\ \E ok \in BOOLEAN :
          /\ ok => ~Unmappable(Scans[thread.of])
          /\ thread' = [thread EXCEPT !.ended = TRUE, !.ok = ok]
    /\ files' = files \ {thread.of}
    /\ UNCHANGED <<alive, exitDue, slot, stray, call, answer, outcome>>

\* _release_extraction_slot, on the event loop after the thread has ended; the
\* handler that waits goes on later.
Release ==
    /\ thread.ended /\ thread.of # Nobody
    /\ slot' = Nobody /\ thread' = NoThread
    /\ call' = [call EXCEPT ![thread.of] =
          IF @ = "awaited" THEN IF thread.ok THEN "mapped" ELSE "failed" ELSE @]
    /\ UNCHANGED <<alive, exitDue, files, stray, answer, outcome>>

Respond(r) ==
    /\ call[r] \in {"mapped", "failed"}
    /\ call' = [call EXCEPT ![r] = "over"]
    /\ answer' = [answer EXCEPT ![r] = IF call[r] = "mapped" THEN 200 ELSE 502]
    /\ UNCHANGED <<alive, exitDue, slot, thread, files, stray, outcome>>

\* The thread cannot be stopped: the process is.
TimedOut(r) ==
    /\ call[r] \in {"awaited", "mapped", "failed"}
    /\ call' = [call EXCEPT ![r] = "over"]
    /\ answer' = [answer EXCEPT ![r] = 504]
    /\ exitDue' = TRUE
    /\ UNCHANGED <<alive, slot, thread, files, stray, outcome>>

ForcedExit ==
    /\ exitDue
    /\ alive' = FALSE /\ exitDue' = FALSE
    /\ slot' = Nobody /\ thread' = NoThread
    /\ stray' = stray \cup files
    /\ call' = [r \in Requests |-> IF call[r] = "idle" THEN "idle" ELSE "over"]
    /\ UNCHANGED <<files, answer, outcome>>

RestartWorker ==
    /\ ~alive /\ alive' = TRUE
    /\ UNCHANGED <<exitDue, slot, thread, files, stray, call, answer, outcome>>

\* readResponseTextBounded and validateWorkerEnvelope
Receive(r) ==
    /\ outcome[r] = "waiting" /\ answer[r] # 0
    /\ outcome' = [outcome EXCEPT ![r] =
          IF answer[r] # 200 THEN "ocr_worker_rejected"
          ELSE IF ValidResult(MapResults(Scans[r])) THEN "ok" ELSE "invalid_ocr_result"]
    /\ UNCHANGED <<alive, exitDue, slot, thread, files, stray, call, answer>>

\* The client's own timeout, or a connection that breaks.
NoAnswer(r) ==
    /\ outcome[r] = "waiting"
    /\ \E code \in {"ocr_worker_timeout", "ocr_worker_unavailable"} : outcome' = [outcome EXCEPT ![r] = code]
    /\ UNCHANGED <<alive, exitDue, slot, thread, files, stray, call, answer>>

OcrNext ==
    \/ \E r \in Requests : Send(r) \/ Reject(r) \/ Busy(r) \/ Start(r) \/ Respond(r) \/ TimedOut(r) \/ Receive(r) \/ NoAnswer(r)
    \/ RunExtraction \/ Release \/ ForcedExit \/ RestartWorker

-----------------------------------------------------------------------------
\* One extraction at a time, also while a timed-out one goes on: the slot is
\* its, nobody waits for work that nobody does, and the only temporary files
\* are those of the running extraction and of a forced exit
\* (extract, _run_extraction, _release_extraction_slot).
OcrSlotHeld ==
    /\ ~thread.ended => slot = thread.of /\ alive
    /\ slot # Nobody => thread.of = slot
    /\ \A r \in Requests : call[r] = "awaited" => thread.of = r
    /\ files \ stray = IF thread.ended THEN {} ELSE {thread.of}

TextOf(list) == FlattenSeq([i \in DOMAIN list |-> list[i].words])

\* The table result that belongs to an item: results are used up in order.
TableOf(page, j) ==
    LET n == Cardinality({i \in 1 .. j : page.items[i].label = "table"})
    IN  IF n <= Len(page.tables) THEN page.tables[n] ELSE <<>>

\* Whether an item of a layout is anything that can be shown.
Leaves(page, j) ==
    \/ page.items[j].words # <<>> \/ page.items[j].label = "image"
    \/ page.items[j].label = "table" /\ TableOf(page, j) # <<>>

\* The words of a scan, page by page.
Words(pages) ==
    FlattenSeq([i \in DOMAIN pages |->
        TextOf(IF \E j \in DOMAIN pages[i].items : Leaves(pages[i], j) THEN pages[i].items ELSE pages[i].lines)])

\* A result the client takes has every word of the scan once and in order, on
\* the page it stands on, under the last title of that page, and no two cells
\* of a table begin in one place (map_ppstructure_results, _TableParser).
OcrResultFaithful ==
    \A r \in Requests : outcome[r] = "ok" =>
        LET result == MapResults(Scans[r])
            blocks == result.blocks
        IN  /\ TextOf(blocks) = Words(Scans[r])
            /\ \A i, j \in DOMAIN blocks : i < j => blocks[i].page <= blocks[j].page
            /\ \A i \in DOMAIN blocks :
                  LET cells == blocks[i].cells
                      titles == {k \in 1 .. i : blocks[k].kind = "heading" /\ blocks[k].page = blocks[i].page}
                  IN  /\ blocks[i].path = IF titles = {} THEN <<>> ELSE <<blocks[Max(titles)].words>>
                      /\ \A x, y \in DOMAIN cells : x # y =>
                            <<cells[x].row, cells[x].column>> \notin Span(cells[y], cells[y].column)

=============================================================================
