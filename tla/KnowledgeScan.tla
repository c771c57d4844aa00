---------------------------- MODULE KnowledgeScan ----------------------------
(***************************************************************************)
(* inspect(): the scan of the active knowledge, page by page, that counts  *)
(* what an index job must contain.  The same pages, entered at a           *)
(* checkpoint, feed the build.                                             *)
(***************************************************************************)
EXTENDS IndexKnowledge

CONSTANT MaxPage      \* bound on the page size the scan is tried with

VARIABLES content,    \* what is active while inspect runs (it does not yield)
          size,       \* batchSize
          cursor,
          count,      \* rows seen so far
          seen,       \* which rows: the ids handed to the caller
          done

scanVars == <<content, size, cursor, count, seen, done>>

ScanInit ==
    /\ content \in Content
    /\ size \in 1 .. MaxPage
    /\ cursor = NoCursor /\ count = 0 /\ seen = {} /\ done = FALSE

ScanPage ==
    LET page == ReadPage(content, cursor, size)
    IN  /\ ~done
        /\ page # {}
        /\ count' = count + Cardinality(page)
        /\ seen' = seen \cup page
        /\ cursor' = NextCursor(page, cursor)
        /\ UNCHANGED <<content, size, done>>

ScanEnd ==
    /\ ~done
    /\ ReadPage(content, cursor, size) = {}
    /\ done' = TRUE
    /\ UNCHANGED <<content, size, cursor, count, seen>>

ScanNext == ScanPage \/ ScanEnd

-----------------------------------------------------------------------------
\* A finished scan has read every active row, also when a page ends inside
\* the FAQ rows and the next one starts there (inspect, readPage).
ScanComplete == done => seen = Present(content)

\* Resuming at a checkpoint continues where the interrupted build stopped:
\* the cursor recomputed from the count is the cursor the pages had reached
\* (cursorAt against readPage).
ResumePoint ==
    /\ CheckpointInRange(content, count)
    /\ CursorAt(content, count) = cursor

\* Both: the scan counts what a job must contain, and its count leads a build
\* that is resumed to where it was (inspect, cursorAt).
ScanIsComplete == ScanComplete /\ ResumePoint
=============================================================================
