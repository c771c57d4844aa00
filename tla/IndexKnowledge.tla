--------------------------- MODULE IndexKnowledge ---------------------------
(***************************************************************************)
(* The knowledge an index job reads from SQLite: active FAQ entries and    *)
(* the chunks of active, ready, published documents.  An item is a number; *)
(* FAQ entries come before document chunks, and within a type the number   *)
(* is the order of the ids.  An item that is active but has no embedding   *)
(* yet is not part of this model: it joins the knowledge (and changes the  *)
(* fingerprint) when its embedding profile is stored.                      *)
(*                                                                         *)
(* A content maps every item to the revision that is present, 0 for none.  *)
(* It is the value of the knowledge fingerprint (which hashes exactly the  *)
(* ids and revisions of the active items) and of a Qdrant collection.      *)
(***************************************************************************)
EXTENDS Integers, FiniteSets

CONSTANTS NumFaqs,    \* FAQ entries, the first items
          NumDocs,    \* document chunks, the items after them
          MaxRev      \* bound on the revisions of an item

ASSUME KnowledgeAssumption ==
    /\ NumFaqs \in Nat
    /\ NumDocs \in Nat
    /\ MaxRev \in Nat \ {0}

NoCursor == 0

Faqs  == 1 .. NumFaqs
Docs  == (NumFaqs + 1) .. (NumFaqs + NumDocs)
Items == 1 .. (NumFaqs + NumDocs)

Content      == [Items -> 0 .. MaxRev]
EmptyContent == [i \in Items |-> 0]
Present(c)   == {i \in Items : c[i] # 0}
Count(c)     == Cardinality(Present(c))

\* The rows of faq_entries and document_chunks: a revision is the row's
\* updated_at (FAQ) or created_at (chunk), `on` its membership of the
\* active knowledge.
KnowledgeRows == [Items -> [on : BOOLEAN, rev : 1 .. MaxRev]]

Fingerprint(k) == [i \in Items |-> IF k[i].on THEN k[i].rev ELSE 0]

-----------------------------------------------------------------------------
(* Keyset pagination over a content, as the two queries of readPage. *)

\* ORDER BY id LIMIT n
First(S, n) == {x \in S : Cardinality({y \in S : y <= x}) <= n}

\* Mutant: the row after the cursor is skipped.
AfterSkips(c, kind, id) == {i \in Present(c) \cap kind : i > id + 1}

After(c, kind, id) == {i \in Present(c) \cap kind : i > id}

FaqRows(c, id, n) == First(After(c, Faqs, id), n)
DocRows(c, id, n) == First(After(c, Docs, id), n)

ReadPage(c, cursor, n) ==
    LET faqs == IF cursor \in Docs THEN {} ELSE FaqRows(c, cursor, n)
        left == n - Cardinality(faqs)
    IN  IF left > 0 THEN faqs \cup DocRows(c, cursor, left) ELSE faqs

\* The cursor after a page: its last row, or unchanged when it is empty.
NextCursor(page, cursor) ==
    LET last == {i \in page : \A x \in page : x <= i}
    IN  IF last = {} THEN cursor ELSE CHOOSE i \in last : TRUE

\* The row of S at OFFSET k (an empty set: the query found none).
AtOffset(S, k) == {x \in S : Cardinality({y \in S : y < x}) = k}

\* The row a checkpoint stands for; {} when the checkpoint is out of range.
RowsAt(c, checkpoint) ==
    LET faqs == Present(c) \cap Faqs
    IN  IF checkpoint <= Cardinality(faqs)
        THEN AtOffset(faqs, checkpoint - 1)
        ELSE AtOffset(Present(c) \cap Docs, checkpoint - Cardinality(faqs) - 1)

CheckpointInRange(c, checkpoint) == checkpoint > 0 => RowsAt(c, checkpoint) # {}

CursorAt(c, checkpoint) ==
    IF checkpoint <= 0 THEN NoCursor
    ELSE CHOOSE i \in RowsAt(c, checkpoint) : TRUE

\* The records of a page, with the revisions they were read at.
Records(c, page) == [i \in Items |-> IF i \in page THEN c[i] ELSE 0]

\* upsertBatch: every record of the batch replaces the point of its item.
Upsert(c, records) ==
    [i \in Items |-> IF records[i] # 0 THEN records[i] ELSE c[i]]
=============================================================================
