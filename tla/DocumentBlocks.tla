---------------------------- MODULE DocumentBlocks ----------------------------
(***************************************************************************)
(* From a file to the blocks of a structured document: the four parsers    *)
(* (document-parser-adapter.ts) and the checks every representation passes *)
(* (document-ir.ts).                                                       *)
(*                                                                         *)
(* A text is a sequence of tokens: the lines of a paragraph, the items of  *)
(* a list, the rows of a table.  Limits are constants, scaled down.        *)
(***************************************************************************)
EXTENDS Integers, Sequences, FiniteSets, FiniteSetsExt, SequencesExt

CONSTANTS
    Sentences,   \* token |-> the lengths of its sentences
    Clean,       \* token |-> what normalizeText leaves of it, "" when nothing
    MaxText,     \* MAX_EXTRACTED_CHARACTERS
    MaxBlocks,   \* MAX_DOCUMENT_BLOCKS
    MaxDepth     \* longest heading path

\* The text of an empty line.
NoText == ""

Sum(seq) == FoldLeft(LAMBDA total, n : total + n, 0, seq)
Size(token) == IF token = NoText THEN 0 ELSE Sum(Sentences[token])

\* documentBlockText(block).length: what an image says of itself does not count.
TextSize(b) ==
    IF b.kind = "image_ref" \/ b.text = <<>> THEN 0
    ELSE Sum([i \in DOMAIN b.text |-> Size(b.text[i])]) + Len(b.text) - 1

Chars(blocks) == Sum([i \in DOMAIN blocks |-> TextSize(blocks[i])])
Included(blocks) == {i \in DOMAIN blocks : ~blocks[i].excluded}
IncludedChars(blocks) == Sum([i \in DOMAIN blocks |-> IF blocks[i].excluded THEN 0 ELSE TextSize(blocks[i])])

\* A text without its empty lines.
Filled(text) == FlattenSeq([i \in DOMAIN text |-> IF text[i] = NoText THEN <<>> ELSE <<text[i]>>])

-----------------------------------------------------------------------------
(* What the libraries hand over of a file.                                  *)

Lexicon == DOMAIN Sentences

SourceLine(l, format) ==
    \/ l.kind = "blank"
    \/ l.kind = "fence" /\ format = "md"
    \/ l.kind \in {"text", "item"} /\ l.token \in Lexicon /\ l.ordered \in BOOLEAN
    \/ l.kind = "heading" /\ l.token \in Lexicon /\ l.level \in 1 .. 6

SourceChild(c) ==
    \/ /\ c.kind = "p" /\ c.list \in BOOLEAN /\ c.image \in BOOLEAN
       /\ c.level \in 0 .. 6 /\ c.token \in Lexicon \cup {NoText}
    \/ /\ c.kind = "tbl" /\ c.header \in BOOLEAN /\ c.merged \in BOOLEAN
       /\ c.rows \in Seq(Lexicon \cup {NoText})

SourcePage(p) == p.texts \in Seq(Lexicon) /\ p.images \in Nat

SourceFile(src) ==
    \/ /\ src.format \in {"txt", "md"} /\ src.defect \in {"none", "not_utf8"}
       /\ src.lines \in Seq(ToSet(src.lines)) /\ \A l \in ToSet(src.lines) : SourceLine(l, src.format)
    \/ /\ src.format = "docx"
       /\ src.defect \in {"none", "not_zip", "no_directory", "no_document", "entity", "bad_xml", "no_body",
                          "many_entries", "expands_too_far", "xml_too_long"}
       /\ src.children \in Seq(ToSet(src.children)) /\ \A c \in ToSet(src.children) : SourceChild(c)
    \/ /\ src.format = "pdf"
       /\ src.defect \in {"none", "long", "encrypted", "not_pdf", "broken", "many_pages"}
       /\ src.pages \in Seq(ToSet(src.pages)) /\ \A p \in ToSet(src.pages) : SourcePage(p)

-----------------------------------------------------------------------------
(* Blocks.  The id of a block is its position; page 0 is a null page.       *)

BaseBlock(order, path, page) ==
    [id |-> order + 1, kind |-> "paragraph", text |-> <<>>, level |-> 0, header |-> FALSE,
     path |-> path, page |-> page, excluded |-> FALSE, reason |-> "none"]

Push(blocks, path, kind, text) ==
    Append(blocks, [BaseBlock(Len(blocks), path, 0) EXCEPT !.kind = kind, !.text = text])

PushHeading(blocks, path, level, token) ==
    Append(blocks, [BaseBlock(Len(blocks), path, 0) EXCEPT
                        !.kind = "heading", !.level = level, !.text = <<token>>])

UpdatePath(path, level, value) ==
    Append(SubSeq(path, 1, IF level - 1 < Len(path) THEN level - 1 ELSE Len(path)), value)

Metrics(blocks) ==
    [input |-> Chars(blocks), normalized |-> Chars(blocks),
     included |-> IncludedChars(blocks),
     blocks |-> Len(blocks), includedBlocks |-> Cardinality(Included(blocks)),
     excludedBlocks |-> Len(blocks) - Cardinality(Included(blocks)),
     pages |-> Cardinality({blocks[i].page : i \in DOMAIN blocks} \ {0})]

Failure(code) == [error |-> code]
IsDoc(d) == d.error = "none"

\* validateDocumentIR: order, unique ids, the declared metrics, the schema's bounds.
Validate(d) ==
    IF /\ Len(d.blocks) <= MaxBlocks
       /\ \A i \in DOMAIN d.blocks : d.blocks[i].id = i /\ Len(d.blocks[i].path) <= MaxDepth
       /\ [d.metrics EXCEPT !.input = 0] = [Metrics(d.blocks) EXCEPT !.input = 0]
    THEN d ELSE Failure("invalid_representation")

Finish(format, blocks, warnings) ==
    Validate([error |-> "none", format |-> format, blocks |-> blocks,
              warnings |-> warnings, metrics |-> Metrics(blocks)])

-----------------------------------------------------------------------------
(* The line by line parsers: what is being gathered, and the blocks so far. *)

Reading == [blocks |-> <<>>, path |-> <<>>, para |-> <<>>, items |-> <<>>, ordered |-> FALSE,
            fence |-> FALSE, code |-> <<>>, warnings |-> {}]

FlushParagraph(st) ==
    IF st.para = <<>> THEN st
    ELSE [st EXCEPT !.blocks = Push(@, st.path, "paragraph", st.para), !.para = <<>>]

FlushList(st) ==
    IF st.items = <<>> THEN st
    ELSE [st EXCEPT !.blocks = Push(@, st.path, "list", st.items), !.items = <<>>]

CloseFence(st) ==
    [st EXCEPT !.blocks = Push(@, st.path, "code", st.code), !.fence = FALSE, !.code = <<>>]

Heading(st, level, token) ==
    LET p == UpdatePath(st.path, level, token)
    IN  [st EXCEPT !.path = p, !.blocks = PushHeading(@, p, level, token)]

\* Mutant: a list goes on under the numbering of another one, losing what it held.
ItemLost(st, line) ==
    LET s == FlushParagraph(st)
    IN  [s EXCEPT !.ordered = line.ordered,
                  !.items = IF s.ordered # line.ordered THEN <<line.token>> ELSE Append(@, line.token)]

Item(st, line) ==
    LET s == FlushParagraph(st)
        r == IF s.items # <<>> /\ s.ordered # line.ordered THEN FlushList(s) ELSE s
    IN  [r EXCEPT !.ordered = line.ordered, !.items = Append(@, line.token)]

MdLine(st, line) ==
    CASE st.fence /\ line.kind = "fence" -> CloseFence(st)
      [] st.fence /\ line.kind # "fence" ->
            [st EXCEPT !.code = Append(@, IF line.kind = "blank" THEN NoText ELSE line.token)]
      [] ~st.fence /\ line.kind = "fence" ->
            [FlushList(FlushParagraph(st)) EXCEPT !.fence = TRUE]
      [] ~st.fence /\ line.kind = "heading" ->
            Heading(FlushList(FlushParagraph(st)), line.level, line.token)
      [] ~st.fence /\ line.kind = "item" -> Item(st, line)
      [] ~st.fence /\ line.kind = "blank" -> FlushList(FlushParagraph(st))
      [] ~st.fence /\ line.kind = "text" ->
            [FlushList(st) EXCEPT !.para = Append(@, line.token)]

\* A fence that is never closed takes the rest of the file.
ParseMarkdown(lines) ==
    LET st == FoldLeft(MdLine, Reading, lines)
    IN  FlushList(FlushParagraph(IF st.fence THEN CloseFence(st) ELSE st)).blocks

\* Only blank lines mean anything in a plain text.
TxtLine(st, line) ==
    IF line.kind = "blank" THEN FlushParagraph(st)
    ELSE [st EXCEPT !.para = Append(@, line.token)]

ParseText(lines) == FlushParagraph(FoldLeft(TxtLine, Reading, lines)).blocks

ParseLines(src) ==
    IF src.defect = "not_utf8" THEN Failure("invalid_utf8")
    ELSE Finish(src.format,
                IF src.format = "md" THEN ParseMarkdown(src.lines) ELSE ParseText(src.lines), {})

-----------------------------------------------------------------------------
(* DOCX: the children of the body, in order.                                *)

Table(st, c) ==
    [st EXCEPT !.blocks = Append(@, [BaseBlock(Len(@), st.path, 0) EXCEPT
                              !.kind = "table", !.text = c.rows, !.header = c.header]),
               !.warnings = IF c.merged
                            THEN @ \cup {[code |-> "table_vertical_merge_limited", ids |-> {Len(st.blocks) + 1}]}
                            ELSE @]

DocxParagraph(st, c) ==
    IF c.list /\ c.token # NoText THEN [st EXCEPT !.items = Append(@, c.token)]
    ELSE LET s == FlushList(st)
         IN  CASE c.level > 0 /\ c.token # NoText -> Heading(s, c.level, c.token)
               [] c.level = 0 /\ c.token # NoText -> [s EXCEPT !.blocks = Push(@, s.path, "paragraph", <<c.token>>)]
               [] OTHER -> s

DocxChild(st, c) ==
    IF c.kind = "tbl" THEN Table(FlushList(st), c)
    ELSE LET s == DocxParagraph(st, c)
         IN  IF c.image THEN LET f == FlushList(s)
                             IN  [f EXCEPT !.blocks = Push(@, f.path, "image_ref", <<>>)]
             ELSE s

ImageIds(blocks) == {b.id : b \in {x \in ToSet(blocks) : x.kind = "image_ref"}}

\* validateDocxArchive and the checks of parseDocx, by what is wrong with the file.
DocxError(defect) ==
    CASE defect \in {"not_zip", "no_directory", "no_document", "entity", "bad_xml", "no_body"} -> "invalid_docx"
      [] defect \in {"many_entries", "expands_too_far", "xml_too_long"} -> "docx_resource_limit"

ParseDocx(src) ==
    IF src.defect # "none" THEN Failure(DocxError(src.defect))
    ELSE LET st == FlushList(FoldLeft(DocxChild, Reading, src.children))
         IN  IF Chars(st.blocks) > MaxText THEN Failure("text_too_large")
             ELSE Finish("docx", st.blocks, st.warnings \cup
                      IF Chars(st.blocks) = 0 /\ ImageIds(st.blocks) # {}
                      THEN {[code |-> "visual_processing_required", ids |-> ImageIds(st.blocks)]} ELSE {})

-----------------------------------------------------------------------------
(* PDF: its pages, each with its paragraphs and its images.                 *)

PdfError(defect) ==
    CASE defect = "encrypted" -> "pdf_encrypted"
      [] defect \in {"not_pdf", "broken"} -> "invalid_pdf"
      [] defect = "many_pages" -> "pdf_too_many_pages"

PdfPage(src, p, kind) ==
    IF kind = "paragraph" THEN [i \in DOMAIN src.pages[p].texts |-> [page |-> p, text |-> <<src.pages[p].texts[i]>>]]
    ELSE [i \in 1 .. src.pages[p].images |-> [page |-> p, text |-> <<>>]]

PdfBlocks(src, kind) ==
    LET found == FlattenSeq([p \in DOMAIN src.pages |-> PdfPage(src, p, kind)])
    IN  [i \in DOMAIN found |-> [BaseBlock(i - 1, <<>>, found[i].page) EXCEPT
                                    !.kind = kind, !.text = found[i].text]]

ParsePdf(src) ==
    LET texts == PdfBlocks(src, "paragraph")
        images == PdfBlocks(src, "image_ref")
        scanned == texts = <<>>
    IN  CASE src.defect \notin {"none", "long"} -> Failure(PdfError(src.defect))
          [] OTHER ->
             CASE Chars(texts) > MaxText -> Failure("text_too_large")
               [] Chars(texts) <= MaxText /\ Len(texts) > MaxBlocks -> Failure("too_many_units")
               [] Chars(texts) <= MaxText /\ Len(texts) <= MaxBlocks /\ ~scanned -> Finish("pdf", texts, {})
               [] scanned /\ src.defect = "long" -> Failure("pdf_visual_inspection_limit")
               [] scanned /\ src.defect = "none" /\ Len(images) > MaxBlocks -> Failure("too_many_units")
               [] OTHER -> Finish("pdf", images, IF images = <<>> THEN {}
                                  ELSE {[code |-> "ocr_required", ids |-> ImageIds(images)]})

ParseDocument(src) ==
    CASE src.format \in {"txt", "md"} -> ParseLines(src)
      [] src.format = "docx" -> ParseDocx(src)
      [] src.format = "pdf" -> ParsePdf(src)

=============================================================================
