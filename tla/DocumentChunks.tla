---------------------------- MODULE DocumentChunks ----------------------------
(***************************************************************************)
(* The ingestion pipeline of a document: parsed, cleaned, judged, turned   *)
(* into semantic units, grouped by the distance of their embeddings and    *)
(* cut into the chunks that are indexed (document-cleaner.ts,              *)
(* document-parser-adapter.ts, document-chunker.ts).                       *)
(***************************************************************************)
EXTENDS DocumentBlocks

CONSTANTS
    Sources,      \* the files tried
    Breaks,       \* token |-> the line ends inside a sentence of it
    NearEmpty,    \* characters below which a document needs a review
    MaxFurniture, \* longest header or footer that is recognised
    MaxChunk, MinChunk, Overlap,   \* bounds of the chunker
    Distances     \* dissimilarities of two neighbouring units

\* A sentence has a length, cleaning leaves a text or nothing, and a sentence
\* breaks at its places; the chunker's limits leave room for one character.
ASSUME IngestAssumption ==
    /\ NoText \notin Lexicon /\ DOMAIN Clean = Lexicon /\ DOMAIN Breaks = Lexicon
    /\ \A t \in Lexicon : /\ Sentences[t] \in Seq(Nat \ {0}) /\ Sentences[t] # <<>>
                          /\ Clean[t] \in Lexicon \cup {NoText} /\ Breaks[t] \subseteq Nat
    /\ MaxText \in Nat /\ MaxBlocks \in Nat
    /\ MaxChunk \in Nat \ {0} /\ MinChunk \in Nat /\ Overlap \in Nat
    /\ \A src \in Sources : SourceFile(src)

VARIABLES phase, source, structured, units, dist, groups, mergeIndex, chunks

ingestVars == <<phase, source, structured, units, dist, groups, mergeIndex, chunks>>

-----------------------------------------------------------------------------
(* Cleaning.                                                                *)

NormText(text) == [i \in DOMAIN text |-> IF text[i] = NoText THEN NoText ELSE Clean[text[i]]]

\* Lists and tables keep their empty items; a paragraph drops its empty lines.
NormalizeBlock(b) ==
    [b EXCEPT !.text = IF b.kind \in {"list", "table"} THEN NormText(b.text)
                       ELSE Filled(NormText(b.text))]

Normalize(d) ==
    LET bs == [i \in DOMAIN d.blocks |-> NormalizeBlock(d.blocks[i])]
    IN  Validate([d EXCEPT !.blocks = bs, !.metrics = [@ EXCEPT !.normalized = Chars(bs),
                                                                !.included = IncludedChars(bs)]])

Blank(b) == ToSet(b.text) \subseteq {NoText}

Exclude(b, reason) == [b EXCEPT !.excluded = TRUE, !.reason = reason]

Pages(blocks) == {b.page : b \in ToSet(blocks)} \ {0}

\* The blocks of a page that show something, if it has two of them at least.
OnPage(blocks, p) ==
    LET shown == {i \in DOMAIN blocks : blocks[i].page = p /\ ~blocks[i].excluded /\ ~Blank(blocks[i])}
    IN  IF Cardinality(shown) < 2 THEN {} ELSE shown

Edge(blocks, p, position) ==
    LET shown == OnPage(blocks, p)
    IN  CASE shown = {} -> {}
          [] position = "header" /\ shown # {} -> {Min(shown)}
          [] position = "footer" /\ shown # {} -> {Max(shown)}

Edges(blocks, position) ==
    {i \in UNION {Edge(blocks, p, position) : p \in Pages(blocks)} : TextSize(blocks[i]) <= MaxFurniture}

\* The blocks that stand at the same edge of their page with the same text.
Alike(blocks, position, i) == {j \in Edges(blocks, position) : blocks[j].text = blocks[i].text}

Repeated(blocks, ids) ==
    LET n == Cardinality(Pages(blocks))
    IN  n >= 3 /\ Cardinality(ids) >= 3 /\ 10 * Cardinality(ids) >= 6 * n

Furniture(blocks, position) ==
    {i \in Edges(blocks, position) : Repeated(blocks, Alike(blocks, position, i))}

Suspect(blocks, position) ==
    {i \in Edges(blocks, position) : Cardinality(Alike(blocks, position, i)) >= 2}
        \ Furniture(blocks, position)

Warn(code, ids) == IF ids = {} THEN {} ELSE {[code |-> code, ids |-> ids]}

\* removeRepeatedPdfFurniture
RemoveFurniture(blocks) ==
    [blocks |-> [i \in DOMAIN blocks |->
        CASE i \in Furniture(blocks, "footer") -> Exclude(blocks[i], "repeated_footer")
          [] i \in Furniture(blocks, "header") \ Furniture(blocks, "footer") -> Exclude(blocks[i], "repeated_header")
          [] OTHER -> blocks[i]],
     warnings |->
        Warn("repeated_header_removed", Furniture(blocks, "header"))
        \cup Warn("repeated_footer_removed", Furniture(blocks, "footer"))
        \cup Warn("possible_repeated_header_retained", Suspect(blocks, "header"))
        \cup Warn("possible_repeated_footer_retained", Suspect(blocks, "footer"))]

Duplicates(blocks) ==
    LET texts == {i \in DOMAIN blocks : ~blocks[i].excluded /\ blocks[i].kind # "image_ref" /\ ~Blank(blocks[i])}
    IN  Warn("duplicate_blocks_detected",
             {i \in texts : \E j \in texts \ {i} : blocks[j].text = blocks[i].text})

MergeWarnings(ws) ==
    {[code |-> c, ids |-> UNION {w.ids : w \in {v \in ws : v.code = c}}] : c \in {w.code : w \in ws}}

CleanDocument(d) ==
    LET marked == [i \in DOMAIN d.blocks |->
                      IF Blank(d.blocks[i]) /\ d.blocks[i].kind # "image_ref"
                      THEN Exclude(d.blocks[i], "empty_after_cleaning") ELSE d.blocks[i]]
        r == IF d.format = "pdf" THEN RemoveFurniture(marked) ELSE [blocks |-> marked, warnings |-> {}]
    IN  Validate([d EXCEPT
            !.blocks = r.blocks,
            !.warnings = MergeWarnings(@ \cup r.warnings \cup Duplicates(r.blocks)),
            !.metrics = [input |-> @.input, normalized |-> @.normalized,
                         included |-> IncludedChars(r.blocks),
                         blocks |-> Len(r.blocks), includedBlocks |-> Cardinality(Included(r.blocks)),
                         excludedBlocks |-> Len(r.blocks) - Cardinality(Included(r.blocks)),
                         pages |-> Cardinality(Pages(r.blocks))]])

Codes(d) == {w.code : w \in d.warnings}

\* evaluateDocumentQuality
Quality(d) ==
    LET chars == d.metrics.included
        image == \E b \in ToSet(d.blocks) : ~b.excluded /\ b.kind = "image_ref"
    IN  CASE chars = 0 /\ image -> "review_required"
          [] chars = 0 /\ ~image -> "rejected"
          [] chars > 0 /\ (chars < NearEmpty \/ "table_vertical_merge_limited" \in Codes(d)) -> "review_required"
          [] OTHER -> "ready"

-----------------------------------------------------------------------------
(* Semantic units.                                                          *)

Structural(u) == u.kind \in {"list", "table", "key_value"}

\* A line's sentences: the newline before it belongs to the first of them.
SentencesOf(token, i) ==
    CASE token = NoText -> <<>>
      [] token # NoText /\ i = 1 -> Sentences[token]
      [] OTHER -> [Sentences[token] EXCEPT ![1] = @ + 1]

\* renderBlockText and structuralParts: the items of a structural unit, the
\* sentences of any other one.
UnitOf(b, heads) ==
    LET rows == [i \in DOMAIN b.text |-> Size(b.text[i])]
        isTable == b.kind = "table" /\ b.header
    IN  [block |-> b.id, kind |-> b.kind, path |-> b.path,
         cites |-> (heads \ {0}) \cup {b.id},
         size |-> Sum(rows) + Len(rows) - 1,
         header |-> IF isTable THEN rows[1] ELSE 0,
         parts |-> CASE b.kind \in {"list", "table"} -> IF isTable THEN Tail(rows) ELSE rows
                     [] OTHER -> FlattenSeq([i \in DOMAIN b.text |-> SentencesOf(b.text[i], i)]),
         breaks |-> IF b.kind \in {"list", "table"} THEN {}
                    ELSE UNION {Breaks[t] : t \in ToSet(b.text) \ {NoText}}]

\* The headings in force: one slot per level, those below a new one are closed.
Heads(heads, b) ==
    IF b.kind # "heading" THEN heads
    ELSE [l \in 1 .. 6 |-> CASE l < b.level -> heads[l] [] l = b.level -> b.id [] l > b.level -> 0]

AddUnit(acc, b) ==
    IF b.excluded \/ b.kind = "image_ref" THEN acc
    ELSE LET h == Heads(acc.heads, b)
         IN  [heads |-> h, units |-> IF Blank(b) THEN acc.units
                                     ELSE Append(acc.units, UnitOf(b, {h[l] : l \in 1 .. 6}))]

SemanticUnits(d) == FoldLeft(AddUnit, [heads |-> [l \in 1 .. 6 |-> 0], units |-> <<>>], d.blocks).units

-----------------------------------------------------------------------------
(* Splitting a unit that is longer than a chunk.  Pieces are lengths.       *)

\* The end of the piece that begins at start: a line end of the last two
\* fifths when there is one.
PieceEnd(length, breaks, start) ==
    LET most == start + MaxChunk
        good == {b \in breaks : b - start >= (MaxChunk * 6) \div 10 /\ b < most}
    IN  IF most >= length THEN length ELSE IF good = {} THEN most ELSE Max(good) + 1

Piece(length, breaks, start) == [from |-> start, to |-> PieceEnd(length, breaks, start)]

\* One turn of the loop of hardSplit, which ends with the sentence.
NextPiece(length, breaks, pieces) ==
    LET p == Last(pieces)
    IN  IF p.to >= length THEN pieces
        ELSE Append(pieces, Piece(length, breaks,
                 IF p.from + 1 > p.to - Overlap THEN p.from + 1 ELSE p.to - Overlap))

\* hardSplit: the pieces of a sentence, as intervals [from, to).
HardSplit(length, breaks) ==
    FoldLeft(LAMBDA pieces, turn : NextPiece(length, breaks, pieces),
             <<Piece(length, breaks, 0)>>, [turn \in 1 .. length |-> turn])

Lengths(pieces) == [i \in DOMAIN pieces |-> pieces[i].to - pieces[i].from]

AddSentence(breaks, acc, sentence) ==
    CASE sentence > MaxChunk ->
            [done |-> acc.done \o (IF acc.current > 0 THEN <<acc.current>> ELSE <<>>)
                      \o Lengths(HardSplit(sentence, breaks)), current |-> 0]
      [] sentence <= MaxChunk /\ acc.current > 0 /\ acc.current + sentence > MaxChunk ->
            [done |-> Append(acc.done, acc.current), current |-> sentence]
      [] OTHER -> [acc EXCEPT !.current = @ + sentence]

SplitSentences(u) ==
    LET r == FoldLeft(LAMBDA acc, s : AddSentence(u.breaks, acc, s), [done |-> <<>>, current |-> 0], u.parts)
    IN  IF r.current > 0 THEN Append(r.done, r.current) ELSE r.done

AddItem(header, acc, item) ==
    LET joined == IF acc.current > 0 THEN acc.current + 1 + item ELSE item
    IN  IF joined > MaxChunk /\ acc.items > 0
        THEN [done |-> Append(acc.done, acc.current), items |-> 1,
              current |-> IF header > 0 THEN header + 1 + item ELSE item]
        ELSE [acc EXCEPT !.current = joined, !.items = @ + 1]

TooLarge(u) ==
    \/ u.parts = <<>>
    \/ \E i \in DOMAIN u.parts : u.parts[i] + (IF u.header > 0 THEN u.header + 1 ELSE 0) > MaxChunk

SplitItems(u) ==
    LET r == FoldLeft(LAMBDA acc, i : AddItem(u.header, acc, i),
                      [done |-> <<>>, current |-> u.header, items |-> 0], u.parts)
    IN  IF r.items > 0 THEN Append(r.done, r.current) ELSE r.done

SplitLongUnit(u) ==
    IF u.size <= MaxChunk THEN <<u>>
    ELSE LET sizes == IF Structural(u) THEN SplitItems(u) ELSE SplitSentences(u)
         IN  [i \in DOMAIN sizes |-> [u EXCEPT !.size = sizes[i]]]

Refused(us) == \E u \in ToSet(us) : u.size > MaxChunk /\ Structural(u) /\ TooLarge(u)

-----------------------------------------------------------------------------
(* Grouping by distance.                                                    *)

\* percentile(values, 0.9), times ten.
Percentile90(d) ==
    LET s == SortSeq(d, <)
        position == (Len(s) - 1) * 9
        lower == s[(position \div 10) + 1]
    IN  IF position % 10 = 0 THEN 10 * lower
        ELSE 10 * lower + (s[(position \div 10) + 2] - lower) * (position % 10)

Boundary(us, d, i) ==
    \/ Structural(us[i]) \/ Structural(us[i + 1]) \/ us[i + 1].kind = "heading"
    \/ us[i].kind # "heading" /\ d[i] > 0 /\ 10 * d[i] >= Percentile90(d)

\* A group is the sequence of its units.
AddToGroups(us, d, gs, i) ==
    IF gs = <<>> \/ Boundary(us, d, i - 1) THEN Append(gs, <<i>>)
    ELSE [gs EXCEPT ![Len(gs)] = Append(@, i)]

NaturalGroups(us, d) ==
    FoldLeft(LAMBDA gs, i : AddToGroups(us, d, gs, i), <<>>, [i \in DOMAIN us |-> i])

\* The text of a group joins its units with two newlines.
GroupSize(us, g) == Sum([i \in DOMAIN g |-> us[g[i]].size]) + 2 * (Len(g) - 1)

HasStructural(us, g) == \E i \in ToSet(g) : Structural(us[i])

Infinity == 1 + Max(Distances)

\* The neighbour a short group would join: the nearer one, the previous when equal.
Target(gs, d, i) ==
    LET before == IF i > 1 THEN d[gs[i][1] - 1] ELSE Infinity
        after == IF i < Len(gs) THEN d[Last(gs[i])] ELSE Infinity
    IN  IF before <= after THEN i - 1 ELSE i + 1

Join(gs, i, j) == LET a == IF i < j THEN i ELSE j IN gs[a] \o gs[a + 1]

Mergeable(us, gs, d, i) ==
    LET t == Target(gs, d, i)
    IN  /\ ~HasStructural(us, gs[i])
        /\ GroupSize(us, gs[i]) < MinChunk
        /\ t \in DOMAIN gs /\ ~HasStructural(us, gs[t])
        /\ GroupSize(us, Join(gs, i, t)) <= MaxChunk

Merged(gs, i, j) ==
    LET a == IF i < j THEN i ELSE j
    IN  SubSeq(gs, 1, a - 1) \o <<Join(gs, i, j)>> \o SubSeq(gs, a + 2, Len(gs))

\* splitGroupUnits: the units of one group, packed in their order.
Pack(us, acc, i) ==
    LET n == Len(acc)
    IN  IF acc[n] # <<>> /\ GroupSize(us, acc[n]) + 2 + us[i].size > MaxChunk
        THEN Append(acc, <<i>>) ELSE [acc EXCEPT ![n] = Append(@, i)]

Chunks(us, gs) ==
    FlattenSeq([g \in DOMAIN gs |-> FoldLeft(LAMBDA acc, i : Pack(us, acc, i), <<<<>>>>, gs[g])])

-----------------------------------------------------------------------------
(* The pipeline, one stage at a time.                                       *)

IngestInit ==
    /\ phase = "parse" /\ source \in Sources
    /\ structured = Failure("none yet") /\ units = <<>> /\ dist = <<>> /\ groups = <<>> /\ mergeIndex = 1 /\ chunks = <<>>

FailWith(code) == structured' = Failure(code) /\ phase' = "failed"

Parse ==
    /\ phase = "parse"
    /\ structured' = ParseDocument(source)
    /\ phase' = IF IsDoc(structured') THEN "clean" ELSE "failed"
    /\ UNCHANGED <<source, units, dist, groups, mergeIndex, chunks>>

CleanParsed ==
    /\ phase = "clean"
    /\ LET n == Normalize(structured)
       IN  structured' = IF IsDoc(n) THEN CleanDocument(n) ELSE n
    /\ phase' = CASE ~IsDoc(structured') -> "failed"
                  [] IsDoc(structured') /\ Quality(structured') = "ready" -> "unit"
                  [] OTHER -> "refused"
    /\ UNCHANGED <<source, units, dist, groups, mergeIndex, chunks>>

\* The units, split where they are too long.
MakeUnits ==
    LET us == SemanticUnits(structured)
    IN  /\ phase = "unit"
        /\ \/ /\ Refused(us)
              /\ FailWith("structural_unit_too_large")
              /\ UNCHANGED units
           \/ /\ ~Refused(us)
              /\ units' = FlattenSeq([i \in DOMAIN us |-> SplitLongUnit(us[i])])
              /\ phase' = "embed"
              /\ UNCHANGED structured
        /\ UNCHANGED <<source, dist, groups, mergeIndex, chunks>>

\* The provider answers with a vector per unit, or not.
EmbedUnits ==
    /\ phase = "embed"
    /\ \/ /\ FailWith("embedding_failed")
          /\ UNCHANGED <<dist, groups>>
       \/ /\ dist' \in [1 .. Len(units) - 1 -> Distances]
          /\ groups' = NaturalGroups(units, dist')
          /\ phase' = "merge"
          /\ UNCHANGED structured
    /\ UNCHANGED <<source, units, mergeIndex, chunks>>

\* One turn of the loop of mergeShortGroups.
MergeShort ==
    /\ phase = "merge" /\ Len(groups) > 1 /\ mergeIndex <= Len(groups)
    /\ IF Mergeable(units, groups, dist, mergeIndex)
       THEN LET t == Target(groups, dist, mergeIndex)
                a == IF t < mergeIndex THEN t ELSE mergeIndex
            IN  /\ groups' = Merged(groups, mergeIndex, t)
                /\ mergeIndex' = IF a > 1 THEN a - 1 ELSE 1
       ELSE groups' = groups /\ mergeIndex' = mergeIndex + 1
    /\ UNCHANGED <<phase, source, structured, units, dist, chunks>>

CutChunks ==
    /\ phase = "merge" /\ (Len(groups) = 1 \/ mergeIndex > Len(groups))
    /\ chunks' = Chunks(units, groups)
    /\ phase' = "done"
    /\ UNCHANGED <<source, structured, units, dist, groups, mergeIndex>>

IngestNext == Parse \/ CleanParsed \/ MakeUnits \/ EmbedUnits \/ MergeShort \/ CutChunks

-----------------------------------------------------------------------------
\* The pieces of an overlong sentence cover it, in order and with no gap.
PiecesCover(n, breaks) ==
    LET ps == HardSplit(n, breaks)
    IN  /\ ps[1].from = 0 /\ Last(ps).to = n
        /\ \A i \in 2 .. Len(ps) : ps[i - 1].from < ps[i].from /\ ps[i].from <= ps[i - 1].to
        /\ \A i \in DOMAIN ps : ps[i].to - ps[i].from <= MaxChunk

\* Everything a document shows is in its chunks once and in its order, however
\* the units were split, grouped, merged and packed again (semanticChunkPlan).
NothingLost ==
    phase = "done" =>
        /\ FlattenSeq(chunks) = [i \in 1 .. Len(units) |-> i]
        /\ {units[i].block : i \in DOMAIN units}
             = {b.id : b \in {x \in ToSet(structured.blocks) : ~x.excluded /\ x.kind # "image_ref"}}
        /\ \A u \in ToSet(units) : \A i \in DOMAIN u.parts :
               u.parts[i] > 0 => PiecesCover(u.parts[i], u.breaks)

\* No chunk is longer than the limit, and a list or a table shares its chunk
\* with nothing else: merging and packing may not undo what the boundaries did.
ChunksBounded ==
    phase = "done" => \A c \in ToSet(chunks) :
        /\ GroupSize(units, c) <= MaxChunk
        /\ HasStructural(units, c) => Len(c) = 1

\* What a file says: its lines, its paragraphs and rows, the texts of its pages.
Shown(src) ==
    CASE src.format \in {"txt", "md"} ->
            FlattenSeq([i \in DOMAIN src.lines |->
                IF src.lines[i].kind \in {"blank", "fence"} THEN <<>> ELSE <<src.lines[i].token>>])
      [] src.format = "docx" ->
            FlattenSeq([i \in DOMAIN src.children |->
                Filled(IF src.children[i].kind = "tbl" THEN src.children[i].rows ELSE <<src.children[i].token>>)])
      [] src.format = "pdf" -> FlattenSeq([p \in DOMAIN src.pages |-> src.pages[p].texts])

\* Every line of the source is in exactly one block and the blocks keep its
\* order: nothing that is being gathered is dropped or overtaken (parseMarkdown,
\* parsePdf, parseDocx: the flushes).
KeepsLines ==
    phase = "clean" =>
        FlattenSeq([i \in DOMAIN structured.blocks |-> Filled(structured.blocks[i].text)]) = Shown(source)

\* Cleaning never hides a text that fewer than three pages repeat, and what it
\* leaves is a valid document (cleanNormalizedStructuredDocument,
\* removeRepeatedPdfFurniture, validateDocumentIR).
CleaningIsSafe ==
    /\ phase \in {"unit", "refused"} =>
        \A i \in DOMAIN structured.blocks :
            LET same == {j \in DOMAIN structured.blocks : structured.blocks[j].text = structured.blocks[i].text}
            IN  structured.blocks[i].reason \in {"repeated_header", "repeated_footer"}
                  => Cardinality({structured.blocks[j].page : j \in same}) >= 3
    /\ phase = "failed" /\ IsDoc(ParseDocument(source)) => structured.error # "invalid_representation"

\* The headings a unit cites are among those its path names: the two are kept
\* by different code, one before and one after cleaning, and agree unless cleaning
\* left nothing of a heading, which then closes no other one
\* (structuredDocumentToSemanticUnits, updateHeadingPath).
CitesItsPath ==
    \A u \in ToSet(units) : \A id \in u.cites \ {u.block} :
        LET named == {Clean[t] : t \in ToSet(u.path)}
        IN  structured.error = "none" => structured.blocks[id].text[1] \in named \/ NoText \in named

\* From parseMarkdown to semanticChunkPlan no line of a file is
\* lost, cleaning excludes nothing but what repeats, and the chunks hold the
\* rest unit by unit, each within the limit and citing the headings it stands
\* under.
IngestKeepsText == KeepsLines /\ CleaningIsSafe /\ CitesItsPath /\ NothingLost /\ ChunksBounded

=============================================================================
