------------------------------- MODULE SampleFiles -------------------------------
(***************************************************************************)
(* The files and scans that the documents of Algorithms are made of.  They *)
(* cover every branch of the parsers: every short Markdown text over eight *)
(* kinds of lines, and chosen longer ones, pages and elements.             *)
(***************************************************************************)
EXTENDS Integers, Sequences, TLC

\* The sentences of a token by their lengths, scaled down; "ctl" holds control
\* characters only, "long" has a sentence that is longer than a chunk.
SampleSentences ==
    [a |-> <<1>>, p |-> <<2>>, q |-> <<2, 2>>, long |-> <<3, 9, 2>>, item |-> <<2>>,
     wide |-> <<7>>, ctl |-> <<1>>, top |-> <<2>>, end |-> <<2>>]
SampleClean == [t \in DOMAIN SampleSentences |-> IF t = "ctl" THEN "" ELSE t]
SampleBreaks == [t \in DOMAIN SampleSentences |-> IF t = "long" THEN {4} ELSE {}]

Line(kind, token, level, ordered) == [kind |-> kind, token |-> token, level |-> level, ordered |-> ordered]
Lines ==
    [h1 |-> Line("heading", "a", 1, FALSE), none |-> Line("heading", "ctl", 1, FALSE), h3 |-> Line("heading", "p", 3, FALSE),
     p |-> Line("text", "p", 0, FALSE), long |-> Line("text", "long", 0, FALSE),
     ctl |-> Line("text", "ctl", 0, FALSE), ul |-> Line("item", "item", 0, FALSE),
     ol |-> Line("item", "q", 0, TRUE), wide |-> Line("item", "wide", 0, FALSE),
     blank |-> Line("blank", "", 0, FALSE), fence |-> Line("fence", "", 0, FALSE)]
File(format, kinds) == [format |-> format, defect |-> "none", lines |-> [i \in DOMAIN kinds |-> Lines[kinds[i]]]]

Markdown ==
    {File("md", s) : s \in UNION {[1 .. n -> {"h1", "h3", "p", "ctl", "ul", "ol", "blank", "fence"}] : n \in 1 .. 3}}
    \cup {File("md", s) : s \in {
       <<"h1", "p", "blank", "p", "blank", "p", "blank", "ul", "ul", "ul", "p">>,
       <<"h1", "h3", "p", "blank", "p", "h1", "p", "blank", "p">>,
       <<"p", "blank", "p", "blank", "p", "blank", "p", "blank", "p", "blank", "p">>,
       <<"ul", "wide", "p">>, <<"long", "p">>, <<"h1", "long">>, <<"p", "blank", "long", "blank", "p">>,
       <<"h3", "p", "none", "p", "blank", "p">>, <<"none", "h3", "p", "h1", "p">>,
       <<"ul", "ol", "ol", "ul", "blank", "h1", "long", "blank", "p">>, <<"p", "fence", "p", "blank", "p">>}}

PlainText ==
    {File("txt", s) : s \in {<<"p", "p", "blank", "ul", "p">>, <<"blank", "long">>, <<"ctl">>}}
    \cup {[File("txt", <<"p">>) EXCEPT !.defect = "not_utf8"]}

Para(list, level, token, image) ==
    [kind |-> "p", list |-> list, level |-> level, token |-> token, image |-> image,
     rows |-> <<>>, header |-> FALSE, merged |-> FALSE]
Rows(rows, header, merged) ==
    [Para(FALSE, 0, "", FALSE) EXCEPT !.kind = "tbl", !.rows = rows, !.header = header, !.merged = merged]
Docx(children) == [format |-> "docx", defect |-> "none", children |-> children]
WordFiles ==
    {Docx(c) : c \in {
       <<Para(FALSE, 1, "a", FALSE), Para(TRUE, 0, "item", TRUE), Para(TRUE, 0, "q", FALSE), Para(FALSE, 0, "p", FALSE)>>,
       <<Para(FALSE, 0, "p", TRUE), Rows(<<"p", "p", "q", "p">>, TRUE, FALSE), Para(FALSE, 0, "p", FALSE)>>,
       <<Para(FALSE, 0, "", TRUE)>>, <<Rows(<<"p", "wide">>, FALSE, TRUE)>>, <<Rows(<<"p", "ctl">>, TRUE, TRUE)>>,
       <<Rows(<<"q", "p">>, TRUE, FALSE), Rows(<<"p", "q">>, FALSE, FALSE)>>, <<>>}}
    \cup {[Docx(<<>>) EXCEPT !.defect = d] : d \in {"no_body", "many_entries"}}

Page(texts, images) == [texts |-> texts, images |-> images]
Pdf(pages) == [format |-> "pdf", defect |-> "none", pages |-> pages]
PdfFiles ==
    {Pdf(p) : p \in
       [1 .. 3 -> {Page(<<"top", "p">>, 0), Page(<<"top", "end">>, 1), Page(<<"q">>, 0), Page(<<>>, 1)}]
       \cup {<<Page(<<"top", "p", "end">>, 0), Page(<<"top", "q", "end">>, 0), Page(<<"top", "end">>, 0), Page(<<"p">>, 0)>>,
             <<Page(<<"q", "top">>, 0), Page(<<"top", "p">>, 0), Page(<<"top", "q">>, 0)>>}}
    \cup {[Pdf(<<Page(<<>>, 1)>>) EXCEPT !.defect = d] : d \in {"encrypted", "broken", "many_pages", "long"}}

SampleSources == Markdown \cup PlainText \cup WordFiles \cup PdfFiles

-----------------------------------------------------------------------------
(* What the OCR engine finds: a page of everything, one whose layout is     *)
(* empty, one of pictures and titles, an empty one; a table cell that       *)
(* reaches down, and one that reaches too far.                              *)

Item(label, words, score) == [label |-> label, words |-> words, score |-> score]
Text(words) == [words |-> words, score |-> -1]
Cell(row, rows, cols) == [row |-> row, rows |-> rows, cols |-> cols]
Grid == <<Cell(0, 1, 1), Cell(0, 2, 1), Cell(1, 1, 1), Cell(1, 1, 1), Cell(2, 1, 2), Cell(2, 1, 1)>>
PageOf(index, items, tables, lines) == [index |-> index, items |-> items, tables |-> tables, lines |-> lines]

FullPage ==
    PageOf(0, <<Item("text", <<"a">>, 90), Item("title", <<"h">>, 50), Item("text", <<>>, 90), Item("list", <<"b", "c">>, -1),
                  Item("table", <<"t">>, 80), Item("table", <<"u">>, 80)>>, <<Grid>>, <<Text(<<"z">>)>>)
Scan ==
    <<FullPage, PageOf(1, <<Item("text", <<>>, 90)>>, <<>>, <<Text(<<"x">>), Text(<<>>), Text(<<"y">>)>>),
      PageOf(2, <<Item("image", <<>>, -1), Item("title", <<"k">>, 70), Item("title", <<"l">>, 70),
                    Item("key_value", <<"v">>, 10)>>, <<>>, <<>>),
      PageOf(3, <<>>, <<>>, <<>>)>>

SampleScans ==
    [good |-> Scan, second |-> <<[FullPage EXCEPT !.index = -1, !.tables = <<Grid \o <<Cell(3, 9, 9)>>>>]>>,
     refused |-> <<>>]
SampleDefects == [good |-> {}, second |-> {}, refused |-> {"contract", "hash"}]
=============================================================================
