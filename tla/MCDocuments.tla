----------------------------- MODULE MCDocuments -----------------------------
(* Documents and deployments for TLC.                                         *)
EXTENDS DocumentWorkflow

Text(fails)    == [visual |-> FALSE, background |-> FALSE, refreshMayFail |-> fails]
Inline(fails)  == [visual |-> TRUE, background |-> FALSE, refreshMayFail |-> fails]
Queue(fails)   == [visual |-> TRUE, background |-> TRUE, refreshMayFail |-> fails]

AllSetups == {Text(TRUE), Inline(TRUE), Queue(FALSE), Queue(TRUE)}
QueueOnly == {Queue(FALSE)}
TextOnly  == {Text(FALSE)}
=============================================================================
