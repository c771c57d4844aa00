----------------------------- MODULE ReviewDialog -----------------------------
(***************************************************************************)
(* The review of a scanned document by several administrators at once      *)
(* (useDocumentReviewDraft.ts, DocumentReviewDialog.tsx) against the draft *)
(* of the server (document.service.ts, document-review.repo.ts).  Calls    *)
(* travel: they are served and answered in any order, and may fail before  *)
(* or after they took effect.                                              *)
(***************************************************************************)
EXTENDS Naturals, FiniteSets

CONSTANTS
    Reviewers,    \* browsers with the documents page open
    Documents,
    MaxDrafts,    \* bound on the extractions of a document
    MaxRevision,  \* bound on the revisions of the drafts
    MaxCalls,     \* bound on the calls under way
    MaxFailures   \* bound on the calls and publications that fail

ASSUME ReviewAssumption ==
    /\ MaxDrafts \in Nat \ {0} /\ MaxRevision \in Nat \ {0}
    /\ MaxCalls \in Nat /\ MaxFailures \in Nat

VARIABLES
    drafts,   \* of each document: its latest draft
    dialogs,  \* of each reviewer: the review dialog, mounted all the time
    calls,    \* the calls under way
    failures  \* how many failed

reviewVars == <<drafts, dialogs, calls, failures>>

\* The blocks of a draft: the extraction they come from, and who corrected them.
Text == [document : Documents, draft : 1..MaxDrafts, edits : SUBSET Reviewers]
NoText == [document |-> "none", draft |-> 0, edits |-> {}]
MaybeText == Text \cup {NoText}
Status == {"none", "open", "published"}

\* failed: the last publication failed, so the page offers a new extraction.
Draft == [number : 1..MaxDrafts, revision : 1..MaxRevision, status : Status, text : Text,
          failed : BOOLEAN]
Dialog == [document : Documents \cup {"none"}, revision : 0..MaxRevision, status : Status,
           text : MaybeText, dirty : BOOLEAN, loading : BOOLEAN, saving : BOOLEAN,
           publishing : BOOLEAN]
\* shown: what the reviewer sees at the click.  during: what a reload is part of.
Call == [id : 1..MaxCalls, by : Reviewers, kind : {"load", "save", "publish"},
         document : Documents, revision : 0..MaxRevision, status : Status, text : MaybeText,
         shown : MaybeText, during : {"none", "saving", "publishing"},
         stage : {"sent", "building", "ok", "conflict", "failed"}]

ReviewTypeOK ==
    /\ drafts \in [Documents -> Draft]
    /\ dialogs \in [Reviewers -> Dialog]
    /\ calls \subseteq Call /\ failures \in 0..MaxFailures

Closed == [document |-> "none", revision |-> 0, status |-> "none", text |-> NoText, dirty |-> FALSE,
           loading |-> FALSE, saving |-> FALSE, publishing |-> FALSE]
Extraction(d, n) == [number |-> n, revision |-> 1, status |-> "open", failed |-> FALSE,
                     text |-> [document |-> d, draft |-> n, edits |-> {}]]

ReviewInit ==
    /\ drafts = [d \in Documents |-> Extraction(d, 1)]
    /\ dialogs = [r \in Reviewers |-> Closed]
    /\ calls = {} /\ failures = 0

-----------------------------------------------------------------------------
(* The dialog.                                                             *)

MayCall == Cardinality(calls) < MaxCalls
FreeId(others) == CHOOSE i \in 1..MaxCalls : \A c \in others : c.id # i

NewCall(r, kind, d, others) ==
    LET of(kinds, value, default) == IF kind \in kinds THEN value ELSE default IN
    [id |-> FreeId(others), by |-> r, kind |-> kind, document |-> d, stage |-> "sent",
     revision |-> of({"save", "publish"}, dialogs[r].revision, 0),
     text |-> of({"save"}, dialogs[r].text, NoText),
     shown |-> of({"publish"}, dialogs[r].text, NoText), status |-> "none", during |-> "none"]

Fails == failures < MaxFailures /\ failures' = failures + 1

Update(r, dialog) == dialogs' = [dialogs EXCEPT ![r] = dialog]
Send(r, kind, d) == MayCall /\ calls' = calls \cup {NewCall(r, kind, d, calls)}

\* The effect on document?.id clears the draft and leaves the three flags.
Cleared(r, d) == [dialogs[r] EXCEPT !.document = d, !.revision = 0, !.status = "none",
                                    !.text = NoText, !.dirty = FALSE]

\* The page offers the review of a draft that is open.
Open(r, d) ==
    /\ dialogs[r].document = "none" /\ drafts[d].status = "open"
    /\ Update(r, [Cleared(r, d) EXCEPT !.loading = TRUE])
    /\ Send(r, "load", d)
    /\ UNCHANGED <<drafts, failures>>

\* requestClose: unsaved edits may be discarded.
Close(r) ==
    /\ dialogs[r].document # "none"
    /\ Update(r, Cleared(r, "none"))
    /\ UNCHANGED <<drafts, calls, failures>>

Reload(r) ==
    /\ dialogs[r].document # "none"
    /\ ~dialogs[r].loading /\ ~dialogs[r].saving /\ ~dialogs[r].publishing
    /\ Update(r, [dialogs[r] EXCEPT !.loading = TRUE])
    /\ Send(r, "load", dialogs[r].document)
    /\ UNCHANGED <<drafts, failures>>

\* The editor is there unless a load is under way, whatever else is.
Edit(r) ==
    /\ dialogs[r].document # "none" /\ ~dialogs[r].loading /\ dialogs[r].text # NoText
    /\ Update(r, [dialogs[r] EXCEPT !.text.edits = @ \cup {r}, !.dirty = TRUE])
    /\ UNCHANGED <<drafts, calls, failures>>

Save(r) ==
    /\ dialogs[r].document # "none" /\ dialogs[r].status = "open"
    /\ dialogs[r].dirty /\ ~dialogs[r].saving
    /\ Update(r, [dialogs[r] EXCEPT !.saving = TRUE])
    /\ Send(r, "save", dialogs[r].document)
    /\ UNCHANGED <<drafts, failures>>

Publish(r) ==
    /\ dialogs[r].document # "none" /\ dialogs[r].status = "open" /\ dialogs[r].text # NoText
    /\ ~dialogs[r].dirty /\ ~dialogs[r].publishing
    /\ Update(r, [dialogs[r] EXCEPT !.publishing = TRUE])
    /\ Send(r, "publish", dialogs[r].document)
    /\ UNCHANGED <<drafts, failures>>

-----------------------------------------------------------------------------
(* The server: a call names the document, never the draft.                 *)

Reply(c, answer) == calls' = (calls \ {c}) \cup {answer}
\* An answer without a draft.
Ended(c, stage) == [c EXCEPT !.stage = stage, !.revision = 0, !.text = NoText, !.shown = NoText]
Ends(c, stage) == Reply(c, Ended(c, stage))
WithDraft(c, draft) == [c EXCEPT !.stage = "ok", !.revision = draft.revision,
                                 !.status = draft.status, !.text = draft.text]

\* Mutant: the expected revision is not compared.
StillOpen(draft, revision) == draft.status = "open"

IsCurrent(draft, revision) == draft.status = "open" /\ draft.revision = revision

ServeLoad(c) ==
    /\ c.kind = "load" /\ c.stage = "sent"
    /\ Reply(c, WithDraft(c, drafts[c.document]))
    /\ UNCHANGED <<drafts, dialogs, failures>>

\* updateReviewDraft, replaceDraftBlocks: the blocks of another extraction may
\* not be those of the draft.
ServeSave(c) ==
    /\ c.kind = "save" /\ c.stage = "sent"
    /\ LET draft == drafts[c.document]
           saved == [draft EXCEPT !.revision = @ + 1, !.text = c.text]
       IN \/ /\ IsCurrent(draft, c.revision) /\ draft.number + draft.revision <= MaxRevision
             /\ drafts' = [drafts EXCEPT ![c.document] = saved]
             /\ \/ Reply(c, WithDraft(c, saved)) /\ UNCHANGED failures
                \/ Ends(c, "failed") /\ Fails
          \/ /\ ~IsCurrent(draft, c.revision) \/ c.text.draft # draft.number
             /\ Ends(c, "conflict") /\ UNCHANGED <<drafts, failures>>
    /\ UNCHANGED dialogs

\* publishReviewDraft up to the embedding: text is what will be published,
\* unless a warning is left to resolve.
ServePublish(c) ==
    /\ c.kind = "publish" /\ c.stage = "sent"
    /\ LET draft == drafts[c.document] IN
       \/ IsCurrent(draft, c.revision) /\ Reply(c, [c EXCEPT !.stage = "building", !.text = draft.text])
       \/ Ends(c, "conflict")
    /\ UNCHANGED <<drafts, dialogs, failures>>

\* publishDraft: the revision again, in the transaction.
Published(c) ==
    /\ c.stage = "building" /\ IsCurrent(drafts[c.document], c.revision)
    /\ drafts' = [drafts EXCEPT ![c.document].status = "published"]
    /\ \/ Ends(c, "ok") /\ UNCHANGED failures
       \/ Ends(c, "failed") /\ Fails
    /\ UNCHANGED dialogs

\* The publication fails, or comes too late, and the document is marked failed.
PublicationFails(c) ==
    /\ c.stage = "building"
    /\ IF IsCurrent(drafts[c.document], c.revision) THEN Fails ELSE UNCHANGED failures
    /\ drafts' = [drafts EXCEPT ![c.document].failed = (drafts[c.document].status = "open")]
    /\ Ends(c, "failed")
    /\ UNCHANGED dialogs

\* A call that never arrives.
CallFails(c) ==
    /\ c.stage = "sent" /\ Fails
    /\ Ends(c, "failed")
    /\ UNCHANGED <<drafts, dialogs>>

\* retry of a failed document: a new extraction and its draft.  Bound: no call
\* is under way; a retry that runs beside others is in DocumentWorkflow.
Reextract(d) ==
    /\ drafts[d].failed /\ drafts[d].number < MaxDrafts
    /\ \A c \in calls : c.document # d
    /\ drafts' = [drafts EXCEPT ![d] = Extraction(d, @.number + 1)]
    /\ UNCHANGED <<dialogs, calls, failures>>

-----------------------------------------------------------------------------
(* The answers: they change the dialog as it is now.                       *)

AtRest(dialog, during) ==
    [dialog EXCEPT !.saving = @ /\ during # "saving", !.publishing = @ /\ during # "publishing"]
WithAnswer(dialog, c) == [dialog EXCEPT !.revision = c.revision, !.status = c.status,
                                        !.text = c.text, !.dirty = FALSE]

\* loadDraft.
Loaded(c) ==
    /\ c.kind = "load" /\ c.stage \in {"ok", "failed"}
    /\ LET dialog == [AtRest(dialogs[c.by], c.during) EXCEPT !.loading = FALSE] IN
       Update(c.by, IF c.stage = "ok" THEN WithAnswer(dialog, c) ELSE dialog)
    /\ calls' = calls \ {c}
    /\ UNCHANGED <<drafts, failures>>

\* saveDraft.
Saved(c) ==
    /\ c.kind = "save" /\ c.stage \in {"ok", "failed"}
    /\ LET dialog == [dialogs[c.by] EXCEPT !.saving = FALSE] IN
       Update(c.by, IF c.stage = "ok" THEN WithAnswer(dialog, c) ELSE dialog)
    /\ calls' = calls \ {c}
    /\ UNCHANGED <<drafts, failures>>

\* publishDraft: onClose closes the dialog whatever document it shows by then.
PublishEnds(c) ==
    /\ c.kind = "publish" /\ c.stage \in {"ok", "failed"}
    /\ LET dialog == IF c.stage = "ok" THEN Cleared(c.by, "none") ELSE dialogs[c.by] IN
       Update(c.by, [dialog EXCEPT !.publishing = FALSE])
    /\ calls' = calls \ {c}
    /\ UNCHANGED <<drafts, failures>>

\* A conflict reloads the document that was saved or published, and only then
\* ends the saving or the publishing.
Refused(c) ==
    /\ c.stage = "conflict"
    /\ Update(c.by, [dialogs[c.by] EXCEPT !.loading = TRUE])
    /\ LET load == NewCall(c.by, "load", c.document, calls \ {c}) IN
       calls' = (calls \ {c}) \cup
         {[load EXCEPT !.during = IF c.kind = "save" THEN "saving" ELSE "publishing"]}
    /\ UNCHANGED <<drafts, failures>>

ReviewNext ==
    \/ \E r \in Reviewers :
         \/ \E d \in Documents : Open(r, d)
         \/ Close(r) \/ Reload(r) \/ Edit(r) \/ Save(r) \/ Publish(r)
    \/ \E c \in calls :
         \/ ServeLoad(c) \/ ServeSave(c) \/ ServePublish(c)
         \/ Published(c) \/ PublicationFails(c) \/ CallFails(c)
         \/ Loaded(c) \/ Saved(c) \/ PublishEnds(c) \/ Refused(c)
    \/ \E d \in Documents : Reextract(d)

ReviewSpec == ReviewInit /\ [][ReviewNext]_reviewVars

-----------------------------------------------------------------------------
(* Properties.                                                             *)

\* Of a document that was extracted once: a call names the document and a
\* revision, and the first revision of every draft is 1.
OneExtraction(d) == drafts'[d].number = 1

\* No answer came after another document was opened: the dialog would show the
\* draft it carries under the name of the other one.
AnswersStay == \A r \in Reviewers :
    dialogs[r].document # "none" /\ dialogs[r].text # NoText => dialogs[r].text.document = dialogs[r].document

\* A correction that was saved stays in the draft: a reviewer who loaded an
\* earlier revision, or whose answers come late, cannot overwrite it
\* (replaceDraftBlocks).
SavedEditsKept == [][\A d \in Documents :
    OneExtraction(d) => drafts[d].text.edits \subseteq drafts'[d].text.edits]_reviewVars

\* What is published is what the reviewer who published it had on the screen
\* at the click (publishReviewDraft: "Review draft changed; refresh before
\* publishing").
PublishedAsShown == [][\A d \in Documents :
    OneExtraction(d) /\ drafts[d].status = "open" /\ drafts'[d].status = "published" =>
        \E c \in calls \ calls' : c.document = d /\ c.kind = "publish" /\ c.text = c.shown]_reviewVars
=============================================================================
