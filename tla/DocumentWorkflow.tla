-------------------------- MODULE DocumentWorkflow --------------------------
(***************************************************************************)
(* The life of one uploaded document (document.service.ts) beside the      *)
(* in-memory index (knowledge-retriever.ts): upload, extraction by the OCR *)
(* worker, review, publication, retry, reprocessing, the switch and        *)
(* deletion, run by administrators at once, with crashes.                  *)
(*                                                                         *)
(* A handler gives up the event loop only while it embeds, and an          *)
(* extraction while it waits for the worker: these are the two values of   *)
(* pc.  Everything else of a handler is one action, since the in-memory    *)
(* vector store answers without leaving the microtask queue.  A refresh of *)
(* the index waits only to embed chunks of an old profile; that wait is    *)
(* contracted, and its failure kept (RefreshMayFail).                      *)
(***************************************************************************)
EXTENDS DocumentState

CONSTANTS
    Admins,    \* administrators working at once
    Setups,    \* what document, in what deployment
    MaxBoots   \* bound on crashes

\* visual: an image or a scan, which goes through OCR and review.  background:
\* OCR_BACKGROUND_ENABLED, so that a scheduler runs the extractions.
\* refreshMayFail: the embedding provider may fail during a refresh.
Setup == [visual : BOOLEAN, background : BOOLEAN, refreshMayFail : BOOLEAN]

ASSUME WorkflowAssumption ==
    /\ Setups \subseteq Setup
    /\ MaxBoots \in Nat /\ MaxGens > 0 /\ "worker" \notin Admins

VARIABLES
    ops,     \* the handlers in progress
    index,   \* the document's points: of which chunk set, and with which revision
    loaded,  \* the source is initialised and not in failedSources
    up, boots,
    setup    \* never changes

env == <<boots, setup>>
vars == <<stateVars, ops, index, loaded, up, env>>
quiet == <<file, builds, index, loaded, up, env>>

Visual         == setup.visual
Background     == setup.background
RefreshMayFail == setup.refreshMayFail

Slots == Admins \cup {"worker"}

\* rec: the row as the handler read it.  draft: 0 for a text document.
Op == [pc : {"none", "building", "extracting"}, rec : Row, draft : 0..MaxJobs,
       rev : 0..MaxRevs, preserve : BOOLEAN, job : 0..MaxJobs]
NoOp == [pc |-> "none", rec |-> NoRow, draft |-> 0, rev |-> 0, preserve |-> FALSE, job |-> 0]

\* A point's revision is the createdAt of its chunk: "built" as the service
\* stamped it, "stored" as SQLite holds it.
Index == [gen : 0..MaxGens, revision : {"none", "built", "stored"}]
Nothing == [gen |-> 0, revision |-> "none"]

\* One type invariant.
TypeOK ==
    /\ StateTypeOK
    /\ ops \in [Slots -> Op] /\ index \in Index
    /\ loaded \in BOOLEAN /\ up \in BOOLEAN /\ boots \in 0..MaxBoots /\ setup \in Setups

Idle(s) == up /\ ops[s] = NoOp
Done(s) == ops' = [ops EXCEPT ![s] = NoOp]

Init ==
    /\ StateInit
    /\ ops = [s \in Slots |-> NoOp] /\ index = Nothing
    /\ loaded = TRUE /\ up = TRUE /\ boots = 0 /\ setup \in Setups

-----------------------------------------------------------------------------
(* knowledge-retriever.ts.                                                 *)

Rebuilt(row) == IF Searchable(row) THEN [gen |-> row.chunks, revision |-> "stored"] ELSE Nothing

Refresh(row) == index' = Rebuilt(row) /\ loaded' = TRUE
RefreshFails(points) == RefreshMayFail /\ index' = points /\ loaded' = FALSE

\* A search first refreshes a source that is not loaded.
Search ==
    /\ up /\ ~loaded
    /\ Refresh(doc)
    /\ UNCHANGED <<stateVars, ops, up, env>>

-----------------------------------------------------------------------------
(* Extraction.                                                             *)

Building(rec, d, preserve) ==
    [NoOp EXCEPT !.pc = "building", !.rec = rec, !.draft = d, !.preserve = preserve,
                 !.rev = IF d = 0 THEN 0 ELSE jobs[d].rev]
Extracting(j) == [NoOp EXCEPT !.pc = "extracting", !.job = j]

\* processVisual, with an OCR worker configured: the document is pending.
Extract(a) ==
    /\ Len(jobs) < MaxJobs
    /\ jobs' = Append(jobs, NewJob(IF Background THEN "queued" ELSE "running"))
    /\ ops' = IF Background THEN ops ELSE [ops EXCEPT ![a] = Extracting(Len(jobs) + 1)]

BuildText(a, row) == ops' = [ops EXCEPT ![a] = Building(row, 0, FALSE)] /\ UNCHANGED jobs

Upload(a) ==
    /\ Idle(a) /\ doc.status = "absent"
    /\ doc' = Pending /\ file' = "stored"
    /\ IF Visual THEN Extract(a) ELSE BuildText(a, Pending)
    /\ UNCHANGED <<builds, index, loaded, up, env>>

\* The row is pending again before the job is created: a job that has not ended
\* refuses the retry and leaves the row so.
Retry(a) ==
    /\ Idle(a) /\ doc.status = "failed" /\ file = "stored"
    /\ doc' = MarkPending(doc)
    /\ \/ Visual /\ MayRetryJob /\ Extract(a)
       \/ Visual /\ ~MayRetryJob /\ UNCHANGED <<jobs, ops>>
       \/ ~Visual /\ BuildText(a, MarkPending(doc))
    /\ UNCHANGED quiet

RetryWithoutFile(a) ==
    /\ Idle(a) /\ doc.status = "failed" /\ file # "stored"
    /\ doc' = MarkFailed(doc, "failed")
    /\ UNCHANGED <<quiet, jobs, ops>>

\* processNextOcrJob, called again only when the previous call has ended.
Claim ==
    /\ Background /\ Idle("worker") /\ Queued # {}
    /\ IF file = "stored"
       THEN /\ jobs' = SetJob(NextQueued, "running")
            /\ ops' = [ops EXCEPT !["worker"] = Extracting(NextQueued)]
            /\ UNCHANGED doc
       ELSE /\ jobs' = SetJob(NextQueued, "failed")
            /\ doc' = MarkFailed(doc, "not_indexed")
            /\ UNCHANGED ops
    /\ UNCHANGED quiet

\* Mutant: the job ends in a transaction of its own, and the row is left.
JobOnly(s, newJobs) == jobs' = newJobs /\ UNCHANGED doc

\* The job and the row change in one transaction.
EndJob(s, newJobs) == jobs' = newJobs /\ doc' = MarkFailed(doc, "not_indexed")

\* A job that is gone with its document refuses both ends.
ExtractionEnds(s) ==
    /\ up /\ ops[s].pc = "extracting"
    /\ LET j == ops[s].job IN
       IF jobs[j].status = "running"
       THEN \/ EndJob(s, Extracted(j))
            \/ EndJob(s, SetJob(j, "failed"))
       ELSE UNCHANGED <<jobs, doc>>
    /\ Done(s)
    /\ UNCHANGED quiet

-----------------------------------------------------------------------------
(* Review, publication and reprocessing.                                   *)

\* updateReviewDraft, by a reviewer who saw the current revision.
SaveDraft ==
    /\ up /\ Exists(doc) /\ Drafts # {}
    /\ jobs[LatestDraft].draft = "open" /\ jobs[LatestDraft].rev < MaxRevs
    /\ jobs' = [jobs EXCEPT ![LatestDraft].rev = @ + 1]
    /\ UNCHANGED <<quiet, doc, ops>>

\* publishReviewDraft up to the embedding.
StartPublish(a) ==
    /\ Idle(a) /\ Exists(doc) /\ Drafts # {} /\ file = "stored"
    /\ jobs[LatestDraft].draft = "open" /\ jobs[LatestDraft].status = "succeeded"
    /\ ops' = [ops EXCEPT ![a] =
                 Building(doc, LatestDraft, doc.status = "ready" /\ doc.chunks # 0)]
    /\ UNCHANGED <<quiet, doc, jobs>>

\* reprocess: the stored versions may be those of an earlier release.
StartReprocess(a) ==
    /\ Idle(a) /\ ~Visual /\ doc.status = "ready" /\ file = "stored"
    /\ ops' = [ops EXCEPT ![a] = Building(doc, 0, TRUE)]
    /\ UNCHANGED <<quiet, doc, jobs>>

\* Parsing, the quality gate, chunking or embedding fails.
BuildFails(a) ==
    /\ up /\ ops[a].pc = "building"
    /\ \E status \in {"failed", "not_indexed"} :
         doc' = IF ops[a].preserve THEN doc ELSE MarkFailed(doc, status)
    /\ Done(a)
    /\ UNCHANGED <<quiet, jobs>>

\* compensatePublishFailure on the row.
Compensated(a, row, replaced) ==
    IF ~ops[a].preserve THEN MarkFailed(row, "failed")
    ELSE IF replaced THEN Restored(row, ops[a].rec) ELSE row

\* Mutant: the index is not rebuilt after a publication that failed.
LeaveIndex(row, points) == doc' = row /\ index' = points /\ UNCHANGED loaded

\* compensatePublishFailure on the index; points: what the publication left there.
Reconcile(row, points) ==
    \/ doc' = row /\ Refresh(row)
    \/ doc' = Disable(row) /\ RefreshFails(points)

MayCommit(op) == Exists(doc) /\ (op.draft # 0 => OpenAt(op.draft, op.rev))

\* The vector store refuses the points and keeps the previous ones.
PublishFails(a) ==
    /\ up /\ ops[a].pc = "building"
    /\ Reconcile(Compensated(a, doc, FALSE), index)
    /\ Done(a)
    /\ UNCHANGED <<jobs, builds, file, up, env>>

\* The publish stage: the index first, then the row with the draft in one
\* transaction.  The createdAt of the points and of the rows come from two
\* clock readings, which agree only within one millisecond.
Publish(a) ==
    /\ up /\ ops[a].pc = "building" /\ Len(builds) < MaxGens
    /\ LET op == ops[a]
           g == Len(builds) + 1
       IN \E revision \in {"built", "stored"} :
            LET points == [gen |-> g, revision |-> revision] IN
            /\ builds' = Append(builds, [job |-> op.draft, rev |-> op.rev])
            /\ \/ /\ MayCommit(op)
                  /\ doc' = MarkReady(doc, g)
                  /\ jobs' = IF op.draft = 0 THEN jobs ELSE Published(op.draft)
                  /\ index' = points /\ UNCHANGED loaded
               \/ /\ ~MayCommit(op)
                  /\ Reconcile(Compensated(a, doc, FALSE), points)
                  /\ UNCHANGED jobs
               \* The task's record cannot be written once the row is.
               \/ /\ MayCommit(op)
                  /\ jobs' = IF op.draft = 0 THEN jobs ELSE Published(op.draft)
                  /\ Reconcile(Compensated(a, MarkReady(doc, g), TRUE), points)
    /\ Done(a)
    /\ UNCHANGED <<file, up, env>>

-----------------------------------------------------------------------------
(* The switch and deletion.                                                *)

\* setActive; one that fails is undone on the spot.
Toggle(a) ==
    /\ Idle(a) /\ doc.status = "ready"
    /\ \/ /\ doc' = SetActive(doc, TRUE)
          /\ index' = [gen |-> doc.chunks, revision |-> "stored"]
       \/ /\ doc' = SetActive(doc, FALSE)
          /\ index' = IF index.gen = doc.chunks THEN Nothing ELSE index
    /\ UNCHANGED <<jobs, builds, file, ops, loaded, up, env>>

FileBack == IF file = "none" THEN "none" ELSE "stored"

\* The row goes in a transaction with the renamed file, after a refresh that
\* still sees it.
Delete(a) ==
    /\ Idle(a) /\ Exists(doc)
    /\ Refresh(doc)
    /\ doc' = Deleted(doc) /\ jobs' = Cascade
    /\ file' = IF file = "stored" THEN "none" ELSE file
    /\ UNCHANGED <<builds, ops, up, env>>

\* The refresh fails and the one that undoes it does not.
DeleteRefused(a) ==
    /\ Idle(a) /\ Exists(doc) /\ RefreshMayFail
    /\ Refresh(doc)
    /\ UNCHANGED <<stateVars, ops, up, env>>

\* Both fail, and convergeFailedDeleteToRemovedState removes everything.
DeleteConverged(a) ==
    /\ Idle(a) /\ Exists(doc) /\ RefreshMayFail
    /\ doc' = Deleted(doc) /\ jobs' = Cascade /\ file' = "none"
    /\ Refresh(Deleted(doc))
    /\ UNCHANGED <<builds, ops, up, env>>

\* The refresh after the removal fails too: the row and the chunks come back,
\* disabled when the file or the index does not.
DeleteRevived(a) ==
    /\ Idle(a) /\ Exists(doc) /\ RefreshMayFail
    /\ jobs' = Cascade /\ file' = FileBack
    /\ LET row == IF FileBack = "stored" THEN doc ELSE SetActive(doc, FALSE) IN
       \/ doc' = row /\ Refresh(row)
       \/ doc' = SetActive(row, FALSE) /\ (Refresh(SetActive(row, FALSE)) \/ RefreshFails(index))
    /\ UNCHANGED <<builds, ops, up, env>>

-----------------------------------------------------------------------------
(* The process.                                                            *)

\* The process may die while a delete has renamed the file.
Crash ==
    /\ up /\ boots < MaxBoots
    /\ up' = FALSE /\ boots' = boots + 1
    /\ ops' = [s \in Slots |-> NoOp] /\ index' = Nothing /\ loaded' = FALSE
    /\ \/ UNCHANGED file
       \/ file = "stored" /\ Exists(doc) /\ file' = "deleting"
    /\ UNCHANGED <<doc, jobs, builds, setup>>

\* The scheduler, when there is one, recovers the interrupted jobs.
Boot ==
    /\ ~up /\ up' = TRUE
    /\ jobs' = IF Background THEN Recovered ELSE jobs
    /\ UNCHANGED <<doc, builds, file, ops, index, loaded, env>>

Next ==
    \/ \E a \in Admins :
         \/ Upload(a) \/ Retry(a) \/ RetryWithoutFile(a)
         \/ StartPublish(a) \/ StartReprocess(a) \/ BuildFails(a) \/ PublishFails(a) \/ Publish(a)
         \/ Toggle(a) \/ Delete(a) \/ DeleteRefused(a) \/ DeleteConverged(a) \/ DeleteRevived(a)
    \/ Claim \/ \E s \in Slots : ExtractionEnds(s)
    \/ SaveDraft \/ Search \/ Crash \/ Boot

\* The scheduler polls, a call to the OCR worker has a timeout, and the process
\* is restarted after a crash.
Fairness == WF_vars(Claim) /\ WF_vars(ExtractionEnds("worker")) /\ WF_vars(Boot)

Spec == Init /\ [][Next]_vars /\ Fairness

-----------------------------------------------------------------------------
(* Properties.                                                             *)

\* The chunks of a reviewed document are those of the draft revision that was
\* published: a revision saved during the embedding is not published unseen.
PublishedIsReviewed ==
    LET build == builds[doc.chunks] IN
    doc.status = "ready" /\ build.job # 0 =>
        \/ jobs[build.job].draft = "published" /\ jobs[build.job].rev = build.rev
        \/ jobs[build.job].status = "gone"

\* A document is ready exactly while it has chunks, and those that may be
\* retrieved have their points in the loaded index, whatever publications,
\* compensations and failed deletions run at once.
SearchableIsIndexed ==
    /\ doc.status = "ready" <=> doc.chunks # 0
    /\ up /\ loaded /\ Searchable(doc) => index.gen = doc.chunks

\* A running job of the queue is the one the worker extracts, or will be
\* recovered (DocumentOcrScheduler, recoverInterruptedExtractionJobs).
RunningIsWorked == up /\ Background => \A j \in Running : ops["worker"].job = j

\* A published document stays published until it is deleted: a later build
\* that fails leaves the publication alone (compensatePublishFailure).
PublicationKept == [][doc.status = "ready" => doc'.status \in {"ready", "deleted"}]_vars

\* A pending scan in the queue comes to review, fails, is published or is
\* deleted, across crashes.
PendingEnds == Background /\ ~RefreshMayFail /\ doc.status = "pending" ~> doc.status # "pending"

\* A published document, not touched since, passes the revision check of
\* retrieval: its points carry the revision that SQLite holds.
PublishedIsCurrent == up /\ loaded /\ Searchable(doc) => index.revision = "stored"
=============================================================================
