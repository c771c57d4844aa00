---------------------------- MODULE DocumentState ----------------------------
(***************************************************************************)
(* One document as SQLite keeps it: its row and chunks (document.repo.ts), *)
(* and the extraction jobs and review drafts of a scanned document         *)
(* (document-review.repo.ts).  Each operator is one statement or one       *)
(* transaction of those repositories.                                      *)
(***************************************************************************)
EXTENDS Naturals, Sequences

CONSTANTS
    MaxJobs,  \* bound on the extraction jobs of the document
    MaxRevs,  \* bound on the revisions of a draft
    MaxGens   \* bound on the chunk sets built for the document

ASSUME StateAssumption == MaxJobs \in Nat /\ MaxRevs \in Nat \ {0} /\ MaxGens \in Nat

VARIABLES
    doc,     \* the documents row, with the chunk set stored for it
    jobs,    \* authoritative extraction jobs, each with its review draft
    builds,  \* chunk sets built so far: the job and the revision they come from
    file     \* the uploaded file: "none", "stored", or renamed and "deleting"

stateVars == <<doc, jobs, builds, file>>

Gens == 1..MaxGens

\* chunks: 0 for none, otherwise the number of the build.
Row == [status : {"absent", "pending", "ready", "failed", "deleted"}, active : BOOLEAN,
        index : {"legacy", "not_indexed", "published", "failed"}, chunks : 0..MaxGens]
\* gone: deleted with its document.  The draft is created with revision 1.
Job == [status : {"queued", "running", "succeeded", "failed", "gone"},
        draft : {"none", "open", "published", "superseded"}, rev : 0..MaxRevs]
Build == [job : 0..MaxJobs, rev : 0..MaxRevs]

StateTypeOK ==
    /\ doc \in Row
    /\ jobs \in Seq(Job) /\ Len(jobs) <= MaxJobs
    /\ builds \in Seq(Build) /\ Len(builds) <= MaxGens
    /\ file \in {"none", "stored", "deleting"}

NoRow == [status |-> "absent", active |-> FALSE, index |-> "legacy", chunks |-> 0]
StateInit == doc = NoRow /\ jobs = <<>> /\ builds = <<>> /\ file = "none"

-----------------------------------------------------------------------------
(* document.repo.ts.  An UPDATE of a row that is gone changes nothing.     *)

Exists(row) == row.status \notin {"absent", "deleted"}

Pending == [status |-> "pending", active |-> TRUE, index |-> "legacy", chunks |-> 0]

MarkFailed(row, index) == IF Exists(row)
    THEN [row EXCEPT !.status = "failed", !.chunks = 0, !.index = index] ELSE row

MarkPending(row) == IF row.status = "failed" THEN [row EXCEPT !.status = "pending"] ELSE row

\* replaceChunksAndMarkReady.
MarkReady(row, g) == [row EXCEPT !.status = "ready", !.index = "published", !.chunks = g]

SetActive(row, active) == IF row.status = "ready" THEN [row EXCEPT !.active = active] ELSE row

\* setIndexStatus('failed', 0).
Disable(row) == IF Exists(row) THEN [row EXCEPT !.index = "failed", !.active = FALSE] ELSE row

Deleted(row) == [row EXCEPT !.status = "deleted", !.chunks = 0]

\* restorePublishedState: the snapshot replaces whatever the row holds now.
Restored(row, snapshot) == IF Exists(row) THEN snapshot ELSE row

\* The chunks of the row may be retrieved (listAllActiveKnowledgeChunks).
Searchable(row) == row.status = "ready" /\ row.active /\ row.index \in {"legacy", "published"}

-----------------------------------------------------------------------------
(* document-review.repo.ts.                                                *)

NewJob(status) == [status |-> status, draft |-> "none", rev |-> 0]

\* createExtractionJob accepts a retry only of a job that has ended.
MayRetryJob == jobs = <<>> \/ jobs[Len(jobs)].status \notin {"queued", "running"}

Queued == {j \in DOMAIN jobs : jobs[j].status = "queued"}
Running == {j \in DOMAIN jobs : jobs[j].status = "running"}
\* claimNextQueuedExtractionJob takes the oldest.
NextQueued == CHOOSE j \in Queued : \A k \in Queued : j <= k

SetJob(j, status) == [jobs EXCEPT ![j].status = status]

\* completeExtractionJob and createDraftFromAuthoritativeJob.
Extracted(j) == [jobs EXCEPT ![j] = [status |-> "succeeded", draft |-> "open", rev |-> 1]]

\* Mutant: a restart leaves the interrupted job as it was.
NotRecovered == jobs

\* recoverInterruptedExtractionJobs.
Recovered == [j \in DOMAIN jobs |->
    IF jobs[j].status = "running" THEN [jobs[j] EXCEPT !.status = "queued"] ELSE jobs[j]]

\* ON DELETE CASCADE.
Cascade == [j \in DOMAIN jobs |-> [status |-> "gone", draft |-> "none", rev |-> 0]]

Drafts == {j \in DOMAIN jobs : jobs[j].draft # "none"}
\* findLatestDraft; a draft is named by its job.
LatestDraft == CHOOSE j \in Drafts : \A k \in Drafts : k <= j

\* Mutant: the revision that the reviewer expected is not compared.
OpenDraft(d, rev) == jobs[d].draft = "open"

OpenAt(d, rev) == jobs[d].draft = "open" /\ jobs[d].rev = rev

\* publishDraft, once the publication is applied: the other open drafts are
\* superseded.
Published(d) == [j \in DOMAIN jobs |->
    IF j = d THEN [jobs[j] EXCEPT !.draft = "published"]
    ELSE IF jobs[j].draft = "open" THEN [jobs[j] EXCEPT !.draft = "superseded"] ELSE jobs[j]]
=============================================================================
