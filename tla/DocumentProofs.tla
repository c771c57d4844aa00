----------------------------- MODULE DocumentProofs -----------------------------
(***************************************************************************)
(* Theorems about DocumentWorkflow, for any number of administrators, jobs,*)
(* revisions, chunk sets and crashes, and about DocumentChunks, the        *)
(* ingestion of one file, for any file and any limits.                     *)
(***************************************************************************)
EXTENDS DocumentWorkflow, DocumentChunks, FiniteSetTheorems, NaturalsInduction, WellFoundedInduction, SequenceTheorems, TLAPS

\* What the reviewer approved, for good: the revision is the one published, and
\* only the deletion of the document takes the draft away.
Approved(build, js) == build.job # 0 =>
    /\ build.job \in DOMAIN js
    /\ \/ js[build.job].draft = "published" /\ js[build.job].rev = build.rev
       \/ js[build.job].status = "gone"

\* A row that the documents table may hold, now or after a compensation.
Sound(row, bs, js) ==
    /\ row \in Row
    /\ row.status = "ready" <=> row.chunks # 0
    /\ row.chunks # 0 => row.chunks \in DOMAIN bs /\ Approved(bs[row.chunks], js)

\* A draft belongs to an extraction that succeeded.
JobOK(job) == job \in Job /\ (job.draft # "none" => job.status = "succeeded")
JobTable == {js \in Seq(Job) : Len(js) <= MaxJobs /\ \A j \in DOMAIN js : JobOK(js[j])}
BuildTable == {bs \in Seq(Build) : Len(bs) <= MaxGens}

\* What a handler took along is still there when it goes on.
Handler(op, bs, js) ==
    /\ op \in Op
    /\ op.pc = "building" => Sound(op.rec, bs, js) /\ (op.draft # 0 => op.draft \in DOMAIN js)
    /\ op.pc = "extracting" => op.job \in DOMAIN js

DataOK ==
    /\ jobs \in JobTable /\ builds \in BuildTable /\ file \in {"none", "stored", "deleting"}
    /\ Sound(doc, builds, jobs)

OpsOK ==
    /\ ops \in [Slots -> Op] /\ \A s \in Slots : Handler(ops[s], builds, jobs)
    /\ Background => \A a \in Admins : ops[a].pc # "extracting"

IndexOK ==
    /\ index \in Index /\ up \in BOOLEAN /\ loaded \in BOOLEAN /\ (loaded => up)
    /\ loaded /\ Searchable(doc) => index.gen = doc.chunks

\* The inductive invariant: SearchableIsIndexed and PublishedIsReviewed hold of
\* the row as a handler remembers it too, since a compensation puts it back.
IInv ==
    /\ DataOK /\ OpsOK /\ IndexOK /\ RunningIsWorked
    /\ boots \in 0..MaxBoots /\ setup \in Setups

-----------------------------------------------------------------------------
(* Rows.                                                                   *)

\* Each statement of document.repo.ts leaves a row the table may hold, and the
\* failed ones, like the disabled and the deleted, are not searched.
LEMMA RowOps ==
  ASSUME NEW bs, NEW js, NEW row, Sound(row, bs, js)
  PROVE  /\ \A mark \in {"failed", "not_indexed"} :
              /\ Sound(MarkFailed(row, mark), bs, js)
              /\ MarkFailed(row, mark).status # "ready"
         /\ Sound(MarkPending(row), bs, js)
         /\ row.status # "ready" => MarkPending(row).status # "ready"
         /\ \A active \in BOOLEAN : Sound(SetActive(row, active), bs, js)
         /\ ~SetActive(row, FALSE).active \/ SetActive(row, FALSE).status # "ready"
         /\ \A active \in BOOLEAN : SetActive(row, active).chunks = row.chunks
         /\ Sound(Disable(row), bs, js) /\ ~Searchable(Disable(row))
         /\ Sound(Deleted(row), bs, js) /\ Deleted(row).status # "ready"
         /\ \A snapshot : Sound(snapshot, bs, js) => Sound(Restored(row, snapshot), bs, js)
<1>0. 0 \in 0..MaxGens
  BY StateAssumption
<1> USE <1>0 DEF Sound, Row
<1>1. ASSUME NEW mark \in {"failed", "not_indexed"}
      PROVE  /\ Sound(MarkFailed(row, mark), bs, js)
             /\ MarkFailed(row, mark).status # "ready"
  BY DEF MarkFailed, Exists
<1>2. Sound(MarkPending(row), bs, js) /\ (row.status # "ready" => MarkPending(row).status # "ready")
  BY DEF MarkPending
<1>3. ASSUME NEW active \in BOOLEAN
      PROVE  /\ Sound(SetActive(row, active), bs, js)
             /\ SetActive(row, active).chunks = row.chunks
  BY DEF SetActive
<1>4. ~SetActive(row, FALSE).active \/ SetActive(row, FALSE).status # "ready"
  BY DEF SetActive
<1>5. Sound(Disable(row), bs, js) /\ ~Searchable(Disable(row))
  BY DEF Disable, Searchable, Exists
<1>6. Sound(Deleted(row), bs, js) /\ Deleted(row).status # "ready"
  BY DEF Deleted
<1>7. ASSUME NEW snapshot, Sound(snapshot, bs, js) PROVE Sound(Restored(row, snapshot), bs, js)
  BY <1>7 DEF Restored
<1> QED
  BY <1>1, <1>2, <1>3, <1>4, <1>5, <1>6, <1>7

LEMMA NewRows ==
  ASSUME NEW bs, NEW js
  PROVE  /\ Sound(NoRow, bs, js) /\ Sound(Pending, bs, js)
         /\ ~Searchable(NoRow) /\ ~Searchable(Pending)
  BY StateAssumption DEF Sound, NoRow, Pending, Row, Searchable

\* A publication: the new chunk set is what the handler built.
LEMMA ReadyRow ==
  ASSUME NEW row \in Row, NEW cs, NEW ks, NEW g \in 1..MaxGens,
         g \in DOMAIN cs, Approved(cs[g], ks)
  PROVE  Sound(MarkReady(row, g), cs, ks) /\ MarkReady(row, g).chunks = g
<1>1. g \in 0..MaxGens /\ g # 0
  BY StateAssumption
<1>2. MarkReady(row, g) = [row EXCEPT !.status = "ready", !.index = "published", !.chunks = g]
  BY DEF MarkReady
<1>4. MarkReady(row, g) \in Row /\ MarkReady(row, g).status = "ready" /\ MarkReady(row, g).chunks = g
  BY <1>1, <1>2 DEF Row
<1> QED
  BY <1>1, <1>4 DEF Sound

-----------------------------------------------------------------------------
(* Jobs, drafts and builds.                                                *)

\* What was approved stays approved.
Grown(js, ks) ==
    /\ DOMAIN js \subseteq DOMAIN ks
    /\ \A j \in DOMAIN js :
         /\ js[j].draft = "published" =>
              ks[j].status = "gone" \/ (ks[j].draft = "published" /\ ks[j].rev = js[j].rev)
         /\ js[j].status = "gone" => ks[j].status = "gone"

Longer(bs, cs) == DOMAIN bs \subseteq DOMAIN cs /\ \A g \in DOMAIN bs : cs[g] = bs[g]

LEMMA SoundKept ==
  ASSUME NEW js, NEW ks, Grown(js, ks), NEW bs, NEW cs, Longer(bs, cs),
         NEW row, Sound(row, bs, js)
  PROVE  Sound(row, cs, ks)
<1>1. \A g \in DOMAIN bs : Approved(bs[g], js) => Approved(cs[g], ks)
  BY DEF Grown, Longer, Approved
<1> QED
  BY <1>1 DEF Sound, Longer

LEMMA HandlerKept ==
  ASSUME NEW js, NEW ks, Grown(js, ks), NEW bs, NEW cs, Longer(bs, cs),
         NEW op, Handler(op, bs, js)
  PROVE  Handler(op, cs, ks)
  BY SoundKept DEF Handler, Grown

LEMMA Same == \A js, bs : Grown(js, js) /\ Longer(bs, bs)
  BY DEF Grown, Longer

\* Every change of the jobs is one of each job by itself.
LEMMA EachJob ==
  ASSUME NEW js \in JobTable, NEW ks, ks = [j \in DOMAIN js |-> ks[j]],
         \A j \in DOMAIN js : JobOK(ks[j])
  PROVE  ks \in JobTable /\ DOMAIN ks = DOMAIN js
<1>1. js \in Seq(Job) /\ Len(js) \in Nat /\ DOMAIN js = 1..Len(js) /\ Len(js) <= MaxJobs
  BY LenProperties DEF JobTable
<1>2. ks \in [1..Len(js) -> Job]
  BY <1>1 DEF JobOK
<1>3. ks \in Seq(Job) /\ Len(ks) = Len(js)
  BY <1>1, <1>2, SeqDef, LenProperties
<1> QED
  BY <1>1, <1>2, <1>3 DEF JobTable

LEMMA TableFacts ==
  ASSUME NEW js \in JobTable
  PROVE  /\ Len(js) \in Nat /\ DOMAIN js = 1..Len(js) /\ Len(js) <= MaxJobs
         /\ \A j \in DOMAIN js : j \in 1..MaxJobs /\ js[j] \in Job /\ JobOK(js[j])
  BY LenProperties, ElementOfSeq, StateAssumption DEF JobTable

LEMMA NewJobs ==
  ASSUME NEW js \in JobTable, Len(js) < MaxJobs, NEW status \in {"queued", "running"},
         NEW ks, ks = Append(js, NewJob(status))
  PROVE  /\ ks \in JobTable /\ Grown(js, ks)
         /\ Len(js) + 1 \in DOMAIN ks /\ Len(js) + 1 \in 1..MaxJobs
         /\ ks[Len(js) + 1].status = status
         /\ \A j \in DOMAIN ks : j = Len(js) + 1 \/ (j \in DOMAIN js /\ ks[j] = js[j])
<1>1. NewJob(status) \in Job /\ JobOK(NewJob(status)) /\ NewJob(status).status = status
  BY StateAssumption DEF NewJob, Job, JobOK
<1>2. js \in Seq(Job) /\ Len(js) \in Nat /\ DOMAIN js = 1..Len(js)
  BY LenProperties DEF JobTable
<1>3. /\ ks \in Seq(Job) /\ Len(ks) = Len(js) + 1
      /\ \A i \in 1..Len(js) : ks[i] = js[i]
      /\ ks[Len(js) + 1] = NewJob(status)
  BY <1>1, <1>2
<1>4. DOMAIN ks = 1..(Len(js) + 1)
  BY <1>3, LenProperties
<1>5. \A j \in DOMAIN ks : j = Len(js) + 1 \/ j \in DOMAIN js
  BY <1>2, <1>4
<1>6. ks \in JobTable
  <2>1. Len(ks) <= MaxJobs
    BY <1>2, <1>3, StateAssumption
  <2>2. \A j \in DOMAIN ks : JobOK(ks[j])
    BY <1>1, <1>2, <1>3, <1>5 DEF JobTable
  <2> QED
    BY <1>3, <2>1, <2>2 DEF JobTable
<1>7. Grown(js, ks)
  BY <1>2, <1>3, <1>4 DEF Grown
<1> QED
  BY <1>1, <1>2, <1>3, <1>4, <1>5, <1>6, <1>7, StateAssumption

\* No job is started.
NoneStarted(js, ks) == \A k \in DOMAIN ks : ks[k].status = "running" =>
    k \in DOMAIN js /\ js[k].status = "running"

LEMMA SetJobKeeps ==
  ASSUME jobs \in JobTable, NEW j \in DOMAIN jobs, jobs[j].status \in {"queued", "running"},
         NEW status \in {"running", "failed"}
  PROVE  /\ SetJob(j, status) \in JobTable /\ Grown(jobs, SetJob(j, status))
         /\ DOMAIN SetJob(j, status) = DOMAIN jobs /\ SetJob(j, status)[j].status = status
         /\ \A k \in DOMAIN jobs : k # j => SetJob(j, status)[k] = jobs[k]
<1> DEFINE ks == SetJob(j, status)
<1>1. ks = [jobs EXCEPT ![j].status = status] /\ DOMAIN ks = DOMAIN jobs
  BY DEF SetJob
<1>2. jobs[j] \in Job /\ jobs[j].draft = "none"
  BY TableFacts DEF JobOK, Job
<1>3. ks[j] = [jobs[j] EXCEPT !.status = status] /\ \A k \in DOMAIN jobs : k # j => ks[k] = jobs[k]
  BY <1>1
<1>4. ks[j].status = status /\ ks[j].draft = "none" /\ ks[j] \in Job
  BY <1>2, <1>3 DEF Job
<1>5. \A k \in DOMAIN jobs : JobOK(ks[k])
  BY ZenonT(60), <1>3, <1>4, TableFacts DEF JobOK
<1>6. ks = [k \in DOMAIN jobs |-> ks[k]]
  BY <1>1
<1>7. ks \in JobTable
  BY <1>5, <1>6, EachJob
<1>8. Grown(jobs, ks)
  BY <1>1, <1>2, <1>3 DEF Grown
<1> QED
  BY <1>1, <1>3, <1>4, <1>7, <1>8

LEMMA ExtractedKeeps ==
  ASSUME jobs \in JobTable, NEW j \in DOMAIN jobs, jobs[j].status = "running"
  PROVE  /\ Extracted(j) \in JobTable /\ Grown(jobs, Extracted(j))
         /\ DOMAIN Extracted(j) = DOMAIN jobs /\ Extracted(j)[j].status = "succeeded"
         /\ \A k \in DOMAIN jobs : k # j => Extracted(j)[k] = jobs[k]
<1> DEFINE ks == Extracted(j)
<1>0. 1 \in 0..MaxRevs
  BY StateAssumption
<1>1. /\ DOMAIN ks = DOMAIN jobs
      /\ ks[j] = [status |-> "succeeded", draft |-> "open", rev |-> 1]
      /\ \A k \in DOMAIN jobs : k # j => ks[k] = jobs[k]
  BY DEF Extracted
<1>2. ks[j] \in Job /\ JobOK(ks[j])
  BY <1>0, <1>1 DEF Job, JobOK
<1>3. \A k \in DOMAIN jobs : JobOK(ks[k])
  BY <1>1, <1>2, TableFacts
<1>4. ks = [k \in DOMAIN jobs |-> ks[k]]
  BY DEF Extracted
<1>5. ks \in JobTable
  BY <1>3, <1>4, EachJob
<1>6. jobs[j].draft = "none"
  BY TableFacts DEF JobOK, Job
<1>7. Grown(jobs, ks)
  BY <1>1, <1>6 DEF Grown
<1> QED
  BY <1>1, <1>5, <1>7

LEMMA RecoveredKeeps ==
  ASSUME jobs \in JobTable
  PROVE  /\ Recovered \in JobTable /\ Grown(jobs, Recovered) /\ DOMAIN Recovered = DOMAIN jobs
         /\ \A k \in DOMAIN Recovered : Recovered[k].status # "running"
<1>1. /\ DOMAIN Recovered = DOMAIN jobs
      /\ \A k \in DOMAIN jobs : Recovered[k] = IF jobs[k].status = "running"
                                               THEN [jobs[k] EXCEPT !.status = "queued"] ELSE jobs[k]
  BY DEF Recovered
<1>2. ASSUME NEW k \in DOMAIN jobs
      PROVE  /\ JobOK(Recovered[k]) /\ Recovered[k].status # "running"
             /\ Recovered[k].draft = jobs[k].draft /\ Recovered[k].rev = jobs[k].rev
             /\ (jobs[k].status = "gone" => Recovered[k].status = "gone")
  <2>1. jobs[k] \in Job /\ JobOK(jobs[k])
    BY TableFacts
  <2>2. CASE jobs[k].status = "running"
    BY <1>1, <2>1, <2>2 DEF JobOK, Job
  <2>3. CASE jobs[k].status # "running"
    BY <1>1, <2>1, <2>3
  <2> QED
    BY <2>2, <2>3
<1>3. Recovered = [k \in DOMAIN jobs |-> Recovered[k]]
  BY DEF Recovered
<1>4. Recovered \in JobTable
  BY <1>2, <1>3, EachJob
<1>5. Grown(jobs, Recovered)
  BY <1>1, <1>2 DEF Grown
<1> QED
  BY <1>1, <1>2, <1>4, <1>5

LEMMA CascadeKeeps ==
  ASSUME jobs \in JobTable
  PROVE  /\ Cascade \in JobTable /\ Grown(jobs, Cascade) /\ DOMAIN Cascade = DOMAIN jobs
         /\ \A k \in DOMAIN Cascade : Cascade[k].status = "gone"
<1>0. 0 \in 0..MaxRevs
  BY StateAssumption
<1>1. DOMAIN Cascade = DOMAIN jobs
      /\ \A k \in DOMAIN jobs : Cascade[k] = [status |-> "gone", draft |-> "none", rev |-> 0]
  BY DEF Cascade
<1>2. \A k \in DOMAIN jobs : JobOK(Cascade[k])
  BY <1>0, <1>1 DEF JobOK, Job
<1>3. Cascade = [k \in DOMAIN jobs |-> Cascade[k]]
  BY DEF Cascade
<1>4. Cascade \in JobTable
  BY <1>2, <1>3, EachJob
<1> QED
  BY <1>1, <1>4 DEF Grown

LEMMA PublishedKeeps ==
  ASSUME jobs \in JobTable, NEW d \in DOMAIN jobs, jobs[d].draft = "open"
  PROVE  /\ Published(d) \in JobTable /\ Grown(jobs, Published(d))
         /\ DOMAIN Published(d) = DOMAIN jobs
         /\ Published(d)[d].draft = "published" /\ Published(d)[d].rev = jobs[d].rev
         /\ \A k \in DOMAIN jobs : Published(d)[k].status = jobs[k].status
<1> DEFINE ks == Published(d)
<1>1. /\ DOMAIN ks = DOMAIN jobs
      /\ \A k \in DOMAIN jobs : ks[k] =
           IF k = d THEN [jobs[k] EXCEPT !.draft = "published"]
           ELSE IF jobs[k].draft = "open" THEN [jobs[k] EXCEPT !.draft = "superseded"] ELSE jobs[k]
  BY DEF Published
<1>2. ASSUME NEW k \in DOMAIN jobs
      PROVE  /\ JobOK(ks[k]) /\ ks[k].status = jobs[k].status /\ ks[k].rev = jobs[k].rev
             /\ (k = d => ks[k].draft = "published")
             /\ (k # d /\ jobs[k].draft # "open" => ks[k].draft = jobs[k].draft)
  <2>1. jobs[k] \in Job /\ JobOK(jobs[k])
    BY TableFacts
  <2>2. CASE k = d
    BY <1>1, <2>1, <2>2 DEF JobOK, Job
  <2>3. CASE k # d /\ jobs[k].draft = "open"
    BY <1>1, <2>1, <2>3 DEF JobOK, Job
  <2>4. CASE k # d /\ jobs[k].draft # "open"
    BY <1>1, <2>1, <2>4
  <2> QED
    BY <2>2, <2>3, <2>4
<1>3. ks = [k \in DOMAIN jobs |-> ks[k]]
  BY DEF Published
<1>4. ks \in JobTable
  BY <1>2, <1>3, EachJob
<1>5. Grown(jobs, ks)
  BY <1>1, <1>2 DEF Grown
<1> QED
  BY <1>1, <1>2, <1>4, <1>5

LEMMA SaveKeeps ==
  ASSUME jobs \in JobTable, NEW d \in DOMAIN jobs, jobs[d].draft = "open", jobs[d].rev < MaxRevs,
         NEW ks, ks = [jobs EXCEPT ![d].rev = @ + 1]
  PROVE  /\ ks \in JobTable /\ Grown(jobs, ks) /\ DOMAIN ks = DOMAIN jobs
         /\ \A k \in DOMAIN jobs : ks[k].status = jobs[k].status
<1>1. /\ DOMAIN ks = DOMAIN jobs /\ ks[d] = [jobs[d] EXCEPT !.rev = @ + 1]
      /\ \A k \in DOMAIN jobs : k # d => ks[k] = jobs[k]
  OBVIOUS
<1>2. jobs[d] \in Job /\ JobOK(jobs[d])
  BY TableFacts
<1>3. jobs[d].rev + 1 \in 0..MaxRevs
  BY <1>2, StateAssumption DEF Job
<1>4. ks[d] \in Job /\ JobOK(ks[d]) /\ ks[d].status = jobs[d].status
  BY <1>1, <1>2, <1>3 DEF Job, JobOK
<1>5. \A k \in DOMAIN jobs : JobOK(ks[k])
  BY <1>1, <1>4, TableFacts
<1>6. ks \in JobTable
  BY ZenonT(60), <1>1, <1>5, EachJob
<1> QED
  BY <1>1, <1>4, <1>6 DEF Grown

-----------------------------------------------------------------------------
(* The oldest queued job, and the latest draft.                            *)

LEMMA Least == ASSUME NEW S \in SUBSET Nat, S # {} PROVE \E m \in S : \A k \in S : m <= k
<1>1. PICK m \in S : \A k \in S : <<k, m>> \notin OpToRel(<, Nat)
  BY WFMin, NatLessThanWellFounded
<1>2. ASSUME NEW k \in S PROVE m <= k
  <2>1. k \in Nat /\ m \in Nat
    OBVIOUS
  <2>2. ~(k < m)
    BY <1>1, <2>1 DEF OpToRel
  <2> QED
    BY <2>1, <2>2
<1> QED
  BY <1>2

LEMMA NextQueuedIsQueued ==
  ASSUME jobs \in JobTable, Queued # {}
  PROVE  NextQueued \in Queued /\ NextQueued \in DOMAIN jobs /\ NextQueued \in 1..MaxJobs
<1>1. Queued \subseteq Nat /\ Queued \subseteq 1..MaxJobs /\ Queued \subseteq DOMAIN jobs
  BY TableFacts, StateAssumption DEF Queued
<1>2. \E j \in Queued : \A k \in Queued : j <= k
  BY <1>1, Least
<1> QED
  BY <1>1, <1>2 DEF NextQueued

LEMMA LatestDraftIsDraft ==
  ASSUME jobs \in JobTable, Drafts # {}
  PROVE  LatestDraft \in Drafts /\ LatestDraft \in DOMAIN jobs /\ LatestDraft \in 1..MaxJobs
<1>1. Drafts \subseteq 1..MaxJobs /\ Drafts \subseteq DOMAIN jobs
  BY TableFacts DEF Drafts
<1> DEFINE Left == {MaxJobs - j : j \in Drafts}
<1>2. Left \subseteq Nat /\ Left # {}
  <2>1. \A j \in 1..MaxJobs : MaxJobs - j \in Nat
    BY StateAssumption
  <2> QED
    BY <1>1, <2>1
<1>4. PICK n \in Left : \A m \in Left : n <= m
  BY <1>2, Least
<1>5. PICK j \in Drafts : n = MaxJobs - j
  OBVIOUS
<1>6. ASSUME NEW k \in Drafts PROVE k <= j
  <2>1. MaxJobs - k \in Left
    OBVIOUS
  <2>2. MaxJobs - j <= MaxJobs - k
    BY <1>4, <1>5, <2>1
  <2> QED
    BY <1>1, <2>2, StateAssumption
<1> QED
  BY <1>1, <1>6 DEF LatestDraft

-----------------------------------------------------------------------------
(* What an action may rely on.                                             *)

LEMMA SetupFacts ==
  ASSUME IInv
  PROVE  Visual \in BOOLEAN /\ Background \in BOOLEAN /\ RefreshMayFail \in BOOLEAN
  BY WorkflowAssumption DEF IInv, Setup, Visual, Background, RefreshMayFail

LEMMA NoOpIsHandler == ASSUME NEW bs, NEW js PROVE Handler(NoOp, bs, js) /\ NoOp.pc = "none"
<1>1. 0 \in 0..MaxJobs /\ 0 \in 0..MaxRevs
  BY StateAssumption
<1>2. NoRow \in Row
  BY NewRows DEF Sound
<1> QED
  BY <1>1, <1>2 DEF Handler, NoOp, Op

\* A handler that goes on, ends or begins leaves the others alone.
LEMMA OneHandler ==
  ASSUME OpsOK, Grown(jobs, jobs'), Longer(builds, builds'), NEW s \in Slots, NEW op,
         Handler(op, builds', jobs'), Background /\ s # "worker" => op.pc # "extracting",
         ops' = [ops EXCEPT ![s] = op], UNCHANGED setup
  PROVE  OpsOK'
<1>1. \A t \in Slots : Handler(ops[t], builds', jobs')
  BY HandlerKept DEF OpsOK
<1>2. op \in Op
  BY DEF Handler
<1>3. ops' \in [Slots -> Op] /\ ops'[s] = op /\ \A t \in Slots : t # s => ops'[t] = ops[t]
  BY <1>2 DEF OpsOK
<1>4. \A t \in Slots : Handler(ops'[t], builds', jobs')
  BY <1>1, <1>3
<1>5. Background' = Background
  BY DEF Background
<1>6. "worker" \notin Admins /\ Admins \subseteq Slots
  BY WorkflowAssumption DEF Slots
<1> QED
  BY <1>3, <1>4, <1>5, <1>6 DEF OpsOK

LEMMA OneEnds ==
  ASSUME OpsOK, Grown(jobs, jobs'), Longer(builds, builds'), NEW s \in Slots, Done(s), UNCHANGED setup
  PROVE  OpsOK'
  BY OneHandler, NoOpIsHandler DEF Done

LEMMA NobodyMoves ==
  ASSUME OpsOK, Grown(jobs, jobs'), Longer(builds, builds'), UNCHANGED <<ops, setup>>
  PROVE  OpsOK'
  BY HandlerKept DEF OpsOK, Background

\* Nothing begins to run, and the worker stays at its job.
LEMMA WorkKept ==
  ASSUME RunningIsWorked, NoneStarted(jobs, jobs'), up' => up, ops'["worker"] = ops["worker"],
         UNCHANGED setup
  PROVE  RunningIsWorked'
  BY DEF RunningIsWorked, NoneStarted, Running, Background

LEMMA AdminWorks ==
  ASSUME OpsOK, NEW a \in Admins, NEW op, ops' = [ops EXCEPT ![a] = op]
  PROVE  ops'["worker"] = ops["worker"]
  BY WorkflowAssumption DEF OpsOK, Slots

LEMMA SameStarts == \A js : NoneStarted(js, js)
  BY DEF NoneStarted

\* What a refresh leaves in the index.
LEMMA RefreshKeeps ==
  ASSUME NEW bs, NEW js, NEW row, Sound(row, bs, js)
  PROVE  /\ Rebuilt(row) \in Index
         /\ Searchable(row) => Rebuilt(row).gen = row.chunks
  BY StateAssumption DEF Rebuilt, Index, Nothing, Sound, Row

LEMMA BuildingIsHandler ==
  ASSUME jobs \in JobTable, NEW rec, Sound(rec, builds, jobs), NEW d \in {0} \cup DOMAIN jobs,
         NEW preserve \in BOOLEAN
  PROVE  /\ Handler(Building(rec, d, preserve), builds, jobs)
         /\ Building(rec, d, preserve).pc = "building"
<1> DEFINE r == IF d = 0 THEN 0 ELSE jobs[d].rev
<1>1. d \in 0..MaxJobs /\ 0 \in 0..MaxJobs /\ r \in 0..MaxRevs
  BY TableFacts, StateAssumption DEF Job
<1>2. NoOp \in Op /\ rec \in Row
  BY NoOpIsHandler DEF Handler, Sound
<1> HIDE DEF r
<1>3. Building(rec, d, preserve) = [NoOp EXCEPT !.pc = "building", !.rec = rec, !.draft = d,
                                                !.preserve = preserve, !.rev = r]
  BY DEF Building, r
<1> DEFINE op == Building(rec, d, preserve)
<1>4. op \in Op /\ op.pc = "building" /\ op.rec = rec /\ op.draft = d
  BY <1>1, <1>2, <1>3 DEF Op
<1> QED
  BY <1>4 DEF Handler

LEMMA ExtractingIsHandler ==
  ASSUME NEW js \in JobTable, NEW bs, NEW j \in DOMAIN js
  PROVE  /\ Handler(Extracting(j), bs, js)
         /\ Extracting(j).pc = "extracting" /\ Extracting(j).job = j
<1>1. j \in 0..MaxJobs
  BY TableFacts, StateAssumption
<1>2. NoOp \in Op
  BY NoOpIsHandler DEF Handler
<1>3. Extracting(j) \in Op /\ Extracting(j).pc = "extracting" /\ Extracting(j).job = j
  BY <1>1, <1>2 DEF Extracting, Op
<1> QED
  BY <1>3 DEF Handler

\* The job of an extraction that begins, queued or at work.
LEMMA ExtractKeeps ==
  ASSUME IInv, NEW a \in Admins, Extract(a), UNCHANGED <<builds, up, setup>>
  PROVE  /\ jobs' \in JobTable /\ Grown(jobs, jobs') /\ Longer(builds, builds')
         /\ OpsOK' /\ RunningIsWorked'
<1>0. /\ jobs \in JobTable /\ OpsOK /\ RunningIsWorked /\ a \in Slots /\ a # "worker"
      /\ Background' = Background /\ Background \in BOOLEAN
  BY SetupFacts, WorkflowAssumption DEF IInv, DataOK, Slots, Background
<1>1. Longer(builds, builds')
  BY Same
<1> DEFINE status == IF Background THEN "queued" ELSE "running"
<1>2. jobs' = Append(jobs, NewJob(status)) /\ status \in {"queued", "running"} /\ Len(jobs) < MaxJobs
  BY DEF Extract
<1> HIDE DEF status
<1>3. /\ jobs' \in JobTable /\ Grown(jobs, jobs') /\ Len(jobs) + 1 \in DOMAIN jobs'
      /\ jobs'[Len(jobs) + 1].status = status
      /\ \A j \in DOMAIN jobs' : j = Len(jobs) + 1 \/ (j \in DOMAIN jobs /\ jobs'[j] = jobs[j])
  BY <1>0, <1>2, NewJobs, ZenonT(60)
<1>4. CASE Background
  <2>1. UNCHANGED ops /\ NoneStarted(jobs, jobs')
    BY <1>3, <1>4 DEF Extract, NoneStarted, status
  <2>2. OpsOK'
    BY <1>0, <1>1, <1>3, <2>1, NobodyMoves
  <2>3. RunningIsWorked'
    BY <1>0, <2>1, WorkKept
  <2> QED
    BY <1>1, <1>3, <2>2, <2>3
<1>5. CASE ~Background
  <2>1. ops' = [ops EXCEPT ![a] = Extracting(Len(jobs) + 1)]
    BY <1>5 DEF Extract
  <2>2. Handler(Extracting(Len(jobs) + 1), builds', jobs')
    BY <1>3, ExtractingIsHandler
  <2>3. OpsOK'
    BY <1>0, <1>1, <1>3, <1>5, <2>1, <2>2, OneHandler
  <2>4. RunningIsWorked'
    BY <1>0, <1>5 DEF RunningIsWorked
  <2> QED
    BY <1>1, <1>3, <2>3, <2>4
<1> QED
  BY <1>4, <1>5

LEMMA BuildTextKeeps ==
  ASSUME IInv, NEW a \in Admins, NEW row, Sound(row, builds, jobs), BuildText(a, row),
         UNCHANGED <<builds, up, setup>>
  PROVE  OpsOK' /\ RunningIsWorked'
<1>0. jobs \in JobTable /\ OpsOK /\ RunningIsWorked /\ a \in Slots
  BY DEF IInv, DataOK, Slots
<1>1. ops' = [ops EXCEPT ![a] = Building(row, 0, FALSE)] /\ UNCHANGED jobs
  BY DEF BuildText
<1>2. /\ Handler(Building(row, 0, FALSE), builds', jobs')
      /\ Building(row, 0, FALSE).pc = "building"
  BY <1>0, <1>1, BuildingIsHandler
<1>3. Grown(jobs, jobs') /\ Longer(builds, builds') /\ NoneStarted(jobs, jobs')
  BY <1>1, Same, SameStarts
<1>4. OpsOK'
  BY <1>0, <1>1, <1>2, <1>3, OneHandler
<1>5. RunningIsWorked'
  BY <1>0, <1>1, <1>3, AdminWorks, WorkKept
<1> QED
  BY <1>4, <1>5

-----------------------------------------------------------------------------
(* The actions.                                                            *)

\* What every action may leave as it is.
LEMMA EnvKept ==
  ASSUME IInv, UNCHANGED env
  PROVE  boots' \in 0..MaxBoots /\ setup' \in Setups
  BY DEF IInv, env

LEMMA UploadKeeps == ASSUME IInv, NEW a \in Admins, Upload(a) PROVE IInv'
<1>1. /\ doc' = Pending /\ file' = "stored" /\ UNCHANGED <<builds, index, loaded, up, env>>
      /\ UNCHANGED setup
  BY DEF Upload, env
<1>2. Sound(Pending, builds, jobs) /\ ~Searchable(doc')
  BY <1>1, NewRows
<1>3. jobs' \in JobTable /\ Grown(jobs, jobs') /\ OpsOK' /\ RunningIsWorked'
  <2>1. CASE Visual
    BY <1>1, <2>1, ExtractKeeps DEF Upload
  <2>2. CASE ~Visual
    <3>1. BuildText(a, Pending)
      BY <2>2 DEF Upload
    <3>2. UNCHANGED jobs
      BY <3>1 DEF BuildText
    <3> QED
      BY <1>1, <1>2, <3>1, <3>2, BuildTextKeeps, Same DEF IInv, DataOK
  <2> QED
    BY <2>1, <2>2
<1>4. DataOK'
  BY <1>1, <1>2, <1>3, NewRows DEF IInv, DataOK
<1>5. IndexOK'
  BY <1>1, <1>2 DEF IInv, IndexOK
<1> QED
  BY <1>1, <1>3, <1>4, <1>5, EnvKept DEF IInv

\* A row that is not ready has no points to be behind.
LEMMA RetryKeeps ==
  ASSUME IInv, NEW a \in Admins, Retry(a) \/ RetryWithoutFile(a)
  PROVE  IInv'
<1>1. UNCHANGED <<file, builds, index, loaded, up, env>> /\ UNCHANGED setup /\ doc.status = "failed"
  BY DEF Retry, RetryWithoutFile, quiet, env
<1>2. Sound(doc, builds, jobs) /\ jobs \in JobTable
  BY DEF IInv, DataOK
<1>3. Sound(doc', builds, jobs) /\ doc'.status # "ready"
  <2>1. doc' = MarkPending(doc) \/ doc' = MarkFailed(doc, "failed")
    BY DEF Retry, RetryWithoutFile
  <2>2. /\ Sound(MarkPending(doc), builds, jobs) /\ MarkPending(doc).status # "ready"
        /\ Sound(MarkFailed(doc, "failed"), builds, jobs) /\ MarkFailed(doc, "failed").status # "ready"
    BY <1>1, <1>2, RowOps
  <2> QED
    BY <2>1, <2>2
<1>4. jobs' \in JobTable /\ Grown(jobs, jobs') /\ OpsOK' /\ RunningIsWorked'
  <2>1. CASE Retry(a) /\ Extract(a)
    BY <1>1, <2>1, ExtractKeeps
  <2>2. CASE Retry(a) /\ BuildText(a, MarkPending(doc))
    <3>1. UNCHANGED jobs
      BY <2>2 DEF BuildText
    <3>2. Sound(MarkPending(doc), builds, jobs)
      BY <1>2, RowOps
    <3> QED
      BY <1>1, <1>2, <2>2, <3>1, <3>2, BuildTextKeeps, Same
  <2>3. CASE UNCHANGED <<jobs, ops>>
    <3>1. Grown(jobs, jobs') /\ Longer(builds, builds') /\ NoneStarted(jobs, jobs')
      BY <1>1, <2>3, Same, SameStarts
    <3> QED
      BY <1>1, <1>2, <2>3, <3>1, NobodyMoves, WorkKept DEF IInv
  <2> QED
    BY <2>1, <2>2, <2>3 DEF Retry, RetryWithoutFile
<1>5. DataOK'
  <2>1. Sound(doc', builds', jobs')
    BY <1>1, <1>3, <1>4, SoundKept, Same
  <2> QED
    BY <1>1, <1>4, <2>1 DEF IInv, DataOK
<1>6. IndexOK'
  BY <1>1, <1>3 DEF IInv, IndexOK, Searchable
<1> QED
  BY <1>1, <1>4, <1>5, <1>6, EnvKept DEF IInv

\* A row that fails, or is left alone, with the index as it was.
LEMMA RowFails ==
  ASSUME IInv, UNCHANGED <<builds, index, loaded, up, env, file>>,
         jobs' \in JobTable, Grown(jobs, jobs'),
         doc' = doc \/ \E status \in {"failed", "not_indexed"} : doc' = MarkFailed(doc, status)
  PROVE  DataOK' /\ IndexOK'
<1>1. Sound(doc, builds, jobs)
  BY DEF IInv, DataOK
<1>2. Sound(doc', builds, jobs) /\ (doc' = doc \/ doc'.status # "ready")
  <2>1. \A status \in {"failed", "not_indexed"} :
          Sound(MarkFailed(doc, status), builds, jobs) /\ MarkFailed(doc, status).status # "ready"
    BY <1>1, RowOps
  <2> QED
    BY <1>1, <2>1
<1>3. Sound(doc', builds', jobs')
  BY <1>2, SoundKept, Same
<1>4. DataOK'
  BY <1>3 DEF IInv, DataOK
<1>5. IndexOK'
  BY <1>2 DEF IInv, IndexOK, Searchable
<1> QED
  BY <1>4, <1>5

LEMMA ClaimKeeps == ASSUME IInv, Claim PROVE IInv'
<1>0. /\ Background /\ Background' = Background /\ jobs \in JobTable /\ OpsOK /\ RunningIsWorked /\ up
      /\ ops["worker"] = NoOp /\ "worker" \in Slots
      /\ UNCHANGED <<builds, index, loaded, up, env, file>> /\ UNCHANGED setup
  BY DEF Claim, IInv, DataOK, Slots, Idle, quiet, env, Background
<1> DEFINE j == NextQueued
<1>1. j \in DOMAIN jobs /\ j \in 1..MaxJobs /\ jobs[j].status = "queued"
  BY <1>0, NextQueuedIsQueued DEF Claim, Queued
<1>2. \A k \in DOMAIN jobs : jobs[k].status # "running"
  <2>1. NoOp.job = 0 /\ \A k \in DOMAIN jobs : k # 0
    BY <1>0, TableFacts DEF NoOp
  <2> QED
    BY <1>0, <2>1 DEF RunningIsWorked, Running
<1> HIDE DEF j
<1>3. CASE /\ jobs' = SetJob(j, "running") /\ UNCHANGED doc
           /\ ops' = [ops EXCEPT !["worker"] = Extracting(j)]
  <2>1. /\ jobs' \in JobTable /\ Grown(jobs, jobs') /\ DOMAIN jobs' = DOMAIN jobs
        /\ \A k \in DOMAIN jobs : k # j => jobs'[k] = jobs[k]
    BY <1>0, <1>1, <1>3, SetJobKeeps
  <2>2. Handler(Extracting(j), builds', jobs') /\ Extracting(j).job = j
    BY <1>1, <2>1, ExtractingIsHandler
  <2>3. OpsOK'
    BY <1>0, <1>3, <2>1, <2>2, OneHandler, Same
  <2>4. ops'["worker"].job = j
    BY <1>0, <1>3, <2>2 DEF OpsOK
  <2>5. RunningIsWorked'
    BY <1>2, <2>1, <2>4 DEF RunningIsWorked, Running
  <2>6. DataOK' /\ IndexOK'
    BY <1>0, <1>3, <2>1, RowFails
  <2> QED
    BY <1>0, <2>3, <2>5, <2>6, EnvKept DEF IInv
<1>4. CASE /\ jobs' = SetJob(j, "failed") /\ doc' = MarkFailed(doc, "not_indexed")
           /\ UNCHANGED ops
  <2>1. /\ jobs' \in JobTable /\ Grown(jobs, jobs') /\ DOMAIN jobs' = DOMAIN jobs
        /\ jobs'[j].status = "failed" /\ \A k \in DOMAIN jobs : k # j => jobs'[k] = jobs[k]
    BY <1>0, <1>1, <1>4, SetJobKeeps
  <2>2. NoneStarted(jobs, jobs')
    BY <2>1 DEF NoneStarted
  <2>3. OpsOK' /\ RunningIsWorked'
    BY <1>0, <1>4, <2>1, <2>2, NobodyMoves, WorkKept, Same
  <2>4. DataOK' /\ IndexOK'
    BY <1>0, <1>4, <2>1, RowFails
  <2> QED
    BY <1>0, <2>3, <2>4, EnvKept DEF IInv
<1> QED
  BY <1>3, <1>4 DEF Claim, j

LEMMA ExtractionEndsKeeps == ASSUME IInv, NEW s \in Slots, ExtractionEnds(s) PROVE IInv'
<1>0. /\ jobs \in JobTable /\ OpsOK /\ RunningIsWorked /\ up /\ ops[s].pc = "extracting" /\ Done(s)
      /\ UNCHANGED <<builds, index, loaded, up, env, file>> /\ UNCHANGED setup
  BY DEF ExtractionEnds, IInv, DataOK, quiet, env
<1> DEFINE j == ops[s].job
<1>1. j \in DOMAIN jobs
  BY <1>0 DEF OpsOK, Handler
<1> HIDE DEF j
<1>2. /\ jobs' \in JobTable /\ Grown(jobs, jobs') /\ NoneStarted(jobs, jobs')
      /\ DOMAIN jobs' = DOMAIN jobs /\ jobs'[j].status # "running"
  <2>1. CASE jobs[j].status = "running" /\ (jobs' = Extracted(j) \/ jobs' = SetJob(j, "failed"))
    <3>1. /\ jobs' \in JobTable /\ Grown(jobs, jobs') /\ DOMAIN jobs' = DOMAIN jobs
          /\ jobs'[j].status \in {"succeeded", "failed"}
          /\ \A k \in DOMAIN jobs : k # j => jobs'[k] = jobs[k]
      BY <1>0, <1>1, <2>1, ExtractedKeeps, SetJobKeeps
    <3> QED
      BY <3>1 DEF NoneStarted
  <2>2. CASE jobs[j].status # "running" /\ UNCHANGED jobs
    BY <1>0, <2>2, Same, SameStarts
  <2> QED
    BY <2>1, <2>2 DEF ExtractionEnds, EndJob, j
<1>3. OpsOK'
  BY <1>0, <1>2, OneEnds, Same
<1>4. RunningIsWorked'
  <2>1. CASE s = "worker"
    <3>1. Background => \A k \in DOMAIN jobs : jobs[k].status = "running" => k = j
      BY <1>0, <2>1 DEF RunningIsWorked, Running, j
    <3>2. Background => \A k \in DOMAIN jobs' : jobs'[k].status # "running"
      BY <1>2, <3>1 DEF NoneStarted
    <3>3. Background' = Background
      BY <1>0 DEF Background
    <3> QED
      BY <3>2, <3>3 DEF RunningIsWorked, Running
  <2>2. CASE s # "worker"
    <3>1. ops'["worker"] = ops["worker"]
      BY <1>0, <2>2, AdminWorks DEF Done, Slots
    <3> QED
      BY <1>0, <1>2, <3>1, WorkKept
  <2> QED
    BY <2>1, <2>2
<1>5. DataOK' /\ IndexOK'
  BY <1>0, <1>2, RowFails DEF ExtractionEnds, EndJob
<1> QED
  BY <1>0, <1>3, <1>4, <1>5, EnvKept DEF IInv

LEMMA SaveDraftKeeps == ASSUME IInv, SaveDraft PROVE IInv'
<1>0. /\ jobs \in JobTable /\ OpsOK /\ RunningIsWorked
      /\ UNCHANGED <<builds, index, loaded, up, env, file>> /\ UNCHANGED <<ops, setup, doc>>
  BY DEF SaveDraft, IInv, DataOK, quiet, env
<1>1. LatestDraft \in DOMAIN jobs
  BY <1>0, LatestDraftIsDraft DEF SaveDraft
<1>2. /\ jobs' \in JobTable /\ Grown(jobs, jobs') /\ DOMAIN jobs' = DOMAIN jobs
      /\ \A k \in DOMAIN jobs : jobs'[k].status = jobs[k].status
  BY <1>0, <1>1, SaveKeeps DEF SaveDraft
<1>3. NoneStarted(jobs, jobs')
  BY <1>2 DEF NoneStarted
<1>4. OpsOK' /\ RunningIsWorked'
  BY <1>0, <1>2, <1>3, NobodyMoves, WorkKept, Same
<1>5. DataOK' /\ IndexOK'
  BY <1>0, <1>2, RowFails
<1> QED
  BY <1>0, <1>4, <1>5, EnvKept DEF IInv

LEMMA StartKeeps ==
  ASSUME IInv, NEW a \in Admins, StartPublish(a) \/ StartReprocess(a)
  PROVE  IInv'
<1>0. /\ jobs \in JobTable /\ OpsOK /\ RunningIsWorked /\ a \in Slots /\ Sound(doc, builds, jobs)
      /\ UNCHANGED <<builds, index, loaded, up, env, file>> /\ UNCHANGED <<setup, doc, jobs>>
  BY DEF StartPublish, StartReprocess, IInv, DataOK, quiet, env, Slots
<1>1. Grown(jobs, jobs') /\ Longer(builds, builds') /\ NoneStarted(jobs, jobs')
  BY <1>0, Same, SameStarts
<1>2. PICK d \in {0} \cup DOMAIN jobs, preserve \in BOOLEAN :
        ops' = [ops EXCEPT ![a] = Building(doc, d, preserve)]
  <2>1. CASE StartPublish(a)
    <3>1. LatestDraft \in DOMAIN jobs
      BY <1>0, <2>1, LatestDraftIsDraft DEF StartPublish
    <3>2. (doc.status = "ready" /\ doc.chunks # 0) \in BOOLEAN
      OBVIOUS
    <3> QED
      BY <2>1, <3>1, <3>2 DEF StartPublish
  <2>2. CASE StartReprocess(a)
    BY <2>2 DEF StartReprocess
  <2> QED
    BY <2>1, <2>2
<1>3. /\ Handler(Building(doc, d, preserve), builds', jobs')
      /\ Building(doc, d, preserve).pc = "building"
  BY <1>0, BuildingIsHandler
<1>4. OpsOK'
  BY <1>0, <1>1, <1>2, <1>3, OneHandler
<1>5. RunningIsWorked'
  BY <1>0, <1>1, <1>2, AdminWorks, WorkKept
<1>6. DataOK' /\ IndexOK'
  BY <1>0, <1>1, RowFails
<1> QED
  BY <1>0, <1>4, <1>5, <1>6, EnvKept DEF IInv

-----------------------------------------------------------------------------
(* Publication, its compensation and the index.                            *)

\* The row that the index is reconciled with, and the points it is left.
LEMMA ReconcileKeeps ==
  ASSUME NEW row, Sound(row, builds', jobs'), NEW points \in Index, IInv, up, UNCHANGED up,
         Reconcile(row, points)
  PROVE  Sound(doc', builds', jobs') /\ IndexOK'
<1>1. CASE doc' = row /\ Refresh(row)
  <2>1. Rebuilt(row) \in Index /\ (Searchable(row) => Rebuilt(row).gen = row.chunks)
    BY RefreshKeeps
  <2> QED
    BY <1>1, <2>1 DEF IInv, IndexOK, Refresh
<1>2. CASE doc' = Disable(row) /\ RefreshFails(points)
  <2>1. Sound(Disable(row), builds', jobs')
    BY RowOps
  <2> QED
    BY <1>2, <2>1 DEF IInv, IndexOK, RefreshFails
<1> QED
  BY <1>1, <1>2 DEF Reconcile

LEMMA CompensatedIsSound ==
  ASSUME NEW bs, NEW js, NEW row, Sound(row, bs, js), NEW a \in Admins, NEW replaced \in BOOLEAN,
         Sound(ops[a].rec, bs, js)
  PROVE  Sound(Compensated(a, row, replaced), bs, js)
<1>1. /\ Sound(MarkFailed(row, "failed"), bs, js)
      /\ Sound(Restored(row, ops[a].rec), bs, js)
  BY RowOps
<1> QED
  BY <1>1 DEF Compensated

LEMMA BuildFailsKeeps == ASSUME IInv, NEW a \in Admins, BuildFails(a) PROVE IInv'
<1>0. /\ jobs \in JobTable /\ OpsOK /\ RunningIsWorked /\ a \in Slots /\ Done(a)
      /\ UNCHANGED <<builds, index, loaded, up, env, file>> /\ UNCHANGED <<setup, jobs>>
  BY DEF BuildFails, IInv, DataOK, quiet, env, Slots
<1>1. Grown(jobs, jobs') /\ Longer(builds, builds') /\ NoneStarted(jobs, jobs')
  BY <1>0, Same, SameStarts
<1>2. OpsOK' /\ RunningIsWorked'
  BY <1>0, <1>1, OneEnds, AdminWorks, WorkKept DEF Done
<1>3. DataOK' /\ IndexOK'
  BY <1>0, <1>1, RowFails DEF BuildFails
<1> QED
  BY <1>0, <1>2, <1>3, EnvKept DEF IInv

LEMMA PublishFailsKeeps == ASSUME IInv, NEW a \in Admins, PublishFails(a) PROVE IInv'
<1>0. /\ jobs \in JobTable /\ OpsOK /\ RunningIsWorked /\ a \in Slots /\ Done(a) /\ up
      /\ ops[a].pc = "building" /\ Sound(doc, builds, jobs) /\ index \in Index
      /\ UNCHANGED <<jobs, builds, file, up, env>> /\ UNCHANGED setup
  BY DEF PublishFails, IInv, DataOK, IndexOK, env, Slots
<1>1. Grown(jobs, jobs') /\ Longer(builds, builds') /\ NoneStarted(jobs, jobs')
  BY <1>0, Same, SameStarts
<1>2. OpsOK' /\ RunningIsWorked'
  BY <1>0, <1>1, OneEnds, AdminWorks, WorkKept DEF Done
<1>3. Sound(Compensated(a, doc, FALSE), builds', jobs')
  <2>1. Sound(ops[a].rec, builds, jobs)
    BY <1>0 DEF OpsOK, Handler
  <2> QED
    BY <1>0, <2>1, CompensatedIsSound
<1>4. Sound(doc', builds', jobs') /\ IndexOK'
  BY <1>0, <1>3, ReconcileKeeps DEF PublishFails
<1>5. DataOK'
  BY <1>0, <1>4 DEF DataOK, IInv
<1> QED
  BY <1>0, <1>2, <1>4, <1>5, EnvKept DEF IInv

\* The new chunk set, and what the publication makes of the drafts.
LEMMA NewBuild ==
  ASSUME IInv, NEW build \in Build, Len(builds) < MaxGens, builds' = Append(builds, build)
  PROVE  /\ builds' \in BuildTable /\ Longer(builds, builds')
         /\ Len(builds) + 1 \in DOMAIN builds' /\ Len(builds) + 1 \in 1..MaxGens
         /\ builds'[Len(builds) + 1] = build
<1>1. builds \in Seq(Build) /\ Len(builds) \in Nat /\ DOMAIN builds = 1..Len(builds)
  BY LenProperties DEF IInv, DataOK, BuildTable
<1>2. /\ builds' \in Seq(Build) /\ Len(builds') = Len(builds) + 1
      /\ \A i \in 1..Len(builds) : builds'[i] = builds[i]
      /\ builds'[Len(builds) + 1] = build
  BY <1>1
<1>3. DOMAIN builds' = 1..(Len(builds) + 1)
  BY <1>2, LenProperties
<1>4. Len(builds) + 1 <= MaxGens
  BY <1>1, StateAssumption
<1> QED
  BY <1>1, <1>2, <1>3, <1>4 DEF BuildTable, Longer

LEMMA PublishKeeps == ASSUME IInv, NEW a \in Admins, Publish(a) PROVE IInv'
<1> DEFINE op == ops[a]
           g == Len(builds) + 1
           build == [job |-> op.draft, rev |-> op.rev]
<1>0. /\ jobs \in JobTable /\ OpsOK /\ RunningIsWorked /\ a \in Slots /\ Done(a) /\ up
      /\ op.pc = "building" /\ Sound(doc, builds, jobs) /\ Len(builds) < MaxGens
      /\ UNCHANGED <<file, up, env>> /\ UNCHANGED setup
      /\ builds' = Append(builds, build)
  BY DEF Publish, IInv, DataOK, env, Slots
<1>1. /\ op \in Op /\ build \in Build /\ Sound(op.rec, builds, jobs)
      /\ (op.draft # 0 => op.draft \in DOMAIN jobs)
  BY <1>0 DEF OpsOK, Handler, Op, Build
<1>2. /\ builds' \in BuildTable /\ Longer(builds, builds') /\ g \in DOMAIN builds'
      /\ g \in 1..MaxGens /\ builds'[g] = build
  BY <1>0, <1>1, NewBuild
<1>3. PICK revision \in {"built", "stored"} :
        LET points == [gen |-> g, revision |-> revision] IN
        \/ /\ MayCommit(op) /\ doc' = MarkReady(doc, g)
           /\ jobs' = IF op.draft = 0 THEN jobs ELSE Published(op.draft)
           /\ index' = points /\ UNCHANGED loaded
        \/ /\ ~MayCommit(op) /\ Reconcile(Compensated(a, doc, FALSE), points) /\ UNCHANGED jobs
        \/ /\ MayCommit(op)
           /\ jobs' = IF op.draft = 0 THEN jobs ELSE Published(op.draft)
           /\ Reconcile(Compensated(a, MarkReady(doc, g), TRUE), points)
  BY DEF Publish
<1> DEFINE points == [gen |-> g, revision |-> revision]
<1>4. points \in Index /\ points.gen = g
  BY <1>2, StateAssumption DEF Index
<1> HIDE DEF op, g, build, points
<1>5. CASE UNCHANGED jobs /\ Reconcile(Compensated(a, doc, FALSE), points)
  <2>1. Grown(jobs, jobs') /\ NoneStarted(jobs, jobs')
    BY <1>5, Same, SameStarts
  <2>2. Sound(doc, builds', jobs') /\ Sound(op.rec, builds', jobs')
    BY <1>0, <1>1, <1>2, <2>1, SoundKept
  <2>3. Sound(Compensated(a, doc, FALSE), builds', jobs')
    BY <2>2, CompensatedIsSound DEF op
  <2>4. Sound(doc', builds', jobs') /\ IndexOK'
    BY <1>0, <1>4, <1>5, <2>3, ReconcileKeeps
  <2>5. OpsOK' /\ RunningIsWorked'
    BY <1>0, <1>2, <2>1, OneEnds, AdminWorks, WorkKept DEF Done
  <2>6. DataOK'
    BY <1>0, <1>2, <1>5, <2>4 DEF DataOK, IInv
  <2> QED
    BY <1>0, <2>4, <2>5, <2>6, EnvKept DEF IInv
<1>6. CASE /\ MayCommit(op) /\ jobs' = IF op.draft = 0 THEN jobs ELSE Published(op.draft)
           /\ \/ doc' = MarkReady(doc, g) /\ index' = points /\ UNCHANGED loaded
              \/ Reconcile(Compensated(a, MarkReady(doc, g), TRUE), points)
  <2>1. jobs' \in JobTable /\ Grown(jobs, jobs') /\ NoneStarted(jobs, jobs') /\ Approved(build, jobs')
    <3>1. CASE op.draft = 0
      <4>1. UNCHANGED jobs /\ build.job = 0
        BY <1>6, <3>1 DEF build
      <4> QED
        BY <1>0, <4>1, Same, SameStarts DEF Approved
    <3>2. CASE op.draft # 0
      <4>1. op.draft \in DOMAIN jobs /\ jobs' = Published(op.draft) /\ build.job = op.draft
            /\ build.rev = op.rev
        BY <1>1, <1>6, <3>2 DEF build
      <4>2. jobs[op.draft].draft = "open" /\ jobs[op.draft].rev = op.rev
        BY <1>6, <3>2 DEF MayCommit, OpenAt
      <4>3. /\ jobs' \in JobTable /\ Grown(jobs, jobs') /\ DOMAIN jobs' = DOMAIN jobs
            /\ jobs'[op.draft].draft = "published" /\ jobs'[op.draft].rev = jobs[op.draft].rev
            /\ \A k \in DOMAIN jobs : jobs'[k].status = jobs[k].status
        BY <1>0, <4>1, <4>2, PublishedKeeps
      <4> QED
        BY <4>1, <4>2, <4>3 DEF Approved, NoneStarted
    <3> QED
      BY <3>1, <3>2
  <2>2. Sound(MarkReady(doc, g), builds', jobs') /\ MarkReady(doc, g).chunks = g
    <3>1. Approved(builds'[g], jobs')
      BY <1>2, <2>1
    <3>2. doc \in Row
      BY <1>0 DEF Sound
    <3> QED
      BY <1>2, <3>1, <3>2, ReadyRow
  <2>3. Sound(op.rec, builds', jobs')
    BY <1>1, <1>2, <2>1, SoundKept
  <2>4. Sound(doc', builds', jobs') /\ IndexOK'
    <3>1. CASE doc' = MarkReady(doc, g) /\ index' = points /\ UNCHANGED loaded
      BY <1>0, <1>4, <2>2, <3>1 DEF IInv, IndexOK
    <3>2. CASE Reconcile(Compensated(a, MarkReady(doc, g), TRUE), points)
      <4>1. Sound(Compensated(a, MarkReady(doc, g), TRUE), builds', jobs')
        BY <2>2, <2>3, CompensatedIsSound DEF op
      <4> QED
        BY <1>0, <1>4, <3>2, <4>1, ReconcileKeeps
    <3> QED
      BY <1>6, <3>1, <3>2
  <2>5. OpsOK' /\ RunningIsWorked'
    BY <1>0, <1>2, <2>1, OneEnds, AdminWorks, WorkKept DEF Done
  <2>6. DataOK'
    BY <1>0, <1>2, <2>1, <2>4 DEF DataOK, IInv
  <2> QED
    BY <1>0, <2>4, <2>5, <2>6, EnvKept DEF IInv
<1> QED
  BY <1>3, <1>5, <1>6 DEF points

-----------------------------------------------------------------------------
(* The switch, deletion and the process.                                   *)

\* Nothing but the row, the file and the index.
LEMMA RowOnly ==
  ASSUME IInv, UNCHANGED <<jobs, builds, ops, up, env>>,
         file' \in {"none", "stored", "deleting"}, Sound(doc', builds, jobs), IndexOK'
  PROVE  IInv'
<1>1. UNCHANGED setup /\ UNCHANGED <<jobs, builds, ops, up>>
  BY DEF env
<1>2. Grown(jobs, jobs') /\ Longer(builds, builds') /\ NoneStarted(jobs, jobs')
  BY <1>1, Same, SameStarts
<1>3. OpsOK' /\ RunningIsWorked'
  BY <1>1, <1>2, NobodyMoves, WorkKept DEF IInv
<1>4. DataOK'
  BY <1>1 DEF IInv, DataOK
<1> QED
  BY <1>3, <1>4, EnvKept DEF IInv

LEMMA SearchKeeps == ASSUME IInv, Search PROVE IInv'
<1>1. UNCHANGED <<jobs, builds, ops, up, env>> /\ UNCHANGED <<doc, file>> /\ up /\ Refresh(doc)
  BY DEF Search, stateVars
<1>2. Rebuilt(doc) \in Index /\ (Searchable(doc) => Rebuilt(doc).gen = doc.chunks)
  BY RefreshKeeps DEF IInv, DataOK
<1>3. IndexOK'
  BY <1>1, <1>2 DEF IInv, IndexOK, Refresh
<1> QED
  BY <1>1, <1>3, RowOnly DEF IInv, DataOK

LEMMA ToggleKeeps == ASSUME IInv, NEW a \in Admins, Toggle(a) PROVE IInv'
<1>0. /\ UNCHANGED <<jobs, builds, ops, up, env>> /\ UNCHANGED <<file, loaded>>
      /\ Sound(doc, builds, jobs) /\ doc.chunks \in 0..MaxGens
  BY DEF Toggle, IInv, DataOK, Sound, Row
<1>1. /\ \A active \in BOOLEAN : Sound(SetActive(doc, active), builds, jobs)
      /\ ~Searchable(SetActive(doc, FALSE)) /\ SetActive(doc, TRUE).chunks = doc.chunks
  BY <1>0, RowOps DEF Searchable
<1>2. Sound(doc', builds, jobs) /\ IndexOK'
  <2>1. CASE /\ doc' = SetActive(doc, TRUE)
             /\ index' = [gen |-> doc.chunks, revision |-> "stored"]
    BY <1>0, <1>1, <2>1 DEF IInv, IndexOK, Index
  <2>2. CASE /\ doc' = SetActive(doc, FALSE)
             /\ index' = IF index.gen = doc.chunks THEN Nothing ELSE index
    <3>1. Nothing \in Index
      BY StateAssumption DEF Nothing, Index
    <3> QED
      BY <1>0, <1>1, <2>2, <3>1 DEF IInv, IndexOK
  <2> QED
    BY <2>1, <2>2 DEF Toggle
<1> QED
  BY <1>0, <1>2, RowOnly DEF IInv, DataOK

LEMMA DeleteKeeps ==
  ASSUME IInv, NEW a \in Admins, Delete(a) \/ DeleteConverged(a) \/ DeleteRevived(a)
  PROVE  IInv'
<1>0. /\ UNCHANGED <<builds, ops, up, env>> /\ UNCHANGED setup /\ jobs' = Cascade /\ up
      /\ Sound(doc, builds, jobs) /\ jobs \in JobTable /\ index \in Index
  BY DEF Delete, DeleteConverged, DeleteRevived, IInv, DataOK, IndexOK, Idle, env
<1>1. jobs' \in JobTable /\ Grown(jobs, jobs') /\ Longer(builds, builds') /\ NoneStarted(jobs, jobs')
  BY <1>0, CascadeKeeps, Same DEF NoneStarted
<1>2. Sound(doc, builds', jobs')
  BY <1>0, <1>1, SoundKept
<1>3. file' \in {"none", "stored", "deleting"}
  BY DEF Delete, DeleteConverged, DeleteRevived, FileBack, IInv, DataOK
<1>4. Sound(doc', builds', jobs') /\ IndexOK'
  <2>1. CASE Delete(a)
    <3>1. /\ Rebuilt(doc) \in Index /\ Sound(Deleted(doc), builds', jobs')
          /\ Deleted(doc).status # "ready"
      BY <1>2, RefreshKeeps, RowOps
    <3>2. doc' = Deleted(doc) /\ index' = Rebuilt(doc) /\ loaded' = TRUE
      BY <2>1 DEF Delete, Refresh
    <3> QED
      BY <1>0, <3>1, <3>2 DEF IInv, IndexOK, Searchable
  <2>2. ASSUME NEW row, Sound(row, builds', jobs'), doc' = row,
               Refresh(row) \/ (RefreshFails(index) /\ ~Searchable(row))
        PROVE  Sound(doc', builds', jobs') /\ IndexOK'
    <3>1. Rebuilt(row) \in Index /\ (Searchable(row) => Rebuilt(row).gen = row.chunks)
      BY <2>2, RefreshKeeps
    <3> QED
      BY <1>0, <2>2, <3>1 DEF IInv, IndexOK, Refresh, RefreshFails
  <2>3. CASE DeleteConverged(a)
    <3>1. Sound(Deleted(doc), builds', jobs')
      BY <1>2, RowOps
    <3> QED
      BY <2>2, <2>3, <3>1 DEF DeleteConverged
  <2>4. CASE DeleteRevived(a)
    <3> DEFINE row == IF FileBack = "stored" THEN doc ELSE SetActive(doc, FALSE)
    <3>1. Sound(row, builds', jobs')
      BY <1>2, RowOps
    <3>2. \/ doc' = row /\ Refresh(row)
          \/ doc' = SetActive(row, FALSE) /\ (Refresh(SetActive(row, FALSE)) \/ RefreshFails(index))
      BY <2>4 DEF DeleteRevived
    <3> HIDE DEF row
    <3>3. Sound(SetActive(row, FALSE), builds', jobs') /\ ~Searchable(SetActive(row, FALSE))
      BY <3>1, RowOps DEF Searchable
    <3> QED
      BY <2>2, <3>1, <3>2, <3>3
  <2> QED
    BY <2>1, <2>3, <2>4
<1>5. OpsOK' /\ RunningIsWorked'
  BY <1>0, <1>1, NobodyMoves, WorkKept DEF IInv
<1>6. DataOK'
  BY <1>0, <1>1, <1>3, <1>4 DEF IInv, DataOK
<1> QED
  BY <1>0, <1>4, <1>5, <1>6, EnvKept DEF IInv

LEMMA DeleteRefusedKeeps == ASSUME IInv, NEW a \in Admins, DeleteRefused(a) PROVE IInv'
<1>1. UNCHANGED <<jobs, builds, ops, up, env>> /\ UNCHANGED <<doc, file>> /\ up /\ Refresh(doc)
  BY DEF DeleteRefused, stateVars, Idle
<1>2. Rebuilt(doc) \in Index /\ (Searchable(doc) => Rebuilt(doc).gen = doc.chunks)
  BY RefreshKeeps DEF IInv, DataOK
<1>3. IndexOK'
  BY <1>1, <1>2 DEF IInv, IndexOK, Refresh
<1> QED
  BY <1>1, <1>3, RowOnly DEF IInv, DataOK

LEMMA CrashKeeps == ASSUME IInv, Crash PROVE IInv'
<1>0. /\ ~up' /\ ~loaded' /\ up' \in BOOLEAN /\ loaded' \in BOOLEAN /\ index' = Nothing
      /\ ops' = [s \in Slots |-> NoOp] /\ UNCHANGED <<doc, jobs, builds, setup>>
      /\ file' \in {"none", "stored", "deleting"}
  BY DEF Crash, IInv, DataOK
<1>1. Nothing \in Index
  BY StateAssumption DEF Nothing, Index
<1>2. OpsOK'
  <2>1. Handler(NoOp, builds', jobs') /\ NoOp.pc = "none" /\ NoOp \in Op
    BY NoOpIsHandler DEF Handler
  <2> QED
    BY <1>0, <2>1 DEF OpsOK, Slots
<1>3. boots' \in 0..MaxBoots
  BY WorkflowAssumption DEF Crash, IInv
<1> QED
  BY <1>0, <1>1, <1>2, <1>3 DEF IInv, DataOK, IndexOK, RunningIsWorked

LEMMA BootKeeps == ASSUME IInv, Boot PROVE IInv'
<1>0. /\ ~up /\ up' = TRUE /\ UNCHANGED <<doc, builds, file, ops, index, loaded, env>>
      /\ UNCHANGED setup /\ Background' = Background
      /\ jobs' = (IF Background THEN Recovered ELSE jobs) /\ jobs \in JobTable
  BY DEF Boot, IInv, DataOK, env, Background
<1>1. jobs' \in JobTable /\ Grown(jobs, jobs') /\ Longer(builds, builds')
  BY <1>0, RecoveredKeeps, Same
<1>2. OpsOK'
  BY <1>0, <1>1, NobodyMoves DEF IInv
<1>3. RunningIsWorked'
  BY <1>0, RecoveredKeeps DEF RunningIsWorked, Running
<1>4. DataOK'
  BY <1>0, <1>1, SoundKept DEF IInv, DataOK
<1>5. IndexOK'
  BY <1>0 DEF IInv, IndexOK
<1> QED
  BY <1>0, <1>2, <1>3, <1>4, <1>5, EnvKept DEF IInv

-----------------------------------------------------------------------------
(* The invariant.                                                          *)

LEMMA InitIInv == Init => IInv
<1> SUFFICES ASSUME Init PROVE IInv
  OBVIOUS
<1>1. jobs = <<>> /\ builds = <<>> /\ doc = NoRow /\ file = "none"
  BY DEF Init, StateInit
<1>2. jobs \in JobTable /\ builds \in BuildTable /\ DOMAIN jobs = {}
  BY <1>1, EmptySeq, StateAssumption DEF JobTable, BuildTable
<1>3. DataOK
  BY <1>1, <1>2, NewRows DEF DataOK
<1>4. Handler(NoOp, builds, jobs) /\ NoOp.pc = "none" /\ NoOp \in Op
  BY NoOpIsHandler DEF Handler
<1>5. OpsOK
  BY <1>4 DEF Init, OpsOK, Slots
<1>6. Nothing \in Index
  BY StateAssumption DEF Nothing, Index
<1>7. IndexOK
  BY <1>1, <1>6, NewRows DEF Init, IndexOK
<1>8. RunningIsWorked
  BY <1>2 DEF RunningIsWorked, Running
<1> QED
  BY <1>3, <1>5, <1>7, <1>8, WorkflowAssumption DEF IInv, Init

\* Every reachable state is well typed and keeps what a compensation relies on:
\* rows whose chunks were approved, handlers whose drafts exist, and an index
\* that follows the row.
THEOREM Invariant == Spec => []IInv
<1>1. IInv /\ [Next]_vars => IInv'
  <2> SUFFICES ASSUME IInv, [Next]_vars PROVE IInv'
    OBVIOUS
  <2>1. ASSUME NEW a \in Admins,
               \/ Upload(a) \/ Retry(a) \/ RetryWithoutFile(a)
               \/ StartPublish(a) \/ StartReprocess(a) \/ BuildFails(a) \/ PublishFails(a)
               \/ Publish(a) \/ Toggle(a) \/ Delete(a) \/ DeleteRefused(a)
               \/ DeleteConverged(a) \/ DeleteRevived(a)
        PROVE  IInv'
    BY <2>1, UploadKeeps, RetryKeeps, StartKeeps, BuildFailsKeeps, PublishFailsKeeps, PublishKeeps,
       ToggleKeeps, DeleteKeeps, DeleteRefusedKeeps
  <2>2. ASSUME NEW s \in Slots, ExtractionEnds(s) PROVE IInv'
    BY <2>2, ExtractionEndsKeeps
  <2>3. CASE Claim \/ SaveDraft \/ Search \/ Crash \/ Boot
    BY <2>3, ClaimKeeps, SaveDraftKeeps, SearchKeeps, CrashKeeps, BootKeeps
  <2>4. CASE UNCHANGED vars
    <3>1. UNCHANGED <<jobs, builds, ops, up, env>> /\ UNCHANGED <<doc, file, index, loaded>>
      BY <2>4 DEF vars, stateVars
    <3>2. IndexOK'
      BY <3>1 DEF IInv, IndexOK
    <3> QED
      BY <3>1, <3>2, RowOnly DEF IInv, DataOK
  <2> QED
    BY <2>1, <2>2, <2>3, <2>4 DEF Next
<1> QED
  BY <1>1, InitIInv, PTL DEF Spec

\* Every reachable state is well typed, whatever fails and whenever the process dies.
THEOREM TypeTheorem == Spec => []TypeOK
<1>1. IInv => TypeOK
  BY DEF IInv, DataOK, OpsOK, IndexOK, Sound, JobTable, BuildTable, TypeOK, StateTypeOK
<1> QED
  BY <1>1, Invariant, PTL

\* A running job of the queue is the one the worker extracts, across crashes
\* (DocumentOcrScheduler, recoverInterruptedExtractionJobs).
THEOREM WorkedTheorem == Spec => []RunningIsWorked
<1>1. IInv => RunningIsWorked
  BY DEF IInv
<1> QED
  BY <1>1, Invariant, PTL

\* A document is ready exactly while it has chunks, and the index that says it is
\* loaded holds the chunks that may be retrieved, whatever publications,
\* compensations, switches and failed deletions overlap (process,
\* compensatePublishFailure, delete, refreshSource).
THEOREM IndexedTheorem == Spec => []SearchableIsIndexed
<1>1. IInv => SearchableIsIndexed
  BY DEF IInv, DataOK, IndexOK, Sound, SearchableIsIndexed
<1> QED
  BY <1>1, Invariant, PTL

\* What a reviewed document is searched by is the draft revision that was
\* published, however many reviewers save, publish and retry at once
\* (publishReviewDraft, publishDraft, restorePublishedState).
THEOREM ReviewedTheorem == Spec => []PublishedIsReviewed
<1>1. IInv => PublishedIsReviewed
  BY DEF IInv, DataOK, Sound, Approved, PublishedIsReviewed
<1> QED
  BY <1>1, Invariant, PTL

-----------------------------------------------------------------------------
(* Folds over lists, along their traces (as in AlgorithmProofs).            *)

LEMMA Induct ==
  ASSUME NEW L \in Nat, NEW S, 0 \in S, \A k \in 1 .. L : k - 1 \in S => k \in S
  PROVE  0 .. L \subseteq S
<1> DEFINE Bad == {k \in 0 .. L : k \notin S}
<1> SUFFICES ASSUME Bad # {} PROVE FALSE
  OBVIOUS
<1>1. Bad \subseteq Nat
  OBVIOUS
<1>2. PICK k \in Bad : \A j \in Bad : ~(<<j, k>> \in OpToRel(<, Nat))
  <2> HIDE DEF Bad
  <2> QED BY <1>1, WFMin, NatLessThanWellFounded
<1>3. k \in 1 .. L /\ k - 1 \in 0 .. L /\ k - 1 \in Nat /\ k \in Nat /\ k \notin S
  BY <1>1
<1>4. k - 1 \notin Bad
  <2>1. k - 1 < k
    BY <1>3
  <2> HIDE DEF Bad
  <2> QED BY <1>2, <1>3, <2>1 DEF OpToRel
<1> QED BY <1>3, <1>4

\* The least and the greatest number of a set.
LEMMA LeastOf ==
  ASSUME NEW S \in SUBSET Nat, S # {}
  PROVE  Min(S) \in S /\ \A k \in S : Min(S) <= k
<1>1. PICK m \in S : \A j \in S : ~(<<j, m>> \in OpToRel(<, Nat))
  BY WFMin, NatLessThanWellFounded
<1>2. \A j \in S : m <= j
  <2> SUFFICES ASSUME NEW j \in S PROVE m <= j
    OBVIOUS
  <2>1. j \in Nat /\ m \in Nat
    OBVIOUS
  <2>2. ~(j < m)
    BY <1>1, <2>1 DEF OpToRel
  <2> QED BY <2>1, <2>2
<1> QED BY <1>2 DEF Min

LEMMA GreatestOf ==
  ASSUME NEW S, NEW L \in Nat, S \subseteq 0 .. L, S # {}
  PROVE  Max(S) \in S /\ \A k \in S : k <= Max(S)
<1> DEFINE Gap == {L - k : k \in S}
<1>1. Gap \subseteq Nat /\ Gap # {}
  OBVIOUS
<1>2. PICK g \in Gap : \A k \in Gap : g <= k
  <2> HIDE DEF Gap
  <2> QED BY <1>1, LeastOf
<1>3. PICK m \in S : g = L - m
  OBVIOUS
<1>4. \A k \in S : k <= m
  <2> SUFFICES ASSUME NEW k \in S PROVE k <= m
    OBVIOUS
  <2>1. L - k \in Gap /\ k \in 0 .. L /\ m \in 0 .. L
    OBVIOUS
  <2>2. L - m <= L - k
    BY <1>2, <1>3, <2>1
  <2> QED BY <2>1, <2>2
<1> QED BY <1>4 DEF Max

\* A fold is defined on all the sets of places; there is such a function.
FoldsSets(it, base, L, H) ==
    \A x \in SUBSET (1 .. L) : it[x] = IF x = {} THEN base ELSE H[<<it[x \ {Max(x)}], Max(x)>>]

LEMMA Recursion ==
  ASSUME NEW A, NEW base \in A, NEW L \in Nat, NEW H \in [A \X (1 .. L) -> A]
  PROVE  \E it \in [SUBSET (1 .. L) -> A] : FoldsSets(it, base, L, H)
<1> DEFINE Good(m, it) == \A x \in SUBSET (1 .. m) : it[x] = IF x = {} THEN base ELSE H[<<it[x \ {Max(x)}], Max(x)>>]
           Defined(m) == \E it \in [SUBSET (1 .. m) -> A] : Good(m, it)
           Levels == {m \in 0 .. L : Defined(m)}
<1>1. 0 \in Levels
  <2>1. [x \in SUBSET (1 .. 0) |-> base] \in [SUBSET (1 .. 0) -> A]
    OBVIOUS
  <2>2. \A x \in SUBSET (1 .. 0) : x = {}
    OBVIOUS
  <2>3. Good(0, [x \in SUBSET (1 .. 0) |-> base])
    BY <2>2
  <2>4. Defined(0)
    <3> HIDE DEF Good
    <3> QED BY <2>1, <2>3
  <2> HIDE DEF Defined
  <2> QED BY <2>4
<1>2. ASSUME NEW m \in 1 .. L, m - 1 \in Levels PROVE m \in Levels
  <2>1. PICK it \in [SUBSET (1 .. m - 1) -> A] : Good(m - 1, it)
    BY <1>2
  <2> DEFINE new == [x \in SUBSET (1 .. m) |-> IF m \in x THEN H[<<it[x \ {m}], m>>] ELSE it[x]]
  <2>2. \A x \in SUBSET (1 .. m) : x \ {m} \in SUBSET (1 .. m - 1) /\ (m \notin x => x \in SUBSET (1 .. m - 1))
    OBVIOUS
  <2>3. new \in [SUBSET (1 .. m) -> A]
    BY <2>2
  <2>4. ASSUME NEW x \in SUBSET (1 .. m), x # {} PROVE new[x] = H[<<new[x \ {Max(x)}], Max(x)>>]
    <3>1. Max(x) \in x /\ \A k \in x : k <= Max(x)
      <4>1. x \subseteq 0 .. m /\ m \in Nat
        OBVIOUS
      <4> QED BY <2>4, <4>1, GreatestOf
    <3>2. CASE m \in x
      <4>1. Max(x) = m
        <5>1. Max(x) \in 1 .. m /\ m <= Max(x)
          BY <3>1, <3>2
        <5> QED BY <5>1
      <4>2. x \ {m} \in SUBSET (1 .. m) /\ m \notin x \ {m}
        OBVIOUS
      <4> QED BY <3>2, <4>1, <4>2
    <3>3. CASE m \notin x
      <4>1. x \in SUBSET (1 .. m - 1) /\ x \ {Max(x)} \in SUBSET (1 .. m) /\ m \notin x \ {Max(x)}
        BY <3>3, <2>2
      <4>2. it[x] = H[<<it[x \ {Max(x)}], Max(x)>>]
        BY <2>1, <2>4, <4>1
      <4> QED BY <3>3, <4>1, <4>2
    <3> QED BY <3>2, <3>3
  <2>5. new[{}] = base
    BY <2>1
  <2>6. Good(m, new)
    BY <2>4, <2>5
  <2>7. Defined(m)
    <3> HIDE DEF Good, new
    <3> QED BY <2>3, <2>6
  <2> HIDE DEF Defined
  <2> QED BY <2>7
<1>3. L \in Levels
  <2> HIDE DEF Levels
  <2> QED BY <1>1, <1>2, Induct
<1> QED BY <1>3 DEF FoldsSets

\* Along the places 1 .. L such a function goes through the values of the fold.
FoldsFrom(f, A, L, H) ==
    \A x \in SUBSET (1 .. L) : x # {} /\ f[x \ {Max(x)}] \in A => f[x] = H[<<f[x \ {Max(x)}], Max(x)>>]

Follows(g, base, L, H) == g[0] = base /\ \A k \in 1 .. L : g[k] = H[<<g[k - 1], k>>]
LEMMA Unfold ==
  ASSUME NEW A, NEW base \in A, NEW L \in Nat, NEW H \in [A \X (1 .. L) -> A], NEW f, f[{}] = base, FoldsFrom(f, A, L, H)
  PROVE  \E g \in [0 .. L -> A] : Follows(g, base, L, H) /\ f[1 .. L] = g[L]
<1> DEFINE g == [k \in 0 .. L |-> f[1 .. k]]
           S == {k \in 0 .. L : g[k] \in A}
<1>1. \A k \in 1 .. L : /\ 1 .. k \in SUBSET (1 .. L) /\ 1 .. k # {}
                        /\ Max(1 .. k) = k /\ (1 .. k) \ {k} = 1 .. k - 1
  <2> TAKE k \in 1 .. L
  <2>0. 1 .. k \in SUBSET (1 .. L) /\ 1 .. k # {} /\ (1 .. k) \ {k} = 1 .. k - 1
    OBVIOUS
  <2>1. 1 .. k \subseteq 0 .. k /\ k \in 1 .. k /\ k \in Nat
    OBVIOUS
  <2>2. Max(1 .. k) \in 1 .. k /\ k <= Max(1 .. k)
    BY <2>1, GreatestOf
  <2>3. Max(1 .. k) = k
    BY <2>2
  <2> QED BY <2>0, <2>3
<1>2. 1 .. 0 = {}
  OBVIOUS
<1>3. g[0] = base
  BY <1>2
<1>4. ASSUME NEW k \in 1 .. L, k - 1 \in S PROVE g[k] = H[<<g[k - 1], k>>] /\ k \in S
  <2>1. g[k] = f[1 .. k] /\ g[k - 1] = f[1 .. k - 1] /\ g[k - 1] \in A /\ k \in 0 .. L
    BY <1>4
  <2>2. f[1 .. k] = H[<<f[1 .. k - 1], k>>]
    <3> HIDE DEF g
    <3> QED BY <1>1, <2>1 DEF FoldsFrom
  <2>3. g[k] \in A
    <3> HIDE DEF g
    <3> QED BY <2>1, <2>2
  <2>4. g[k] = H[<<g[k - 1], k>>]
    <3> HIDE DEF g
    <3> QED BY <2>1, <2>2
  <2>5. k \in S
    <3> HIDE DEF g
    <3> QED BY <2>1, <2>3
  <2> QED BY <2>4, <2>5
<1>5. 0 .. L \subseteq S
  <2>1. 0 \in S
    BY <1>3
  <2> HIDE DEF S
  <2> QED BY <1>4, <2>1, Induct
<1>6. g \in [0 .. L -> A] /\ \A k \in 1 .. L : g[k] = H[<<g[k - 1], k>>]
  <2>1. \A k \in 1 .. L : k - 1 \in 0 .. L
    OBVIOUS
  <2> QED BY <1>4, <1>5, <2>1
<1>7. f[1 .. L] = g[L]
  OBVIOUS
<1> HIDE DEF g
<1> QED BY <1>3, <1>6, <1>7 DEF Follows

LEMMA Chain ==
  ASSUME NEW A, NEW base \in A, NEW L \in Nat, NEW H \in [A \X (1 .. L) -> A]
  PROVE  \E g \in [0 .. L -> A] : Follows(g, base, L, H)
<1>1. PICK it \in [SUBSET (1 .. L) -> A] : FoldsSets(it, base, L, H)
  BY Recursion
<1>2. it[{}] = base
  BY <1>1 DEF FoldsSets
<1>3. FoldsFrom(it, A, L, H)
  BY <1>1 DEF FoldsSets, FoldsFrom
<1> QED BY <1>2, <1>3, Unfold

LEMMA PlacesMax ==
  ASSUME NEW L \in Nat, NEW x \in SUBSET (1 .. L), x # {}
  PROVE  Max(x) \in 1 .. L /\ x \ {Max(x)} \in SUBSET (1 .. L)
<1>1. x \subseteq 0 .. L
  OBVIOUS
<1>2. Max(x) \in x
  BY <1>1, GreatestOf
<1> QED BY <1>2

\* What is flattened so far.
Accumulates(g, ss) == g[0] = <<>> /\ \A k \in 1 .. Len(ss) : g[k] = g[k - 1] \o ss[k]

LEMMA FlattenTrace ==
  ASSUME NEW E, NEW ss \in Seq(Seq(E))
  PROVE  \E g \in [0 .. Len(ss) -> Seq(E)] : Accumulates(g, ss) /\ FlattenSeq(ss) = g[Len(ss)]
<1> DEFINE L == Len(ss)
           H == [p \in Seq(E) \X (1 .. L) |-> p[1] \o ss[p[2]]]
           F(it) == [i \in 1 .. L |-> IF i = 1 THEN ss[i] ELSE it[i - 1] \o ss[i]]
           f == CHOOSE it : it = F(it)
<1>1. L \in Nat /\ \A k \in 1 .. L : ss[k] \in Seq(E)
  OBVIOUS
<1>2. H \in [Seq(E) \X (1 .. L) -> Seq(E)] /\ \A a \in Seq(E) : \A k \in 1 .. L : H[<<a, k>>] = a \o ss[k]
  <2>1. \A a \in Seq(E) : \A k \in 1 .. L : a \o ss[k] \in Seq(E)
    BY <1>1, ConcatProperties
  <2> QED BY <2>1
<1>3. <<>> \in Seq(E)
  OBVIOUS
<1>4. PICK g \in [0 .. L -> Seq(E)] : Follows(g, <<>>, L, H)
  <2> HIDE DEF H, L
  <2> QED BY <1>1, <1>2, <1>3, Chain
<1>5. g[0] = <<>> /\ \A k \in 1 .. L : g[k - 1] \in Seq(E) /\ g[k] = g[k - 1] \o ss[k]
  <2>1. \A k \in 1 .. L : g[k - 1] \in Seq(E)
    <3>1. \A k \in 1 .. L : k - 1 \in 0 .. L
      BY <1>1
    <3> HIDE DEF L
    <3> QED BY <3>1
  <2> HIDE DEF H, L
  <2> QED BY <1>2, <1>4, <2>1 DEF Follows
<1>6. CASE L = 0
  BY <1>4, <1>5, <1>6 DEF FlattenSeq, Accumulates
<1>7. CASE L # 0
  <2>1. [i \in 1 .. L |-> g[i]] = F([i \in 1 .. L |-> g[i]])
    <3>1. \A i \in 1 .. L : g[i] = IF i = 1 THEN ss[i] ELSE g[i - 1] \o ss[i]
      <4> SUFFICES ASSUME NEW i \in 1 .. L PROVE g[i] = IF i = 1 THEN ss[i] ELSE g[i - 1] \o ss[i]
        OBVIOUS
      <4>1. g[i] = g[i - 1] \o ss[i] /\ ss[i] \in Seq(E)
        BY <1>1, <1>5
      <4>2. <<>> \o ss[i] = ss[i]
        BY <4>1, ConcatEmptySeq
      <4>3. i = 1 => g[i - 1] = <<>>
        BY <1>5
      <4> HIDE DEF L
      <4> QED BY <4>1, <4>2, <4>3
    <3> QED BY <3>1
  <2>2. f = F(f)
    <3>1. \E it : it = F(it)
      BY <2>1
    <3> HIDE DEF F
    <3> QED BY <3>1
  <2>3. FlattenSeq(ss) = f[L]
    BY <1>7 DEF FlattenSeq
  <2> DEFINE S == {k \in 0 .. L : k = 0 \/ f[k] = g[k]}
  <2>4. ASSUME NEW k \in 1 .. L, k - 1 \in S PROVE k \in S
    <3>1. f[k] = IF k = 1 THEN ss[k] ELSE f[k - 1] \o ss[k]
      <4> HIDE DEF f
      <4> QED BY <2>2
    <3>2. g[k] = IF k = 1 THEN ss[k] ELSE g[k - 1] \o ss[k]
      <4>1. [i \in 1 .. L |-> g[i]][k] = F([i \in 1 .. L |-> g[i]])[k]
        BY <2>1
      <4> QED BY <4>1
    <3>3. k - 1 = 0 \/ f[k - 1] = g[k - 1]
      BY <2>4
    <3> HIDE DEF f
    <3> QED BY <3>1, <3>2, <3>3
  <2>5. 0 .. L \subseteq S
    <3>1. 0 \in S
      OBVIOUS
    <3> HIDE DEF S, L
    <3> QED BY <1>1, <2>4, <3>1, Induct
  <2>6. f[L] = g[L]
    <3> HIDE DEF f
    <3> QED BY <1>1, <1>7, <2>5
  <2> QED BY <1>4, <1>5, <2>3, <2>6 DEF Accumulates
<1> QED BY <1>6, <1>7

\* Lists flattened one after the other.
LEMMA FlattenConcat ==
  ASSUME NEW E, NEW ss \in Seq(Seq(E)), NEW tt \in Seq(Seq(E))
  PROVE  FlattenSeq(ss \o tt) = FlattenSeq(ss) \o FlattenSeq(tt) /\ FlattenSeq(ss) \in Seq(E)
<1> DEFINE m == Len(ss)
           n == Len(tt)
           rr == ss \o tt
<1>1. /\ m \in Nat /\ n \in Nat /\ rr \in Seq(Seq(E)) /\ Len(rr) = m + n
      /\ \A k \in 1 .. m : rr[k] = ss[k]
      /\ \A k \in 1 .. n : rr[m + k] = tt[k] /\ tt[k] \in Seq(E)
  <2>1. m \in Nat /\ n \in Nat /\ rr \in Seq(Seq(E)) /\ Len(rr) = m + n
    BY ConcatProperties
  <2>2. \A i \in 1 .. m + n : rr[i] = IF i <= m THEN ss[i] ELSE tt[i - m]
    BY ConcatProperties
  <2>3. \A k \in 1 .. m : k \in 1 .. m + n /\ k <= m
    BY <2>1
  <2>4. \A k \in 1 .. n : m + k \in 1 .. m + n /\ ~(m + k <= m) /\ (m + k) - m = k
    BY <2>1
  <2>5. \A k \in 1 .. n : tt[k] \in Seq(E)
    OBVIOUS
  <2> HIDE DEF m, n, rr
  <2> QED BY <2>1, <2>2, <2>3, <2>4, <2>5
<1>2. PICK f \in [0 .. m -> Seq(E)] : Accumulates(f, ss) /\ FlattenSeq(ss) = f[m]
  BY FlattenTrace
<1>3. PICK g \in [0 .. n -> Seq(E)] : Accumulates(g, tt) /\ FlattenSeq(tt) = g[n]
  BY FlattenTrace
<1>4. PICK h \in [0 .. m + n -> Seq(E)] : Accumulates(h, rr) /\ FlattenSeq(rr) = h[m + n]
  <2> HIDE DEF m, n, rr
  <2>1. PICK h \in [0 .. Len(rr) -> Seq(E)] : Accumulates(h, rr) /\ FlattenSeq(rr) = h[Len(rr)]
    BY <1>1, FlattenTrace
  <2> QED BY <1>1, <2>1
<1>5. /\ f[0] = <<>> /\ \A k \in 1 .. m : f[k] = f[k - 1] \o ss[k]
      /\ g[0] = <<>> /\ \A k \in 1 .. n : g[k] = g[k - 1] \o tt[k]
      /\ h[0] = <<>> /\ \A k \in 1 .. m + n : h[k] = h[k - 1] \o rr[k]
  BY <1>1, <1>2, <1>3, <1>4 DEF Accumulates
<1> HIDE DEF m, n, rr
<1> DEFINE S == {k \in 0 .. m : h[k] = f[k]}
           T == {k \in 0 .. n : h[m + k] = f[m] \o g[k]}
<1>6. m \in S
  <2>1. 0 \in S
    BY <1>1, <1>5
  <2>2. ASSUME NEW k \in 1 .. m, k - 1 \in S PROVE k \in S
    <3>1. k \in 1 .. m + n /\ rr[k] = ss[k] /\ k \in 0 .. m /\ k - 1 \in 0 .. m
      BY <1>1
    <3>2. h[k - 1] = f[k - 1]
      BY <2>2
    <3>3. h[k] = f[k]
      BY <1>5, <3>1, <3>2
    <3> QED BY <3>1, <3>3
  <2>3. 0 .. m \subseteq S
    <3> HIDE DEF S
    <3> QED BY <1>1, <2>1, <2>2, Induct
  <2> QED BY <1>1, <2>3
<1>7. n \in T
  <2>1. 0 \in T
    <3>1. f[m] \in Seq(E) /\ h[m] = f[m] /\ m + 0 = m /\ 0 \in 0 .. n
      BY <1>1, <1>6
    <3>2. f[m] \o <<>> = f[m]
      BY <3>1, ConcatEmptySeq
    <3>3. h[m + 0] = f[m] \o g[0]
      BY <1>5, <3>1, <3>2
    <3> QED BY <3>1, <3>3
  <2>2. ASSUME NEW k \in 1 .. n, k - 1 \in T PROVE k \in T
    <3>1. m + k \in 1 .. m + n /\ (m + k) - 1 = m + (k - 1) /\ k - 1 \in 0 .. n /\ k \in 0 .. n
      BY <1>1
    <3>2. h[m + k] = h[m + (k - 1)] \o tt[k]
      BY <1>1, <1>5, <3>1
    <3>3. h[m + (k - 1)] = f[m] \o g[k - 1]
      BY <2>2
    <3>4. f[m] \in Seq(E) /\ g[k - 1] \in Seq(E) /\ tt[k] \in Seq(E)
      <4>1. m \in 0 .. m
        BY <1>1
      <4> QED BY <1>1, <3>1, <4>1
    <3>5. (f[m] \o g[k - 1]) \o tt[k] = f[m] \o (g[k - 1] \o tt[k])
      <4> DEFINE a == f[m]
                 b == g[k - 1]
                 c == tt[k]
      <4>1. a \in Seq(E) /\ b \in Seq(E) /\ c \in Seq(E)
        BY <3>4
      <4> HIDE DEF a, b, c
      <4>2. (a \o b) \o c = a \o (b \o c)
        BY <4>1, ConcatAssociative, SMTT(60)
      <4> QED BY <4>2 DEF a, b, c
    <3> QED BY <1>5, <3>1, <3>2, <3>3, <3>5
  <2>3. 0 .. n \subseteq T
    <3> HIDE DEF T
    <3> QED BY <1>1, <2>1, <2>2, Induct
  <2>4. n \in 0 .. n
    BY <1>1
  <2> HIDE DEF T
  <2> QED BY <2>3, <2>4
<1>8. f[m] \in Seq(E)
  BY <1>1
<1> QED BY <1>2, <1>3, <1>4, <1>7, <1>8 DEF rr

\* A list of one list, and of none.
LEMMA FlattenOne ==
  ASSUME NEW E, NEW s \in Seq(E)
  PROVE  FlattenSeq(<<s>>) = s /\ FlattenSeq(<<>>) = <<>>
<1>1. <<s>> \in Seq(Seq(E)) /\ Len(<<s>>) = 1 /\ <<s>>[1] = s
  OBVIOUS
<1>2. PICK g \in [0 .. 1 -> Seq(E)] : Accumulates(g, <<s>>) /\ FlattenSeq(<<s>>) = g[1]
  BY <1>1, FlattenTrace
<1>3. g[0] = <<>> /\ g[1] = g[0] \o s
  <2> DEFINE ss == <<s>>
  <2>1. ss[1] = s /\ Len(ss) = 1 /\ 1 \in 1 .. Len(ss) /\ Accumulates(g, ss)
    BY <1>2
  <2>2. g[0] = <<>> /\ \A k \in 1 .. Len(ss) : g[k] = g[k - 1] \o ss[k]
    <3> HIDE DEF ss
    <3> QED BY <2>1 DEF Accumulates
  <2>3. 1 - 1 = 0
    OBVIOUS
  <2> HIDE DEF ss
  <2> QED BY <2>1, <2>2, <2>3
<1>4. <<>> \o s = s
  BY ConcatEmptySeq
<1>5. <<>> \in Seq(Seq(E)) /\ Len(<<>>) = 0
  OBVIOUS
<1>6. PICK h \in [0 .. 0 -> Seq(E)] : Accumulates(h, <<>>) /\ FlattenSeq(<<>>) = h[0]
  BY <1>5, FlattenTrace
<1> QED BY <1>2, <1>3, <1>4, <1>6 DEF Accumulates

-----------------------------------------------------------------------------
(* Sums and lists of lists.                                                 *)

\* A fold as the function that Unfold takes.
Unfolds(f, A, base, L, H) ==
    base \in A /\ L \in Nat /\ H \in [A \X (1 .. L) -> A] /\ f[{}] = base /\ FoldsFrom(f, A, L, H)
Unfolded(f, A, base, L, H) == \E g \in [0 .. L -> A] : Follows(g, base, L, H) /\ f[1 .. L] = g[L]

LEMMA Unfolding ==
  ASSUME NEW f, NEW A, NEW base, NEW L, NEW H, Unfolds(f, A, base, L, H)
  PROVE  Unfolded(f, A, base, L, H)
<1>1. base \in A /\ L \in Nat /\ H \in [A \X (1 .. L) -> A] /\ f[{}] = base /\ FoldsFrom(f, A, L, H)
  BY DEF Unfolds
<1>2. \E g \in [0 .. L -> A] : Follows(g, base, L, H) /\ f[1 .. L] = g[L]
  BY <1>1, Unfold, SMTT(120)
<1> QED BY <1>2 DEF Unfolded

LEMMA Grouped ==
  ASSUME NEW E, NEW a \in Seq(E), NEW b \in Seq(E), NEW c \in Seq(E)
  PROVE  (a \o b) \o c = a \o (b \o c)
BY ConcatAssociative, SMTT(60)

\* A prefix and the next element.
LEMMA PrefixNext ==
  ASSUME NEW E, NEW s \in Seq(E)
  PROVE  \A k \in 1 .. Len(s) : /\ SubSeq(s, 1, k - 1) \in Seq(E) /\ s[k] \in E
                                /\ SubSeq(s, 1, k) = Append(SubSeq(s, 1, k - 1), s[k])
<1> SUFFICES ASSUME NEW k \in 1 .. Len(s)
             PROVE  SubSeq(s, 1, k - 1) \in Seq(E) /\ s[k] \in E /\ SubSeq(s, 1, k) = Append(SubSeq(s, 1, k - 1), s[k])
  OBVIOUS
<1> DEFINE b == SubSeq(s, 1, k - 1)
           e == s[k]
<1>1. k - 1 \in Int /\ 1 \in Int /\ \A i \in 1 .. k - 1 : s[i] \in E
  OBVIOUS
<1>2. b \in Seq(E) /\ e \in E
  BY <1>1, SubSeqProperties
<1>3. SubSeq(s, 1, k) = b \o <<e>>
  <2>1. 1 \in 1 .. Len(s) /\ k \in 1 .. Len(s)
    OBVIOUS
  <2> QED BY <2>1, SubSeqRecursiveSecond
<1> HIDE DEF b, e
<1>4. Append(b, e) = b \o <<e>>
  BY <1>2, AppendIsConcat
<1> QED BY <1>2, <1>3, <1>4 DEF b, e

\* An induction along a list, for a set of lists.
LEMMA AlongLists ==
  ASSUME NEW E, NEW P, <<>> \in P, \A s \in Seq(E) : \A e \in E : s \in P => Append(s, e) \in P
  PROVE  Seq(E) \subseteq P
<1> SUFFICES ASSUME NEW s \in Seq(E) PROVE s \in P
  OBVIOUS
<1> DEFINE L == Len(s)
           front == [k \in 0 .. L |-> SubSeq(s, 1, k)]
           T == {k \in 0 .. L : front[k] \in P}
<1>1. L \in Nat /\ \A k \in 0 .. L : \A i \in 1 .. k : s[i] \in E
  OBVIOUS
<1>2. front[0] = <<>> /\ front[L] = s
  <2>1. SubSeq(s, 1, 0) = <<>> /\ SubSeq(s, 1, L) = s
    BY SubSeqEmpty, SubSeqFull
  <2>2. 0 \in 0 .. L /\ L \in 0 .. L
    BY <1>1
  <2> HIDE DEF L
  <2> QED BY <2>1, <2>2
<1>3. \A k \in 1 .. L : front[k - 1] \in Seq(E) /\ s[k] \in E /\ front[k] = Append(front[k - 1], s[k])
  <2> SUFFICES ASSUME NEW k \in 1 .. L PROVE front[k - 1] \in Seq(E) /\ s[k] \in E /\ front[k] = Append(front[k - 1], s[k])
    OBVIOUS
  <2>1. SubSeq(s, 1, k - 1) \in Seq(E) /\ s[k] \in E /\ SubSeq(s, 1, k) = Append(SubSeq(s, 1, k - 1), s[k])
    BY PrefixNext
  <2>2. front[k] = SubSeq(s, 1, k) /\ front[k - 1] = SubSeq(s, 1, k - 1)
    BY <1>1
  <2> QED BY <2>1, <2>2
<1> HIDE DEF front, L
<1>4. 0 \in T
  BY <1>1, <1>2
<1>5. ASSUME NEW k \in 1 .. L, k - 1 \in T PROVE k \in T
  <2> DEFINE b == front[k - 1]
             e == s[k]
  <2>1. b \in P /\ b \in Seq(E) /\ e \in E /\ front[k] = Append(b, e) /\ k \in 0 .. L
    BY <1>1, <1>3, <1>5
  <2> HIDE DEF b, e
  <2>2. Append(b, e) \in P
    BY <2>1
  <2> QED BY <2>1, <2>2
<1>6. 0 .. L \subseteq T
  <2> HIDE DEF T
  <2> QED BY <1>1, <1>4, <1>5, Induct
<1> QED BY <1>1, <1>2, <1>6
Plus(total, n) == total + n

\* The sums of the first numbers of a list.
Adding(s, base) == FoldLeft(Plus, base, s)
AddingIn(A, L, s, base) ==
    base \in A /\ L \in Nat /\ DOMAIN s = 1 .. L /\ \A a \in A : \A k \in 1 .. L : Plus(a, s[k]) \in A
AddingRuns(A, L, s, base) ==
    \E g \in [0 .. L -> A] : g[0] = base /\ Adding(s, base) = g[L] /\ \A k \in 1 .. L : g[k] = Plus(g[k - 1], s[k])

LEMMA SumTrace ==
  ASSUME NEW A, NEW base, NEW L, NEW s, AddingIn(A, L, s, base)
  PROVE  AddingRuns(A, L, s, base)
<1> DEFINE H == [p \in A \X (1 .. L) |-> Plus(p[1], s[p[2]])]
           F(it) == [x \in SUBSET (1 .. L) |-> IF x = {} THEN base ELSE Plus(it[x \ {Max(x)}], s[Max(x)])]
           f == CHOOSE it : it = F(it)
<1>0. base \in A /\ L \in Nat /\ DOMAIN s = 1 .. L
  BY DEF AddingIn
<1>1. H \in [A \X (1 .. L) -> A]
  BY <1>0 DEF AddingIn
<1>2. \A a \in A : \A k \in 1 .. L : H[<<a, k>>] = Plus(a, s[k])
  OBVIOUS
<1>3. \A x \in SUBSET (1 .. L) : x # {} => Max(x) \in 1 .. L /\ x \ {Max(x)} \in SUBSET (1 .. L)
  BY <1>0, PlacesMax
<1>4. \E it : it = F(it)
  <2>1. PICK it \in [SUBSET (1 .. L) -> A] : FoldsSets(it, base, L, H)
    <3> HIDE DEF H
    <3> QED BY <1>0, <1>1, Recursion
  <2>2. it[{}] = base /\ \A x \in SUBSET (1 .. L) : x # {} => it[x] = H[<<it[x \ {Max(x)}], Max(x)>>]
    <3> HIDE DEF H
    <3> QED BY <2>1 DEF FoldsSets
  <2>3. ASSUME NEW x \in SUBSET (1 .. L), x # {} PROVE it[x] = Plus(it[x \ {Max(x)}], s[Max(x)])
    <3> HIDE DEF H
    <3> QED BY <1>2, <1>3, <2>2, <2>3
  <2>4. it = F(it)
    <3> HIDE DEF H
    <3> QED BY <2>2, <2>3
  <2> QED BY <2>4
<1>5. f = F(f)
  <2> HIDE DEF F, H
  <2> QED BY <1>4
<1>6. Adding(s, base) = f[1 .. L]
  BY <1>0 DEF Adding, FoldLeft, MapThenFoldSet
<1>7. f[{}] = base /\ \A x \in SUBSET (1 .. L) : x # {} => f[x] = Plus(f[x \ {Max(x)}], s[Max(x)])
  <2> HIDE DEF f, H
  <2> QED BY <1>5
<1> HIDE DEF f, F, H
<1>8. FoldsFrom(f, A, L, H)
  BY <1>2, <1>3, <1>7 DEF FoldsFrom
<1>9. f[{}] = base
  BY <1>7
<1>10. Unfolds(f, A, base, L, H)
  BY <1>0, <1>1, <1>8, <1>9 DEF Unfolds
<1>11. PICK g \in [0 .. L -> A] : Follows(g, base, L, H) /\ f[1 .. L] = g[L]
  BY <1>10, Unfolding DEF Unfolded
<1>12. \A k \in 1 .. L : g[k] = Plus(g[k - 1], s[k])
  <2> SUFFICES ASSUME NEW k \in 1 .. L PROVE g[k] = Plus(g[k - 1], s[k])
    OBVIOUS
  <2>1. g[k - 1] \in A /\ g[k] = H[<<g[k - 1], k>>]
    BY <1>0, <1>11 DEF Follows
  <2> QED BY <2>1, <1>2
<1> QED BY <1>6, <1>11, <1>12 DEF Follows, AddingRuns

LEMMA SumOfNumbers ==
  ASSUME NEW s \in Seq(Nat)
  PROVE  \E g \in [0 .. Len(s) -> Nat] : g[0] = 0 /\ Sum(s) = g[Len(s)] /\ \A k \in 1 .. Len(s) : g[k] = g[k - 1] + s[k]
<1> DEFINE L == Len(s)
<1>1. AddingIn(Nat, L, s, 0)
  <2>1. L \in Nat /\ DOMAIN s = 1 .. L /\ 0 \in Nat /\ \A k \in 1 .. L : s[k] \in Nat
    OBVIOUS
  <2> QED BY <2>1 DEF AddingIn, Plus
<1>2. Sum(s) = Adding(s, 0)
  BY DEF Sum, Adding, Plus, FoldLeft, MapThenFoldSet
<1>3. AddingRuns(Nat, L, s, 0)
  BY <1>1, SumTrace
<1> QED BY <1>2, <1>3 DEF AddingRuns, Plus

LEMMA SumAppend ==
  ASSUME NEW s \in Seq(Nat), NEW n \in Nat
  PROVE  Sum(Append(s, n)) = Sum(s) + n /\ Sum(s) \in Nat
<1> DEFINE t == Append(s, n)
           L == Len(s)
<1>1. /\ t \in Seq(Nat) /\ Len(t) = L + 1 /\ L \in Nat /\ t[L + 1] = n
      /\ \A k \in 1 .. L : t[k] = s[k]
  BY AppendProperties
<1>2. PICK f \in [0 .. L -> Nat] : f[0] = 0 /\ Sum(s) = f[L] /\ \A k \in 1 .. L : f[k] = f[k - 1] + s[k]
  BY SumOfNumbers
<1>3. PICK g \in [0 .. L + 1 -> Nat] : g[0] = 0 /\ Sum(t) = g[L + 1] /\ \A k \in 1 .. L + 1 : g[k] = g[k - 1] + t[k]
  <2> HIDE DEF t, L
  <2>1. \E g \in [0 .. Len(t) -> Nat] : g[0] = 0 /\ Sum(t) = g[Len(t)] /\ \A k \in 1 .. Len(t) : g[k] = g[k - 1] + t[k]
    BY <1>1, SumOfNumbers
  <2> QED BY <1>1, <2>1
<1> HIDE DEF t, L
<1> DEFINE T == {k \in 0 .. L : g[k] = f[k]}
<1>4. 0 \in T
  BY <1>1, <1>2, <1>3
<1>5. ASSUME NEW k \in 1 .. L, k - 1 \in T PROVE k \in T
  <2>1. k \in 1 .. L + 1 /\ t[k] = s[k] /\ k \in 0 .. L
    BY <1>1
  <2>2. g[k] = g[k - 1] + t[k] /\ f[k] = f[k - 1] + s[k] /\ g[k - 1] = f[k - 1]
    BY <1>2, <1>3, <1>5, <2>1
  <2> QED BY <2>1, <2>2
<1>6. L \in T
  <2>1. 0 .. L \subseteq T
    <3> HIDE DEF T
    <3> QED BY <1>1, <1>4, <1>5, Induct
  <2> QED BY <1>1, <2>1
<1>7. L + 1 \in 1 .. L + 1 /\ L + 1 - 1 = L /\ L \in 0 .. L
  BY <1>1
<1>8. g[L + 1] = g[L] + n
  BY <1>1, <1>3, <1>7
<1> QED BY <1>2, <1>3, <1>6, <1>7, <1>8 DEF t

LEMMA SumOfNone == Sum(<<>>) = 0
<1>1. <<>> \in Seq(Nat) /\ Len(<<>>) = 0
  OBVIOUS
<1>2. PICK g \in [0 .. 0 -> Nat] : g[0] = 0 /\ Sum(<<>>) = g[0]
  BY <1>1, SumOfNumbers
<1> QED BY <1>2

\* One more list, and one more element in the last one.
LEMMA FlattenAppend ==
  ASSUME NEW E, NEW ss \in Seq(Seq(E)), NEW s \in Seq(E)
  PROVE  FlattenSeq(Append(ss, s)) = FlattenSeq(ss) \o s /\ FlattenSeq(ss) \in Seq(E)
<1> DEFINE one == <<s>>
<1>1. one \in Seq(Seq(E)) /\ FlattenSeq(one) = s
  BY FlattenOne
<1>2. Append(ss, s) = ss \o one
  BY AppendIsConcat
<1> HIDE DEF one
<1>3. FlattenSeq(ss \o one) = FlattenSeq(ss) \o FlattenSeq(one) /\ FlattenSeq(ss) \in Seq(E)
  BY <1>1, FlattenConcat
<1> QED BY <1>1, <1>2, <1>3

LEMMA FlattenLast ==
  ASSUME NEW E, NEW ss \in Seq(Seq(E)), ss # <<>>, NEW e \in E
  PROVE  /\ [ss EXCEPT ![Len(ss)] = Append(@, e)] \in Seq(Seq(E))
         /\ FlattenSeq([ss EXCEPT ![Len(ss)] = Append(@, e)]) = Append(FlattenSeq(ss), e)
<1> DEFINE n == Len(ss)
           new == [ss EXCEPT ![n] = Append(@, e)]
<1>1. PICK front \in Seq(Seq(E)), last \in Seq(E) : ss = Append(front, last)
  BY SequenceEmptyOrAppend
<1>2. n \in Nat /\ n = Len(front) + 1 /\ ss[n] = last /\ Len(front) \in Nat /\ \A i \in 1 .. Len(front) : ss[i] = front[i]
  BY <1>1, AppendProperties
<1>3. Append(last, e) \in Seq(E) /\ n \in 1 .. Len(ss)
  BY <1>2
<1>4. /\ new \in Seq(Seq(E)) /\ Len(new) = n
      /\ \A j \in 1 .. n : new[j] = IF j = n THEN Append(last, e) ELSE ss[j]
  <2> DEFINE item == Append(last, e)
             it == [ss EXCEPT ![n] = item]
  <2>1. new = it
    BY <1>2
  <2>2. item \in Seq(E)
    BY <1>3
  <2> HIDE DEF item, n
  <2>3. /\ it \in Seq(Seq(E)) /\ Len(it) = Len(ss)
        /\ \A j \in 1 .. Len(ss) : it[j] = IF j = n THEN item ELSE ss[j]
    BY <1>3, <2>2, ExceptSeq
  <2> HIDE DEF it, new
  <2> QED BY <2>1, <2>3 DEF item, n
<1>5. new = Append(front, Append(last, e))
  <2> DEFINE item == Append(last, e)
             t == Append(front, item)
  <2>1. item \in Seq(E)
    BY <1>3
  <2> HIDE DEF item
  <2>2. /\ t \in Seq(Seq(E)) /\ Len(t) = Len(front) + 1 /\ t[Len(front) + 1] = item
        /\ \A i \in 1 .. Len(front) : t[i] = front[i]
    BY <2>1, AppendProperties
  <2>3. \A j \in 1 .. n : new[j] = IF j = n THEN item ELSE ss[j]
    BY <1>4 DEF item
  <2> HIDE DEF t, new, n
  <2>4. Len(new) = Len(t) /\ \A j \in 1 .. Len(new) : new[j] = t[j]
    <3>1. Len(new) = n /\ Len(t) = n
      BY <1>2, <1>4, <2>2
    <3>2. ASSUME NEW j \in 1 .. n PROVE new[j] = t[j]
      <4>1. CASE j = n
        BY <1>2, <2>2, <2>3, <4>1
      <4>2. CASE j # n
        <5>1. j \in 1 .. Len(front)
          BY <1>2, <4>2
        <5> QED BY <1>2, <2>2, <2>3, <4>2, <5>1
      <4> QED BY <4>1, <4>2
    <3> QED BY <3>1, <3>2
  <2>5. new = t
    BY <1>4, <2>2, <2>4, SeqEqual
  <2> QED BY <2>5 DEF t, item
<1>6. FlattenSeq(ss) = FlattenSeq(front) \o last /\ FlattenSeq(front) \in Seq(E)
  BY <1>1, FlattenAppend
<1>7. FlattenSeq(new) = FlattenSeq(front) \o Append(last, e)
  <2> DEFINE item == Append(last, e)
  <2>1. item \in Seq(E) /\ new = Append(front, item)
    BY <1>3, <1>5
  <2> HIDE DEF item, new
  <2>2. FlattenSeq(Append(front, item)) = FlattenSeq(front) \o item
    BY <2>1, FlattenAppend
  <2> QED BY <2>1, <2>2 DEF item
<1>8. FlattenSeq(front) \o Append(last, e) = Append(FlattenSeq(front) \o last, e)
  <2> DEFINE a == FlattenSeq(front)
             one == <<e>>
  <2>1. a \in Seq(E) /\ one \in Seq(E)
    BY <1>6
  <2>2. Append(last, e) = last \o one
    BY AppendIsConcat
  <2> HIDE DEF a
  <2>3. a \o last \in Seq(E)
    BY <2>1, ConcatProperties
  <2>4. Append(a \o last, e) = (a \o last) \o one
    BY <2>3, AppendIsConcat
  <2> HIDE DEF one
  <2>5. (a \o last) \o one = a \o (last \o one)
    BY <2>1, Grouped
  <2> QED BY <2>2, <2>4, <2>5 DEF a
<1> QED BY <1>4, <1>6, <1>7, <1>8 DEF new, n

\* No list at all, and what the lists hold.
LEMMA FlattenNone == FlattenSeq(<<>>) = <<>>
<1>1. <<>> \in Seq(Seq({})) /\ Len(<<>>) = 0
  OBVIOUS
<1>2. PICK g \in [0 .. 0 -> Seq({})] : Accumulates(g, <<>>) /\ FlattenSeq(<<>>) = g[0]
  BY <1>1, FlattenTrace
<1> QED BY <1>2 DEF Accumulates

LEMMA FlattenHolds ==
  ASSUME NEW E, NEW ss \in Seq(Seq(E))
  PROVE  ToSet(FlattenSeq(ss)) = {e \in E : \E i \in DOMAIN ss : e \in ToSet(ss[i])}
<1> DEFINE Held(u) == {e \in E : \E i \in DOMAIN u : e \in ToSet(u[i])}
           P == {u \in Seq(Seq(E)) : ToSet(FlattenSeq(u)) = Held(u)}
<1>1. <<>> \in P
  <2>1. ToSet(<<>>) = {} /\ Held(<<>>) = {}
    BY DEF ToSet
  <2> QED BY <2>1, FlattenNone
<1>2. ASSUME NEW u \in Seq(Seq(E)), NEW s \in Seq(E), u \in P PROVE Append(u, s) \in P
  <2> DEFINE new == Append(u, s)
             flat == FlattenSeq(u)
  <2>1. FlattenSeq(new) = flat \o s /\ flat \in Seq(E)
    BY FlattenAppend
  <2>2. /\ new \in Seq(Seq(E)) /\ Len(new) = Len(u) + 1 /\ new[Len(u) + 1] = s
        /\ DOMAIN new = 1 .. Len(u) + 1 /\ DOMAIN u = 1 .. Len(u) /\ Len(u) \in Nat
        /\ \A i \in 1 .. Len(u) : new[i] = u[i]
    BY AppendProperties
  <2>3. ToSet(flat) = Held(u)
    BY <1>2
  <2> HIDE DEF new, flat
  <2>4. ToSet(flat \o s) = ToSet(flat) \cup ToSet(s)
    <3> DEFINE both == flat \o s
    <3>1. /\ both \in Seq(E) /\ Len(both) = Len(flat) + Len(s)
          /\ \A i \in 1 .. Len(flat) + Len(s) : both[i] = IF i <= Len(flat) THEN flat[i] ELSE s[i - Len(flat)]
      BY <2>1, ConcatProperties
    <3>2. Len(flat) \in Nat /\ Len(s) \in Nat /\ DOMAIN flat = 1 .. Len(flat) /\ DOMAIN s = 1 .. Len(s)
      BY <2>1
    <3> HIDE DEF both
    <3>3. DOMAIN both = 1 .. Len(flat) + Len(s)
      BY <3>1
    <3>4. ASSUME NEW i \in 1 .. Len(s) PROVE s[i] \in ToSet(both)
      <4>1. Len(flat) + i \in 1 .. Len(flat) + Len(s) /\ ~(Len(flat) + i <= Len(flat)) /\ Len(flat) + i - Len(flat) = i
        BY <3>2
      <4>2. both[Len(flat) + i] = s[i]
        BY <3>1, <4>1
      <4> QED BY <3>3, <4>1, <4>2 DEF ToSet
    <3>5. ASSUME NEW i \in 1 .. Len(flat) PROVE flat[i] \in ToSet(both)
      <4>1. i \in 1 .. Len(flat) + Len(s) /\ i <= Len(flat)
        BY <3>2
      <4>2. both[i] = flat[i]
        BY <3>1, <4>1
      <4> QED BY <3>3, <4>1, <4>2 DEF ToSet
    <3>6. ASSUME NEW i \in 1 .. Len(flat) + Len(s) PROVE both[i] \in ToSet(flat) \cup ToSet(s)
      <4>1. CASE i <= Len(flat)
        <5>1. i \in DOMAIN flat /\ both[i] = flat[i]
          BY <3>1, <3>2, <4>1
        <5> QED BY <5>1 DEF ToSet
      <4>2. CASE ~(i <= Len(flat))
        <5>1. i - Len(flat) \in DOMAIN s /\ both[i] = s[i - Len(flat)]
          BY <3>1, <3>2, <4>2
        <5> QED BY <5>1 DEF ToSet
      <4> QED BY <4>1, <4>2
    <3> QED BY <3>2, <3>3, <3>4, <3>5, <3>6 DEF ToSet, both
  <2>5. ToSet(s) \subseteq E
    BY DEF ToSet
  <2>6. Held(new) = Held(u) \cup ToSet(s)
    <3>1. ASSUME NEW e \in Held(new) PROVE e \in Held(u) \cup ToSet(s)
      <4>1. PICK i \in DOMAIN new : e \in ToSet(new[i])
        OBVIOUS
      <4>2. CASE i = Len(u) + 1
        BY <2>2, <4>1, <4>2
      <4>3. CASE i # Len(u) + 1
        <5>1. i \in DOMAIN u /\ new[i] = u[i]
          BY <2>2, <4>3
        <5> QED BY <4>1, <5>1
      <4> QED BY <4>2, <4>3
    <3>2. ASSUME NEW e \in Held(u) PROVE e \in Held(new)
      <4>1. PICK i \in DOMAIN u : e \in ToSet(u[i])
        OBVIOUS
      <4>2. i \in DOMAIN new /\ new[i] = u[i]
        BY <2>2
      <4> QED BY <4>1, <4>2
    <3>3. ASSUME NEW e \in ToSet(s) PROVE e \in Held(new)
      <4>1. Len(u) + 1 \in DOMAIN new /\ new[Len(u) + 1] = s /\ e \in E
        BY <2>2, <2>5
      <4> QED BY <4>1
    <3> HIDE DEF Held
    <3> QED BY <3>1, <3>2, <3>3
  <2> QED BY <2>1, <2>2, <2>3, <2>4, <2>6 DEF new
<1>3. Seq(Seq(E)) \subseteq P
  <2> DEFINE F == Seq(E)
  <2>1. <<>> \in P /\ \A u \in Seq(F) : \A s \in F : u \in P => Append(u, s) \in P
    BY <1>1, <1>2
  <2> HIDE DEF P, F
  <2> QED BY <2>1, AlongLists DEF F
<1> QED BY <1>3

LEMMA FlattenTwice ==
  ASSUME NEW E, NEW sss \in Seq(Seq(Seq(E)))
  PROVE  FlattenSeq(FlattenSeq(sss)) = FlattenSeq([i \in DOMAIN sss |-> FlattenSeq(sss[i])])
<1> DEFINE Each(u) == [i \in DOMAIN u |-> FlattenSeq(u[i])]
           P == {u \in Seq(Seq(Seq(E))) : Each(u) \in Seq(Seq(E)) /\ FlattenSeq(FlattenSeq(u)) = FlattenSeq(Each(u))}
<1>1. <<>> \in P
  <2>1. Each(<<>>) = <<>> /\ <<>> \in Seq(Seq(E)) /\ <<>> \in Seq(Seq(Seq(E)))
    OBVIOUS
  <2> QED BY <2>1, FlattenNone
<1>2. ASSUME NEW u \in Seq(Seq(Seq(E))), NEW ss \in Seq(Seq(E)), u \in P PROVE Append(u, ss) \in P
  <2> DEFINE new == Append(u, ss)
             flat == FlattenSeq(ss)
             all == FlattenSeq(u)
  <2>1. FlattenSeq(new) = all \o ss /\ all \in Seq(Seq(E))
    <3> DEFINE F == Seq(E)
    <3>1. u \in Seq(Seq(F)) /\ ss \in Seq(F)
      OBVIOUS
    <3> HIDE DEF F
    <3>2. FlattenSeq(Append(u, ss)) = FlattenSeq(u) \o ss /\ FlattenSeq(u) \in Seq(F)
      BY <3>1, FlattenAppend
    <3> QED BY <3>2 DEF F
  <2>2. flat \in Seq(E)
    <3>1. <<>> \in Seq(Seq(E))
      OBVIOUS
    <3> QED BY FlattenAppend
  <2>3. Each(new) = Append(Each(u), flat)
    <3>1. /\ new \in Seq(Seq(Seq(E))) /\ Len(new) = Len(u) + 1 /\ new[Len(u) + 1] = ss
          /\ DOMAIN new = 1 .. Len(u) + 1 /\ DOMAIN u = 1 .. Len(u) /\ Len(u) \in Nat
          /\ \A i \in 1 .. Len(u) : new[i] = u[i]
      BY AppendProperties
    <3>2. Each(u) \in Seq(Seq(E)) /\ DOMAIN Each(u) = DOMAIN u
      BY <1>2
    <3> DEFINE eu == Each(u)
               item == flat
               en == Each(new)
    <3>3. Len(eu) = Len(u)
      BY <3>1, <3>2
    <3>4. /\ DOMAIN en = 1 .. Len(u) + 1 /\ en[Len(u) + 1] = item
          /\ \A i \in 1 .. Len(u) : en[i] = eu[i]
      BY <3>1
    <3> HIDE DEF eu, item, en
    <3>5. item \in Seq(E) /\ eu \in Seq(Seq(E))
      BY <2>2, <3>2 DEF item, eu
    <3> DEFINE ap == Append(eu, item)
    <3>6. /\ ap \in Seq(Seq(E)) /\ Len(ap) = Len(eu) + 1 /\ ap[Len(eu) + 1] = item
          /\ \A i \in 1 .. Len(eu) : ap[i] = eu[i]
      BY <3>5, AppendProperties
    <3> HIDE DEF ap
    <3>7. en = ap
      <4>1. DOMAIN ap = 1 .. Len(u) + 1
        BY <3>3, <3>6
      <4>2. \A i \in 1 .. Len(u) + 1 : en[i] = ap[i]
        <5> SUFFICES ASSUME NEW i \in 1 .. Len(u) + 1 PROVE en[i] = ap[i]
          OBVIOUS
        <5>1. CASE i = Len(u) + 1
          BY <3>3, <3>4, <3>6, <5>1
        <5>2. CASE i # Len(u) + 1
          <6>1. i \in 1 .. Len(u)
            BY <3>1, <5>2
          <6> QED BY <3>3, <3>4, <3>6, <6>1
        <5> QED BY <5>1, <5>2
      <4>3. en = [i \in 1 .. Len(u) + 1 |-> en[i]] /\ ap = [i \in 1 .. Len(u) + 1 |-> ap[i]]
        <5>1. en = [i \in DOMAIN en |-> en[i]]
          BY DEF en
        <5> QED BY <3>4, <3>6, <4>1, <5>1
      <4> QED BY <4>2, <4>3
    <3> QED BY <3>7 DEF en, ap, eu, item
  <2>4. FlattenSeq(all \o ss) = FlattenSeq(all) \o flat
    BY <2>1, FlattenConcat
  <2>5. FlattenSeq(Each(new)) = FlattenSeq(Each(u)) \o flat /\ Each(new) \in Seq(Seq(E))
    <3> DEFINE eu == Each(u)
               item == flat
    <3>1. eu \in Seq(Seq(E)) /\ item \in Seq(E) /\ Each(new) = Append(eu, item)
      BY <1>2, <2>2, <2>3
    <3> HIDE DEF eu, item
    <3>2. FlattenSeq(Append(eu, item)) = FlattenSeq(eu) \o item
      BY <3>1, FlattenAppend
    <3>3. Append(eu, item) \in Seq(Seq(E))
      BY <3>1
    <3> QED BY <3>1, <3>2, <3>3 DEF eu, item
  <2>6. new \in Seq(Seq(Seq(E)))
    OBVIOUS
  <2>7. FlattenSeq(FlattenSeq(u)) = FlattenSeq(Each(u))
    BY <1>2
  <2> QED BY <2>1, <2>4, <2>5, <2>6, <2>7
<1>3. Seq(Seq(Seq(E))) \subseteq P
  <2> DEFINE F == Seq(Seq(E))
  <2>1. <<>> \in P /\ \A u \in Seq(F) : \A ss \in F : u \in P => Append(u, ss) \in P
    BY <1>1, <1>2
  <2> HIDE DEF P, F
  <2> QED BY <2>1, AlongLists DEF F
<1> QED BY <1>3

-----------------------------------------------------------------------------
(* Groups of units and their chunks (DocumentChunks).                       *)

\* Units with a size each.
Sized(us, n) == \A i \in 1 .. n : us[i].size \in Nat

\* The text of a group with one more unit.
LEMMA SizeAppend ==
  ASSUME NEW us, NEW n \in Nat, Sized(us, n), NEW g \in Seq(1 .. n), NEW i \in 1 .. n
  PROVE  /\ GroupSize(us, g) \in Int /\ GroupSize(us, <<>>) = -2 /\ GroupSize(us, Append(<<>>, i)) = us[i].size
         /\ GroupSize(us, Append(g, i)) = GroupSize(us, g) + 2 + us[i].size
<1> DEFINE sizes(u) == [j \in DOMAIN u |-> us[u[j]].size]
           new == Append(g, i)
           item == us[i].size
<1>1. GroupSize(us, g) = Sum(sizes(g)) + 2 * (Len(g) - 1) /\ GroupSize(us, new) = Sum(sizes(new)) + 2 * (Len(new) - 1)
  BY DEF GroupSize
<1>2. /\ new \in Seq(1 .. n) /\ Len(new) = Len(g) + 1 /\ new[Len(g) + 1] = i /\ Len(g) \in Nat
      /\ DOMAIN new = 1 .. Len(g) + 1 /\ DOMAIN g = 1 .. Len(g) /\ \A j \in 1 .. Len(g) : new[j] = g[j]
  BY AppendProperties
<1>3. item \in Nat /\ \A j \in 1 .. Len(g) : us[g[j]].size \in Nat
  BY <1>2 DEF Sized
<1>4. sizes(g) \in Seq(Nat) /\ Len(sizes(g)) = Len(g)
  <2> DEFINE old == sizes(g)
  <2>1. old \in [1 .. Len(g) -> Nat]
    BY <1>2, <1>3
  <2> HIDE DEF old
  <2>2. old \in Seq(Nat) /\ Len(old) = Len(g)
    BY <1>2, <2>1
  <2> QED BY <2>2 DEF old
<1>5. sizes(new) = Append(sizes(g), item)
  <2> DEFINE old == sizes(g)
             both == sizes(new)
             ap == Append(old, item)
  <2>1. DOMAIN both = 1 .. Len(g) + 1 /\ both[Len(g) + 1] = item /\ \A j \in 1 .. Len(g) : both[j] = old[j]
    BY <1>2
  <2>2. both = [j \in DOMAIN both |-> both[j]]
    OBVIOUS
  <2> HIDE DEF old, both, item
  <2>3. /\ Len(ap) = Len(g) + 1 /\ ap[Len(g) + 1] = item /\ ap \in Seq(Nat)
        /\ \A j \in 1 .. Len(g) : ap[j] = old[j]
    BY <1>3, <1>4, AppendProperties DEF old
  <2> HIDE DEF ap
  <2>4. ap = [j \in 1 .. Len(g) + 1 |-> ap[j]]
    BY <2>3
  <2>5. ASSUME NEW j \in 1 .. Len(g) + 1 PROVE both[j] = ap[j]
    <3>1. CASE j = Len(g) + 1
      BY <2>1, <2>3, <3>1
    <3>2. CASE j # Len(g) + 1
      <4>1. j \in 1 .. Len(g)
        BY <1>2, <3>2
      <4> QED BY <2>1, <2>3, <4>1
    <3> QED BY <3>1, <3>2
  <2>6. both = ap
    BY <2>1, <2>2, <2>4, <2>5
  <2> QED BY <2>6 DEF both, ap, old
<1>6. Sum(sizes(new)) = Sum(sizes(g)) + item /\ Sum(sizes(g)) \in Nat
  <2> DEFINE old == sizes(g)
  <2>1. old \in Seq(Nat) /\ item \in Nat /\ sizes(new) = Append(old, item)
    BY <1>3, <1>4, <1>5
  <2> HIDE DEF old, item
  <2>2. Sum(Append(old, item)) = Sum(old) + item /\ Sum(old) \in Nat
    BY <2>1, SumAppend
  <2> QED BY <2>1, <2>2 DEF old
<1>7. GroupSize(us, <<>>) = -2 /\ GroupSize(us, Append(<<>>, i)) = us[i].size
  <2> DEFINE one == Append(<<>>, i)
             only == sizes(one)
             none == sizes(<<>>)
  <2>1. none = <<>> /\ Len(<<>>) = 0
    OBVIOUS
  <2>2. GroupSize(us, <<>>) = Sum(none) + 2 * (Len(<<>>) - 1) /\ GroupSize(us, one) = Sum(only) + 2 * (Len(one) - 1)
    BY DEF GroupSize
  <2>3. one = <<i>> /\ Len(one) = 1
    OBVIOUS
  <2>4. only = Append(<<>>, item)
    BY <2>3
  <2> HIDE DEF only, none, one, item
  <2>5. <<>> \in Seq(Nat)
    OBVIOUS
  <2>6. Sum(Append(<<>>, item)) = Sum(<<>>) + item
    BY <1>3, <2>5, SumAppend
  <2> QED BY <1>3, <2>1, <2>2, <2>3, <2>4, <2>6, SumOfNone DEF one, item
<1> HIDE DEF sizes, new, item
<1>8. GroupSize(us, g) \in Int /\ GroupSize(us, new) = GroupSize(us, g) + 2 + item
  BY <1>1, <1>2, <1>3, <1>6
<1> QED BY <1>7, <1>8 DEF new, item

\* The groups after each unit.
Grouping(s, base, us, d) == FoldLeft(LAMBDA gs, i : AddToGroups(us, d, gs, i), base, s)
GroupingIn(A, L, s, base, us, d) ==
    base \in A /\ L \in Nat /\ DOMAIN s = 1 .. L /\ \A a \in A : \A k \in 1 .. L : AddToGroups(us, d, a, s[k]) \in A
GroupingRuns(A, L, s, base, us, d) ==
    \E g \in [0 .. L -> A] : g[0] = base /\ Grouping(s, base, us, d) = g[L] /\ \A k \in 1 .. L : g[k] = AddToGroups(us, d, g[k - 1], s[k])

LEMMA GroupingTrace ==
  ASSUME NEW A, NEW base, NEW L, NEW s, NEW us, NEW d, GroupingIn(A, L, s, base, us, d)
  PROVE  GroupingRuns(A, L, s, base, us, d)
<1> DEFINE H == [p \in A \X (1 .. L) |-> AddToGroups(us, d, p[1], s[p[2]])]
           F(it) == [x \in SUBSET (1 .. L) |-> IF x = {} THEN base ELSE AddToGroups(us, d, it[x \ {Max(x)}], s[Max(x)])]
           f == CHOOSE it : it = F(it)
<1>0. base \in A /\ L \in Nat /\ DOMAIN s = 1 .. L
  BY DEF GroupingIn
<1>1. H \in [A \X (1 .. L) -> A]
  BY <1>0 DEF GroupingIn
<1>2. \A a \in A : \A k \in 1 .. L : H[<<a, k>>] = AddToGroups(us, d, a, s[k])
  OBVIOUS
<1>3. \A x \in SUBSET (1 .. L) : x # {} => Max(x) \in 1 .. L /\ x \ {Max(x)} \in SUBSET (1 .. L)
  BY <1>0, PlacesMax
<1>4. \E it : it = F(it)
  <2>1. PICK it \in [SUBSET (1 .. L) -> A] : FoldsSets(it, base, L, H)
    <3> HIDE DEF H
    <3> QED BY <1>0, <1>1, Recursion
  <2>2. it[{}] = base /\ \A x \in SUBSET (1 .. L) : x # {} => it[x] = H[<<it[x \ {Max(x)}], Max(x)>>]
    <3> HIDE DEF H
    <3> QED BY <2>1 DEF FoldsSets
  <2>3. ASSUME NEW x \in SUBSET (1 .. L), x # {} PROVE it[x] = AddToGroups(us, d, it[x \ {Max(x)}], s[Max(x)])
    <3> HIDE DEF H
    <3> QED BY <1>2, <1>3, <2>2, <2>3
  <2>4. it = F(it)
    <3> HIDE DEF H
    <3> QED BY <2>2, <2>3
  <2> QED BY <2>4
<1>5. f = F(f)
  <2> HIDE DEF F, H
  <2> QED BY <1>4
<1>6. Grouping(s, base, us, d) = f[1 .. L]
  BY <1>0 DEF Grouping, FoldLeft, MapThenFoldSet
<1>7. f[{}] = base /\ \A x \in SUBSET (1 .. L) : x # {} => f[x] = AddToGroups(us, d, f[x \ {Max(x)}], s[Max(x)])
  <2> HIDE DEF f, H
  <2> QED BY <1>5
<1> HIDE DEF f, F, H
<1>8. FoldsFrom(f, A, L, H)
  BY <1>2, <1>3, <1>7 DEF FoldsFrom
<1>9. f[{}] = base
  BY <1>7
<1>10. Unfolds(f, A, base, L, H)
  BY <1>0, <1>1, <1>8, <1>9 DEF Unfolds
<1>11. PICK g \in [0 .. L -> A] : Follows(g, base, L, H) /\ f[1 .. L] = g[L]
  BY <1>10, Unfolding DEF Unfolded
<1>12. \A k \in 1 .. L : g[k] = AddToGroups(us, d, g[k - 1], s[k])
  <2> SUFFICES ASSUME NEW k \in 1 .. L PROVE g[k] = AddToGroups(us, d, g[k - 1], s[k])
    OBVIOUS
  <2>1. g[k - 1] \in A /\ g[k] = H[<<g[k - 1], k>>]
    BY <1>0, <1>11 DEF Follows
  <2> QED BY <2>1, <1>2
<1> QED BY <1>6, <1>11, <1>12 DEF Follows, GroupingRuns

UpTo(k) == [i \in 1 .. k |-> i]

LEMMA UpToNext ==
  ASSUME NEW k \in Nat, k # 0
  PROVE  UpTo(k) = Append(UpTo(k - 1), k) /\ UpTo(k) \in Seq(Nat) /\ UpTo(k - 1) \in Seq(Nat) /\ Len(UpTo(k)) = k
<1>1. UpTo(k) \in Seq(Nat) /\ Len(UpTo(k)) = k /\ UpTo(k - 1) \in Seq(Nat) /\ Len(UpTo(k - 1)) = k - 1
  BY DEF UpTo
<1> DEFINE a == UpTo(k - 1)
           b == UpTo(k)
           ap == Append(a, k)
<1>2. /\ (\A i \in 1 .. k : b[i] = i) /\ (\A i \in 1 .. k - 1 : a[i] = i)
  BY DEF UpTo
<1> HIDE DEF a, b
<1>3. ap \in Seq(Nat) /\ Len(ap) = k /\ ap[k] = k /\ \A i \in 1 .. k - 1 : ap[i] = a[i]
  BY <1>1, AppendProperties DEF a
<1> HIDE DEF ap
<1>4. Len(b) = Len(ap) /\ \A i \in 1 .. Len(b) : b[i] = ap[i]
  <2>1. Len(b) = k
    BY <1>1 DEF b
  <2>2. ASSUME NEW i \in 1 .. k PROVE b[i] = ap[i]
    <3>1. CASE i = k
      BY <1>2, <1>3, <3>1
    <3>2. CASE i # k
      <4>1. i \in 1 .. k - 1
        BY <3>2
      <4> QED BY <1>2, <1>3, <4>1
    <3> QED BY <3>1, <3>2
  <2> QED BY <1>3, <2>1, <2>2
<1>5. b = ap
  BY <1>1, <1>3, <1>4, SeqEqual DEF b
<1> QED BY <1>1, <1>5 DEF a, b, ap

\* A group in which a list or a table stands alone.
Group(us, n) == {g \in Seq(1 .. n) : g # <<>> /\ (HasStructural(us, g) => Len(g) = 1)}

GroupsUpTo(us, n, gs, k) ==
    /\ gs \in Seq(Group(us, n)) /\ FlattenSeq(gs) = UpTo(k)
    /\ gs = <<>> <=> k = 0
    /\ k # 0 => gs[Len(gs)][Len(gs[Len(gs)])] = k

LEMMA GroupAdded ==
  ASSUME NEW us, NEW d, NEW n \in Nat, NEW k \in 1 .. n, NEW gs, GroupsUpTo(us, n, gs, k - 1)
  PROVE  GroupsUpTo(us, n, AddToGroups(us, d, gs, k), k)
<1> DEFINE new == AddToGroups(us, d, gs, k)
           G == Group(us, n)
<1>1. gs \in Seq(G) /\ gs \in Seq(Seq(1 .. n)) /\ FlattenSeq(gs) = UpTo(k - 1) /\ Len(gs) \in Nat
  <2>1. gs \in Seq(G) /\ G \subseteq Seq(1 .. n)
    BY DEF GroupsUpTo, Group
  <2> HIDE DEF G
  <2> QED BY <2>1, SeqMonotonic DEF GroupsUpTo
<1>2. UpTo(k) = Append(UpTo(k - 1), k) /\ UpTo(k - 1) \in Seq(Nat)
  <2>1. k \in Nat /\ k # 0
    OBVIOUS
  <2> QED BY <2>1, UpToNext
<1>3. CASE gs = <<>> \/ Boundary(us, d, k - 1)
  <2> DEFINE one == <<k>>
  <2>1. new = Append(gs, one)
    BY <1>3 DEF AddToGroups
  <2>2. one \in Seq(1 .. n) /\ one \in G /\ Len(one) = 1 /\ one[1] = k
    BY DEF Group
  <2>3. UpTo(k) = UpTo(k - 1) \o one
    BY <1>2, AppendIsConcat
  <2> HIDE DEF new, one, G
  <2>4. FlattenSeq(new) = UpTo(k)
    BY <1>1, <2>1, <2>2, <2>3, FlattenAppend
  <2>5. new \in Seq(G) /\ Len(new) = Len(gs) + 1 /\ new[Len(gs) + 1] = one /\ new # <<>>
    BY <1>1, <2>1, <2>2, AppendProperties
  <2>6. new[Len(new)] = one /\ one[Len(one)] = k /\ k # 0
    BY <2>2, <2>5
  <2> QED BY <2>4, <2>5, <2>6 DEF GroupsUpTo, new, G
<1>4. CASE gs # <<>> /\ ~Boundary(us, d, k - 1)
  <2> DEFINE m == Len(gs)
             last == gs[m]
             longer == Append(last, k)
  <2>1. new = [gs EXCEPT ![m] = Append(@, k)]
    BY <1>4 DEF AddToGroups
  <2>2. FlattenSeq(new) = Append(UpTo(k - 1), k)
    <3> HIDE DEF new, m, G
    <3> QED BY <1>1, <1>4, <2>1, FlattenLast DEF m
  <2>3. m \in 1 .. Len(gs) /\ last \in G /\ last \in Seq(1 .. n)
    <3> HIDE DEF G
    <3>1. m \in 1 .. Len(gs)
      BY <1>1, <1>4
    <3>2. last \in G
      BY <1>1, <3>1
    <3> QED BY <3>1, <3>2 DEF G, Group
  <2>4. k - 1 # 0 /\ last[Len(last)] = k - 1
    BY <1>4 DEF GroupsUpTo
  <2>5. ~Structural(us[k - 1]) /\ ~Structural(us[k])
    <3>1. k - 1 + 1 = k
      OBVIOUS
    <3> QED BY <1>4, <3>1 DEF Boundary
  <2>6. /\ longer \in Seq(1 .. n) /\ longer # <<>> /\ Len(longer) = Len(last) + 1 /\ longer[Len(longer)] = k
        /\ DOMAIN longer = 1 .. Len(last) + 1 /\ longer[Len(last) + 1] = k /\ \A i \in 1 .. Len(last) : longer[i] = last[i]
    <3> HIDE DEF last
    <3> QED BY <2>3, AppendProperties
  <2>7. ~HasStructural(us, last)
    <3> SUFFICES ASSUME HasStructural(us, last) PROVE FALSE
      OBVIOUS
    <3>1. Len(last) = 1
      BY <2>3 DEF Group
    <3>2. DOMAIN last = {1}
      BY <2>3, <3>1
    <3>3. ToSet(last) = {k - 1}
      BY <2>4, <3>1, <3>2 DEF ToSet
    <3> QED BY <2>5, <3>3 DEF HasStructural
  <2>8. ~HasStructural(us, longer)
    <3> SUFFICES ASSUME NEW i \in DOMAIN longer, Structural(us[longer[i]]) PROVE FALSE
      BY DEF HasStructural, ToSet
    <3> HIDE DEF longer, last
    <3>1. CASE i = Len(last) + 1
      BY <2>5, <2>6, <3>1
    <3>2. CASE i # Len(last) + 1
      <4>1. i \in 1 .. Len(last) /\ longer[i] = last[i] /\ i \in DOMAIN last
        BY <2>3, <2>6, <3>2
      <4> QED BY <2>7, <4>1 DEF HasStructural, ToSet
    <3> QED BY <3>1, <3>2
  <2>9. longer \in G
    BY <2>6, <2>8 DEF Group
  <2>10. new = [gs EXCEPT ![m] = longer]
    BY <2>1, <2>3
  <2> HIDE DEF new, longer, G
  <2>11. new \in Seq(G) /\ Len(new) = m /\ new[m] = longer
    BY <1>1, <2>3, <2>9, <2>10, ExceptSeq
  <2>12. new # <<>> /\ m # 0
    BY <1>1, <1>4, <2>11
  <2> QED BY <1>2, <2>2, <2>6, <2>11, <2>12 DEF GroupsUpTo, new, G
<1> QED BY <1>3, <1>4

\* The groups hold the units in their order.
LEMMA GroupsMade ==
  ASSUME NEW us, NEW d, NEW n \in Nat, DOMAIN us = 1 .. n
  PROVE  GroupsUpTo(us, n, NaturalGroups(us, d), n)
<1> DEFINE s == UpTo(n)
           A == Seq(Seq(1 .. n))
           base == <<>>
<1>1. NaturalGroups(us, d) = Grouping(s, base, us, d)
  BY DEF NaturalGroups, Grouping, UpTo
<1>2. DOMAIN s = 1 .. n /\ (\A k \in 1 .. n : s[k] = k) /\ base \in A
  BY DEF UpTo
<1>3. GroupingIn(A, n, s, base, us, d)
  <2> SUFFICES ASSUME NEW a \in A, NEW k \in 1 .. n PROVE AddToGroups(us, d, a, k) \in A
    BY <1>2 DEF GroupingIn
  <2>1. CASE a = <<>> \/ Boundary(us, d, k - 1)
    <3>1. AddToGroups(us, d, a, k) = Append(a, <<k>>)
      BY <2>1 DEF AddToGroups
    <3>2. <<k>> \in Seq(1 .. n)
      OBVIOUS
    <3> QED BY <3>1, <3>2
  <2>2. CASE ~(a = <<>> \/ Boundary(us, d, k - 1))
    <3>1. AddToGroups(us, d, a, k) = [a EXCEPT ![Len(a)] = Append(@, k)]
      BY <2>2 DEF AddToGroups
    <3>2. [a EXCEPT ![Len(a)] = Append(@, k)] \in Seq(Seq(1 .. n))
      BY <2>2, FlattenLast
    <3> QED BY <3>1, <3>2
  <2> QED BY <2>1, <2>2
<1> HIDE DEF s, A, base
<1>4. PICK g \in [0 .. n -> A] : /\ g[0] = base /\ Grouping(s, base, us, d) = g[n]
                                 /\ \A k \in 1 .. n : g[k] = AddToGroups(us, d, g[k - 1], s[k])
  <2>1. GroupingRuns(A, n, s, base, us, d)
    BY <1>3, GroupingTrace
  <2> QED BY <2>1 DEF GroupingRuns
<1> DEFINE T == {k \in 0 .. n : GroupsUpTo(us, n, g[k], k)}
<1>5. 0 \in T
  <2>1. base \in Seq(Group(us, n)) /\ FlattenSeq(base) = UpTo(0)
    BY FlattenNone DEF base, UpTo
  <2>2. base = <<>>
    BY DEF base
  <2>3. GroupsUpTo(us, n, base, 0)
    BY <2>1, <2>2 DEF GroupsUpTo
  <2>4. 0 \in 0 .. n /\ g[0] = base
    BY <1>4
  <2> QED BY <2>3, <2>4
<1>6. ASSUME NEW k \in 1 .. n, k - 1 \in T PROVE k \in T
  <2>1. GroupsUpTo(us, n, g[k - 1], k - 1) /\ g[k] = AddToGroups(us, d, g[k - 1], k)
    BY <1>2, <1>4, <1>6
  <2> DEFINE h == g[k - 1]
  <2> HIDE DEF h
  <2>2. GroupsUpTo(us, n, AddToGroups(us, d, h, k), k)
    BY <2>1, GroupAdded DEF h
  <2> QED BY <2>1, <2>2 DEF h
<1>7. n \in T
  <2>1. 0 .. n \subseteq T
    <3> HIDE DEF T
    <3> QED BY <1>5, <1>6, Induct
  <2> QED BY <2>1
<1> QED BY <1>1, <1>4, <1>7

\* Two neighbouring groups joined.
LEMMA GroupsMerged ==
  ASSUME NEW us, NEW d, NEW n \in Nat, NEW gs \in Seq(Group(us, n)), NEW i \in 1 .. Len(gs), Mergeable(us, gs, d, i)
  PROVE  /\ Merged(gs, i, Target(gs, d, i)) \in Seq(Group(us, n))
         /\ FlattenSeq(Merged(gs, i, Target(gs, d, i))) = FlattenSeq(gs)
         /\ Len(Merged(gs, i, Target(gs, d, i))) \in Nat \ {0}
<1> DEFINE t == Target(gs, d, i)
           a == IF i < t THEN i ELSE t
           G == Group(us, n)
           before == SubSeq(gs, 1, a - 1)
           after == SubSeq(gs, a + 2, Len(gs))
           both == gs[a] \o gs[a + 1]
<1>1. /\ t \in {i - 1, i + 1} /\ t \in 1 .. Len(gs) /\ ~HasStructural(us, gs[i]) /\ ~HasStructural(us, gs[t])
      /\ Len(gs) \in Nat
  BY DEF Mergeable, Target
<1>2. /\ a \in 1 .. Len(gs) /\ a + 1 \in 1 .. Len(gs) /\ a \in Nat
      /\ ~HasStructural(us, gs[a]) /\ ~HasStructural(us, gs[a + 1])
  <2>1. CASE i < t
    BY <1>1, <2>1
  <2>2. CASE ~(i < t)
    BY <1>1, <2>2
  <2> QED BY <2>1, <2>2
<1>3. Merged(gs, i, t) = before \o <<both>> \o after
  BY DEF Merged, Join
<1> HIDE DEF t, a
<1>4. before \in Seq(G) /\ after \in Seq(G) /\ gs[a] \in G /\ gs[a + 1] \in G
  <2> HIDE DEF G
  <2>1. a - 1 \in Int /\ a + 2 \in Int /\ Len(gs) \in Int /\ 1 \in Int
    BY <1>1, <1>2
  <2>2. (\A k \in 1 .. a - 1 : gs[k] \in G) /\ \A k \in a + 2 .. Len(gs) : gs[k] \in G
    BY <1>1, <1>2 DEF G
  <2>3. before \in Seq(G)
    BY <2>1, <2>2, SubSeqProperties
  <2>4. after \in Seq(G)
    BY <2>1, <2>2, SubSeqProperties
  <2> QED BY <1>2, <2>3, <2>4 DEF G
<1>5. both \in G
  <2> DEFINE p == gs[a]
             q == gs[a + 1]
  <2>1. p \in Seq(1 .. n) /\ q \in Seq(1 .. n) /\ p # <<>> /\ q # <<>>
    BY <1>4 DEF Group
  <2>2. ~HasStructural(us, p) /\ ~HasStructural(us, q)
    BY <1>2
  <2> HIDE DEF p, q
  <2> DEFINE pq == p \o q
  <2>3. /\ pq \in Seq(1 .. n) /\ Len(pq) = Len(p) + Len(q)
        /\ \A k \in 1 .. Len(p) + Len(q) : pq[k] = IF k <= Len(p) THEN p[k] ELSE q[k - Len(p)]
    BY <2>1, ConcatProperties
  <2>4. Len(p) \in Nat /\ Len(q) \in Nat /\ DOMAIN p = 1 .. Len(p) /\ DOMAIN q = 1 .. Len(q) /\ Len(p) # 0
    BY <2>1
  <2> HIDE DEF pq
  <2>5. pq # <<>> /\ DOMAIN pq = 1 .. Len(p) + Len(q)
    BY <2>3, <2>4
  <2>6. ~HasStructural(us, pq)
    <3> SUFFICES ASSUME NEW k \in DOMAIN pq, Structural(us[pq[k]]) PROVE FALSE
      BY DEF HasStructural, ToSet
    <3>1. CASE k <= Len(p)
      <4>1. k \in DOMAIN p /\ pq[k] = p[k]
        BY <2>3, <2>4, <2>5, <3>1
      <4> QED BY <2>2, <4>1 DEF HasStructural, ToSet
    <3>2. CASE ~(k <= Len(p))
      <4>1. k - Len(p) \in DOMAIN q /\ pq[k] = q[k - Len(p)]
        BY <2>3, <2>4, <2>5, <3>2
      <4> QED BY <2>2, <4>1 DEF HasStructural, ToSet
    <3> QED BY <3>1, <3>2
  <2>7. pq \in G
    BY <2>3, <2>5, <2>6 DEF Group
  <2> QED BY <2>7 DEF pq, p, q
<1>6. before \o <<both>> \o after \in Seq(G) /\ Len(before \o <<both>> \o after) \in Nat \ {0}
  <2> DEFINE one == <<both>>
  <2>1. one \in Seq(G) /\ Len(one) = 1
    BY <1>5
  <2> HIDE DEF one, G, before, after
  <2>2. before \o one \in Seq(G) /\ Len(before \o one) = Len(before) + 1
    <3>1. before \in Seq(G) /\ one \in Seq(G)
      BY <1>4, <2>1
    <3>2. before \o one \in Seq(G) /\ Len(before \o one) = Len(before) + Len(one)
      BY <3>1, ConcatProperties
    <3> QED BY <2>1, <3>2
  <2> DEFINE first == before \o one
  <2> HIDE DEF first
  <2>3. first \o after \in Seq(G) /\ Len(first \o after) = Len(first) + Len(after)
    BY <1>4, <2>2, ConcatProperties DEF first
  <2>4. Len(before) \in Nat /\ Len(after) \in Nat /\ Len(first) = Len(before) + 1
    BY <1>4, <2>2 DEF first
  <2>5. Len(first \o after) \in Nat \ {0}
    BY <2>3, <2>4
  <2> QED BY <2>3, <2>5 DEF first, one
<1>7. FlattenSeq(before \o <<both>> \o after) = FlattenSeq(gs)
  <2> DEFINE S == Seq(1 .. n)
             E == 1 .. n
             p == gs[a]
             q == gs[a + 1]
             one == <<both>>
             two == <<p, q>>
             fb == FlattenSeq(before)
             fa == FlattenSeq(after)
  <2>1. G \subseteq S
    BY DEF Group
  <2>2. before \in Seq(S) /\ after \in Seq(S) /\ p \in S /\ q \in S /\ both \in S
    <3> HIDE DEF G, S, before, after, both
    <3> QED BY <1>4, <1>5, <2>1, SeqMonotonic
  <2>3. one \in Seq(S) /\ two \in Seq(S)
    BY <2>2
  <2>4. FlattenSeq(one) = both
    <3> HIDE DEF E, both
    <3> QED BY <2>2, FlattenOne DEF E
  <2>5. FlattenSeq(two) = both
    <3> DEFINE o == <<p>>
    <3>1. o \in Seq(S) /\ two = Append(o, q)
      BY <2>2
    <3> HIDE DEF o, two
    <3>2. FlattenSeq(Append(o, q)) = FlattenSeq(o) \o q
      BY <2>2, <3>1, FlattenAppend DEF S
    <3>3. FlattenSeq(o) = p
      <4> HIDE DEF E, p, S
      <4> QED BY <2>2, FlattenOne DEF E, o, S
    <3> QED BY <3>1, <3>2, <3>3
  <2>6. gs = before \o two \o after
    <3> DEFINE whole == before \o two \o after
    <3>1. Len(before) = a - 1 /\ \A k \in 1 .. a - 1 : before[k] = gs[k]
      <4>1. a - 1 \in 0 .. Len(gs)
        BY <1>1, <1>2
      <4> QED BY <1>2, <4>1
    <3>2. Len(after) = Len(gs) - (a + 1) /\ \A k \in 1 .. Len(gs) - (a + 1) : after[k] = gs[a + 1 + k]
      <4> DEFINE x == a + 2
                 y == Len(gs)
      <4>1. x \in Int /\ y \in Int /\ \A k \in x .. y : gs[k] \in G
        BY <1>1, <1>2
      <4>2. y - x + 1 = Len(gs) - (a + 1) /\ x <= y + 1
        BY <1>1, <1>2
      <4> HIDE DEF x, y, G
      <4>3. /\ Len(SubSeq(gs, x, y)) = (IF x <= y THEN y - x + 1 ELSE 0)
            /\ \A k \in 1 .. y - x + 1 : SubSeq(gs, x, y)[k] = gs[x + k - 1]
        BY <4>1, SubSeqProperties
      <4>4. Len(SubSeq(gs, x, y)) = y - x + 1
        BY <4>1, <4>2, <4>3
      <4>5. \A k \in 1 .. y - x + 1 : x + k - 1 = a + 1 + k
        BY <1>2, <4>1 DEF x
      <4> QED BY <4>2, <4>3, <4>4, <4>5 DEF x, y
    <3>3. Len(two) = 2 /\ two[1] = gs[a] /\ two[2] = gs[a + 1]
      OBVIOUS
    <3> DEFINE first == before \o two
    <3> HIDE DEF before, after, two, S, G
    <3>4. /\ first \in Seq(S) /\ Len(first) = a + 1
          /\ \A k \in 1 .. a + 1 : first[k] = IF k <= a - 1 THEN before[k] ELSE two[k - (a - 1)]
      <4>1. /\ first \in Seq(S) /\ Len(first) = Len(before) + Len(two)
            /\ \A k \in 1 .. Len(before) + Len(two) : first[k] = IF k <= Len(before) THEN before[k] ELSE two[k - Len(before)]
        BY <2>2, <2>3, ConcatProperties
      <4>2. Len(before) + Len(two) = a + 1
        BY <1>2, <3>1, <3>3
      <4> HIDE DEF first
      <4> QED BY <3>1, <4>1, <4>2
    <3>5. ASSUME NEW k \in 1 .. a + 1 PROVE first[k] = gs[k]
      <4>1. CASE k <= a - 1
        BY <1>2, <3>1, <3>4, <4>1
      <4>2. CASE k = a
        <5>1. ~(k <= a - 1) /\ k - (a - 1) = 1
          BY <1>2, <4>2
        <5> QED BY <3>3, <3>4, <4>2, <5>1
      <4>3. CASE k = a + 1
        <5>1. ~(k <= a - 1) /\ k - (a - 1) = 2
          BY <1>2, <4>3
        <5> QED BY <3>3, <3>4, <4>3, <5>1
      <4>4. k <= a - 1 \/ k = a \/ k = a + 1
        BY <1>2
      <4> QED BY <4>1, <4>2, <4>3, <4>4
    <3> HIDE DEF first
    <3> DEFINE w == first \o after
    <3>6. /\ w \in Seq(S) /\ Len(w) = Len(first) + Len(after)
          /\ \A k \in 1 .. Len(first) + Len(after) : w[k] = IF k <= Len(first) THEN first[k] ELSE after[k - Len(first)]
      BY <2>2, <3>4, ConcatProperties
    <3> HIDE DEF w
    <3>7. Len(w) = Len(gs) /\ \A k \in 1 .. Len(gs) : w[k] = gs[k]
      <4>1. Len(w) = Len(gs)
        BY <1>1, <1>2, <3>2, <3>4, <3>6
      <4>2. ASSUME NEW k \in 1 .. Len(gs) PROVE w[k] = gs[k]
        <5>1. CASE k <= a + 1
          <6>1. k \in 1 .. a + 1 /\ k \in 1 .. Len(first) + Len(after) /\ k <= Len(first)
            BY <1>1, <1>2, <3>2, <3>4, <5>1
          <6> QED BY <3>5, <3>6, <6>1
        <5>2. CASE ~(k <= a + 1)
          <6>1. k \in 1 .. Len(first) + Len(after) /\ ~(k <= Len(first)) /\ k - Len(first) = k - (a + 1)
            BY <1>1, <1>2, <3>2, <3>4, <5>2
          <6>2. k - (a + 1) \in 1 .. Len(gs) - (a + 1) /\ a + 1 + (k - (a + 1)) = k
            BY <1>1, <1>2, <5>2
          <6>3. after[k - (a + 1)] = gs[k]
            BY <3>2, <6>2
          <6> QED BY <3>6, <6>1, <6>3
        <5> QED BY <5>1, <5>2
      <4> QED BY <4>1, <4>2
    <3>8. gs \in Seq(S)
      BY <2>1, SeqMonotonic DEF G
    <3> QED BY <3>6, <3>7, <3>8, SeqEqual DEF w, first
  <2> HIDE DEF before, after, both, one, two, p, q
  <2>7. FlattenSeq(before \o one) = fb \o both /\ FlattenSeq(before \o two) = fb \o both
    BY <2>2, <2>3, <2>4, <2>5, FlattenConcat DEF S
  <2>8. before \o one \in Seq(S) /\ before \o two \in Seq(S)
    BY <2>2, <2>3, ConcatProperties
  <2> DEFINE x == before \o one
             y == before \o two
  <2> HIDE DEF x, y
  <2>9. FlattenSeq(x \o after) = FlattenSeq(x) \o fa /\ FlattenSeq(y \o after) = FlattenSeq(y) \o fa
    BY <2>2, <2>8, FlattenConcat DEF S, x, y
  <2> QED BY <2>6, <2>7, <2>9 DEF x, y, one
<1> QED BY <1>3, <1>6, <1>7 DEF t, G

\* The chunks of a group after each of its units.
Packing(s, base, us) == FoldLeft(LAMBDA acc, i : Pack(us, acc, i), base, s)
PackingIn(A, L, s, base, us) ==
    base \in A /\ L \in Nat /\ DOMAIN s = 1 .. L /\ \A a \in A : \A k \in 1 .. L : Pack(us, a, s[k]) \in A
PackingRuns(A, L, s, base, us) ==
    \E g \in [0 .. L -> A] : g[0] = base /\ Packing(s, base, us) = g[L] /\ \A k \in 1 .. L : g[k] = Pack(us, g[k - 1], s[k])

LEMMA PackingTrace ==
  ASSUME NEW A, NEW base, NEW L, NEW s, NEW us, PackingIn(A, L, s, base, us)
  PROVE  PackingRuns(A, L, s, base, us)
<1> DEFINE H == [p \in A \X (1 .. L) |-> Pack(us, p[1], s[p[2]])]
           F(it) == [x \in SUBSET (1 .. L) |-> IF x = {} THEN base ELSE Pack(us, it[x \ {Max(x)}], s[Max(x)])]
           f == CHOOSE it : it = F(it)
<1>0. base \in A /\ L \in Nat /\ DOMAIN s = 1 .. L
  BY DEF PackingIn
<1>1. H \in [A \X (1 .. L) -> A]
  BY <1>0 DEF PackingIn
<1>2. \A a \in A : \A k \in 1 .. L : H[<<a, k>>] = Pack(us, a, s[k])
  OBVIOUS
<1>3. \A x \in SUBSET (1 .. L) : x # {} => Max(x) \in 1 .. L /\ x \ {Max(x)} \in SUBSET (1 .. L)
  BY <1>0, PlacesMax
<1>4. \E it : it = F(it)
  <2>1. PICK it \in [SUBSET (1 .. L) -> A] : FoldsSets(it, base, L, H)
    <3> HIDE DEF H
    <3> QED BY <1>0, <1>1, Recursion
  <2>2. it[{}] = base /\ \A x \in SUBSET (1 .. L) : x # {} => it[x] = H[<<it[x \ {Max(x)}], Max(x)>>]
    <3> HIDE DEF H
    <3> QED BY <2>1 DEF FoldsSets
  <2>3. ASSUME NEW x \in SUBSET (1 .. L), x # {} PROVE it[x] = Pack(us, it[x \ {Max(x)}], s[Max(x)])
    <3> HIDE DEF H
    <3> QED BY <1>2, <1>3, <2>2, <2>3
  <2>4. it = F(it)
    <3> HIDE DEF H
    <3> QED BY <2>2, <2>3
  <2> QED BY <2>4
<1>5. f = F(f)
  <2> HIDE DEF F, H
  <2> QED BY <1>4
<1>6. Packing(s, base, us) = f[1 .. L]
  BY <1>0 DEF Packing, FoldLeft, MapThenFoldSet
<1>7. f[{}] = base /\ \A x \in SUBSET (1 .. L) : x # {} => f[x] = Pack(us, f[x \ {Max(x)}], s[Max(x)])
  <2> HIDE DEF f, H
  <2> QED BY <1>5
<1> HIDE DEF f, F, H
<1>8. FoldsFrom(f, A, L, H)
  BY <1>2, <1>3, <1>7 DEF FoldsFrom
<1>9. f[{}] = base
  BY <1>7
<1>10. Unfolds(f, A, base, L, H)
  BY <1>0, <1>1, <1>8, <1>9 DEF Unfolds
<1>11. PICK g \in [0 .. L -> A] : Follows(g, base, L, H) /\ f[1 .. L] = g[L]
  BY <1>10, Unfolding DEF Unfolded
<1>12. \A k \in 1 .. L : g[k] = Pack(us, g[k - 1], s[k])
  <2> SUFFICES ASSUME NEW k \in 1 .. L PROVE g[k] = Pack(us, g[k - 1], s[k])
    OBVIOUS
  <2>1. g[k - 1] \in A /\ g[k] = H[<<g[k - 1], k>>]
    BY <1>0, <1>11 DEF Follows
  <2> QED BY <2>1, <1>2
<1> QED BY <1>6, <1>11, <1>12 DEF Follows, PackingRuns

\* A chunk of the first k units of the group g.
Packs(us, n, g, k) ==
    {c \in Seq(1 .. n) : GroupSize(us, c) <= MaxChunk /\ Len(c) <= k /\ ToSet(c) \subseteq ToSet(g)}

PackedUpTo(us, n, g, acc, k) ==
    acc \in Seq(Packs(us, n, g, k)) /\ acc # <<>> /\ FlattenSeq(acc) = SubSeq(g, 1, k)

LEMMA UnitPacked ==
  ASSUME NEW us, NEW n \in Nat, Sized(us, n), \A i \in 1 .. n : us[i].size <= MaxChunk, MaxChunk \in Nat,
         NEW g \in Seq(1 .. n), NEW k \in 1 .. Len(g), NEW acc, PackedUpTo(us, n, g, acc, k - 1)
  PROVE  PackedUpTo(us, n, g, Pack(us, acc, g[k]), k)
<1> DEFINE E == 1 .. n
           C == Packs(us, n, g, k)
           x == g[k]
           m == Len(acc)
           last == acc[m]
           new == Pack(us, acc, x)
           one == <<x>>
<1>1. acc \in Seq(C) /\ acc \in Seq(Seq(E)) /\ acc # <<>> /\ m \in 1 .. Len(acc) /\ Len(acc) \in Nat
  <2> DEFINE D == Packs(us, n, g, k - 1)
  <2>1. D \subseteq C /\ D \subseteq Seq(E)
    BY DEF Packs
  <2>2. acc \in Seq(D) /\ acc # <<>>
    BY DEF PackedUpTo
  <2> HIDE DEF C, D, E
  <2>3. acc \in Seq(C) /\ acc \in Seq(Seq(E))
    BY <2>1, <2>2, SeqMonotonic
  <2> QED BY <2>2, <2>3
<1>2. x \in E /\ x \in ToSet(g) /\ us[x].size \in Nat /\ us[x].size <= MaxChunk
  BY DEF Sized, ToSet
<1>3. SubSeq(g, 1, k) = Append(SubSeq(g, 1, k - 1), x) /\ SubSeq(g, 1, k - 1) \in Seq(E) /\ FlattenSeq(acc) = SubSeq(g, 1, k - 1)
  BY PrefixNext DEF PackedUpTo
<1>4. one \in C
  <2>1. one \in Seq(E) /\ Len(one) = 1 /\ one = Append(<<>>, x) /\ ToSet(one) = {x}
    BY <1>2 DEF ToSet
  <2>2. GroupSize(us, Append(<<>>, x)) = us[x].size
    <3>1. <<>> \in Seq(1 .. n) /\ x \in 1 .. n
      BY <1>2
    <3> HIDE DEF x
    <3> QED BY <3>1, SizeAppend
  <2> QED BY <1>2, <2>1, <2>2 DEF Packs
<1>5. CASE last # <<>> /\ GroupSize(us, last) + 2 + us[x].size > MaxChunk
  <2>1. new = Append(acc, one)
    BY <1>5 DEF Pack
  <2> HIDE DEF C, E, x, new
  <2>2. new \in Seq(C) /\ new # <<>>
    BY <1>1, <1>4, <2>1, AppendProperties
  <2>3. FlattenSeq(new) = FlattenSeq(acc) \o one
    <3>1. one \in Seq(E)
      BY <1>2
    <3> QED BY <1>1, <2>1, <3>1, FlattenAppend
  <2>4. FlattenSeq(new) = SubSeq(g, 1, k)
    BY <1>3, <2>3, AppendIsConcat
  <2> QED BY <2>2, <2>4 DEF PackedUpTo, new, C, x
<1>6. CASE ~(last # <<>> /\ GroupSize(us, last) + 2 + us[x].size > MaxChunk)
  <2> DEFINE longer == Append(last, x)
  <2>1. new = [acc EXCEPT ![m] = Append(@, x)]
    BY <1>6 DEF Pack
  <2>2. last \in C /\ last \in Seq(E) /\ Len(last) <= k - 1 /\ ToSet(last) \subseteq ToSet(g)
    <3>1. last \in Packs(us, n, g, k - 1)
      BY <1>1 DEF PackedUpTo
    <3> QED BY <3>1 DEF Packs
  <2>3. /\ longer \in Seq(E) /\ Len(longer) = Len(last) + 1 /\ DOMAIN longer = 1 .. Len(last) + 1
        /\ longer[Len(last) + 1] = x /\ \A i \in 1 .. Len(last) : longer[i] = last[i]
        /\ Len(last) \in Nat /\ DOMAIN last = 1 .. Len(last)
    <3> HIDE DEF last, x, E
    <3> QED BY <1>2, <2>2, AppendProperties
  <2>4. ToSet(longer) \subseteq ToSet(g)
    <3> SUFFICES ASSUME NEW i \in DOMAIN longer PROVE longer[i] \in ToSet(g)
      BY DEF ToSet
    <3>1. CASE i = Len(last) + 1
      BY <1>2, <2>3, <3>1
    <3>2. CASE i # Len(last) + 1
      <4>1. i \in DOMAIN last /\ longer[i] = last[i]
        BY <2>3, <3>2
      <4> QED BY <2>2, <4>1 DEF ToSet
    <3> QED BY <3>1, <3>2
  <2>5. GroupSize(us, longer) <= MaxChunk
    <3> DEFINE sz == us[x].size
    <3>1. /\ GroupSize(us, last) \in Int /\ GroupSize(us, longer) = GroupSize(us, last) + 2 + sz
          /\ GroupSize(us, <<>>) = -2
      <4>1. last \in Seq(1 .. n) /\ x \in 1 .. n
        BY <1>2, <2>2
      <4> HIDE DEF last, x
      <4> QED BY <4>1, SizeAppend
    <3>2. sz \in Nat /\ sz <= MaxChunk
      BY <1>2
    <3>3. CASE last = <<>>
      <4>1. GroupSize(us, last) = -2
        BY <3>1, <3>3
      <4> HIDE DEF sz, last, longer
      <4> QED BY <3>1, <3>2, <4>1
    <3>4. CASE last # <<>>
      <4>1. ~(GroupSize(us, last) + 2 + sz > MaxChunk)
        BY <1>6, <3>4
      <4> HIDE DEF sz, last, longer
      <4> QED BY <3>1, <3>2, <4>1
    <3> QED BY <3>3, <3>4
  <2>6. longer \in C
    <3> HIDE DEF longer, last
    <3>1. Len(longer) <= k
      BY <2>2, <2>3
    <3> QED BY <2>3, <2>4, <2>5, <3>1 DEF Packs
  <2>7. new = [acc EXCEPT ![m] = longer]
    BY <1>1, <2>1
  <2>8. FlattenSeq(new) = Append(FlattenSeq(acc), x)
    <3> HIDE DEF new, m, C, E, x
    <3> QED BY <1>1, <1>2, <2>1, FlattenLast DEF m
  <2>9. new \in Seq(C) /\ Len(new) = m
    <3> HIDE DEF new, longer, C
    <3> QED BY <1>1, <2>6, <2>7, ExceptSeq
  <2>10. new # <<>>
    BY <1>1, <2>9
  <2> HIDE DEF new, C, x
  <2> QED BY <1>3, <2>8, <2>9, <2>10 DEF PackedUpTo, new, C, x
<1> QED BY <1>5, <1>6

\* A group is packed into chunks of its units in their order.
LEMMA GroupPacked ==
  ASSUME NEW us, NEW n \in Nat, Sized(us, n), \A i \in 1 .. n : us[i].size <= MaxChunk, MaxChunk \in Nat,
         NEW g \in Seq(1 .. n)
  PROVE  PackedUpTo(us, n, g, Packing(g, <<<<>>>>, us), Len(g))
<1> DEFINE L == Len(g)
           A == {acc \in Seq(Seq(1 .. n)) : acc # <<>>}
           base == <<<<>>>>
<1>1. L \in Nat /\ DOMAIN g = 1 .. L /\ base \in A /\ \A k \in 1 .. L : g[k] \in 1 .. n
  OBVIOUS
<1>2. PackingIn(A, L, g, base, us)
  <2> SUFFICES ASSUME NEW a \in A, NEW i \in 1 .. n PROVE Pack(us, a, i) \in A
    BY <1>1 DEF PackingIn
  <2>1. Append(a, <<i>>) \in A
    <3> DEFINE S == Seq(1 .. n)
               o == <<i>>
    <3>1. o \in S /\ a \in Seq(S)
      OBVIOUS
    <3> HIDE DEF S, o
    <3>2. Append(a, o) \in Seq(S) /\ Len(Append(a, o)) = Len(a) + 1 /\ Len(a) \in Nat
      BY <3>1, AppendProperties
    <3> DEFINE ao == Append(a, o)
    <3>3. Append(a, o) # <<>>
      <4>1. Len(ao) # 0
        BY <3>2
      <4> HIDE DEF ao
      <4>2. ao # <<>>
        BY <4>1
      <4> QED BY <4>2 DEF ao
    <3> QED BY <3>2, <3>3 DEF S, o
  <2>2. [a EXCEPT ![Len(a)] = Append(@, i)] \in A
    <3> DEFINE new == [a EXCEPT ![Len(a)] = Append(@, i)]
               E == 1 .. n
    <3>1. a \in Seq(Seq(E)) /\ a # <<>> /\ i \in E
      OBVIOUS
    <3> HIDE DEF E
    <3>2. new \in Seq(Seq(E))
      BY <3>1, FlattenLast
    <3>3. DOMAIN new = DOMAIN a /\ DOMAIN a = 1 .. Len(a) /\ Len(a) # 0
      BY <3>1
    <3>4. new # <<>>
      BY <3>3
    <3> QED BY <3>2, <3>4 DEF E
  <2> QED BY <2>1, <2>2 DEF Pack
<1> HIDE DEF L, A, base
<1>3. PICK h \in [0 .. L -> A] : /\ h[0] = base /\ Packing(g, base, us) = h[L]
                                 /\ \A k \in 1 .. L : h[k] = Pack(us, h[k - 1], g[k])
  <2>1. PackingRuns(A, L, g, base, us)
    BY <1>2, PackingTrace
  <2> QED BY <2>1 DEF PackingRuns
<1> DEFINE T == {k \in 0 .. L : PackedUpTo(us, n, g, h[k], k)}
<1>4. 0 \in T
  <2> DEFINE none == <<>>
  <2>1. none \in Seq(1 .. n) /\ Len(none) = 0 /\ ToSet(none) = {}
    BY DEF ToSet
  <2>2. GroupSize(us, none) <= MaxChunk
    <3>1. Sum(none) = 0 /\ none = [i \in DOMAIN none |-> us[none[i]].size]
      BY SumOfNone
    <3>2. GroupSize(us, none) = Sum(none) + 2 * (Len(none) - 1)
      BY <3>1 DEF GroupSize
    <3> HIDE DEF none
    <3> QED BY <2>1, <3>1, <3>2
  <2>3. none \in Packs(us, n, g, 0)
    BY <2>1, <2>2 DEF Packs
  <2>4. base = <<none>> /\ FlattenSeq(<<none>>) = none
    <3>1. FlattenSeq(<<none>>) = none
      <4> DEFINE E == 1 .. n
      <4>1. none \in Seq(E)
        BY <2>1
      <4> HIDE DEF none, E
      <4> QED BY <4>1, FlattenOne
    <3> QED BY <3>1 DEF base
  <2>5. SubSeq(g, 1, 0) = none
    BY SubSeqEmpty
  <2> HIDE DEF none
  <2>6. base \in Seq(Packs(us, n, g, 0)) /\ base # <<>>
    BY <2>3, <2>4
  <2>7. PackedUpTo(us, n, g, base, 0)
    BY <2>4, <2>5, <2>6 DEF PackedUpTo
  <2>8. 0 \in 0 .. L /\ h[0] = base
    BY <1>1, <1>3
  <2> QED BY <2>7, <2>8
<1>5. ASSUME NEW k \in 1 .. L, k - 1 \in T PROVE k \in T
  <2> DEFINE acc == h[k - 1]
  <2>1. k \in 1 .. Len(g) /\ PackedUpTo(us, n, g, acc, k - 1) /\ h[k] = Pack(us, acc, g[k]) /\ k \in 0 .. L
    BY <1>1, <1>3, <1>5 DEF L
  <2> HIDE DEF acc
  <2>2. PackedUpTo(us, n, g, Pack(us, acc, g[k]), k)
    BY <2>1, UnitPacked
  <2> QED BY <2>1, <2>2
<1>6. L \in T
  <2>1. 0 .. L \subseteq T
    <3> HIDE DEF T
    <3> QED BY <1>1, <1>4, <1>5, Induct
  <2> QED BY <1>1, <2>1
<1> QED BY <1>3, <1>6 DEF L, base

\* The chunks hold the units in their order, each within the limit, and a list or
\* a table alone.
ChunksHold(us, n, cs) ==
    /\ FlattenSeq(cs) = UpTo(n)
    /\ \A c \in ToSet(cs) : GroupSize(us, c) <= MaxChunk /\ (HasStructural(us, c) => Len(c) = 1)

LEMMA ChunksMade ==
  ASSUME NEW us, NEW n \in Nat, Sized(us, n), \A i \in 1 .. n : us[i].size <= MaxChunk, MaxChunk \in Nat,
         NEW gs \in Seq(Group(us, n)), FlattenSeq(gs) = UpTo(n)
  PROVE  ChunksHold(us, n, Chunks(us, gs))
<1> DEFINE E == 1 .. n
           C == {c \in Seq(E) : GroupSize(us, c) <= MaxChunk /\ (HasStructural(us, c) => Len(c) = 1)}
           packed == [i \in DOMAIN gs |-> Packing(gs[i], <<<<>>>>, us)]
<1>1. Chunks(us, gs) = FlattenSeq(packed)
  BY DEF Chunks, Packing
<1>2. Len(gs) \in Nat /\ DOMAIN gs = 1 .. Len(gs)
  OBVIOUS
<1>3. ASSUME NEW i \in 1 .. Len(gs) PROVE packed[i] \in Seq(C) /\ FlattenSeq(packed[i]) = gs[i]
  <2> DEFINE g == gs[i]
             p == Packing(g, <<<<>>>>, us)
  <2>1. g \in Group(us, n)
    OBVIOUS
  <2>2. g \in Seq(1 .. n) /\ g # <<>> /\ (HasStructural(us, g) => Len(g) = 1)
    BY <2>1 DEF Group
  <2> HIDE DEF g
  <2>3. PackedUpTo(us, n, g, p, Len(g))
    BY <2>2, GroupPacked
  <2>4. Packs(us, n, g, Len(g)) \subseteq C
    <3> SUFFICES ASSUME NEW c \in Packs(us, n, g, Len(g)), HasStructural(us, c) PROVE Len(c) = 1
      BY DEF Packs
    <3>1. c \in Seq(1 .. n) /\ Len(c) <= Len(g) /\ ToSet(c) \subseteq ToSet(g)
      BY DEF Packs
    <3>2. PICK x \in ToSet(c) : Structural(us[x])
      BY DEF HasStructural
    <3>3. HasStructural(us, g)
      BY <3>1, <3>2 DEF HasStructural
    <3>4. c # <<>>
      BY <3>2 DEF ToSet
    <3>5. Len(g) = 1
      BY <2>2, <3>3
    <3> HIDE DEF C
    <3>6. Len(c) \in Nat /\ Len(c) # 0
      BY <3>1, <3>4
    <3>7. Len(c) <= 1
      BY <3>1, <3>5
    <3> DEFINE m == Len(c)
    <3>8. m \in Nat /\ m # 0 /\ m <= 1
      BY <3>6, <3>7
    <3> HIDE DEF m
    <3>9. m = 1
      BY <3>8
    <3> QED BY <3>9 DEF m
  <2>5. SubSeq(g, 1, Len(g)) = g
    BY <2>2, SubSeqFull
  <2> HIDE DEF p, C
  <2>6. p \in Seq(C) /\ FlattenSeq(p) = g
    <3>1. p \in Seq(Packs(us, n, g, Len(g))) /\ FlattenSeq(p) = SubSeq(g, 1, Len(g))
      BY <2>3 DEF PackedUpTo
    <3> QED BY <2>4, <2>5, <3>1, SeqMonotonic
  <2>7. packed[i] = p
    BY <1>2 DEF p, g
  <2> QED BY <2>6, <2>7 DEF g
<1>4. C \subseteq Seq(E)
  OBVIOUS
<1> HIDE DEF C
<1>5. packed \in Seq(Seq(C)) /\ packed \in Seq(Seq(Seq(E))) /\ DOMAIN packed = 1 .. Len(gs)
  <2> DEFINE S == Seq(C)
             R == Seq(Seq(E))
             ps == packed
  <2>1. S \subseteq R
    BY <1>4, SeqMonotonic
  <2>2. DOMAIN ps = 1 .. Len(gs) /\ (\A i \in 1 .. Len(gs) : ps[i] \in S) /\ ps = [i \in DOMAIN ps |-> ps[i]]
    BY <1>2, <1>3
  <2> HIDE DEF S, R, ps
  <2>3. ps \in Seq(S)
    <3>1. ps \in [1 .. Len(gs) -> S]
      BY <2>2
    <3> QED BY <1>2, <3>1
  <2>4. ps \in Seq(R)
    BY <2>1, <2>3, SeqMonotonic
  <2> QED BY <2>2, <2>3, <2>4 DEF S, R, ps
<1>6. FlattenSeq(FlattenSeq(packed)) = FlattenSeq(gs)
  <2> DEFINE each == [i \in DOMAIN packed |-> FlattenSeq(packed[i])]
             ps == packed
  <2>1. FlattenSeq(FlattenSeq(ps)) = FlattenSeq([i \in DOMAIN ps |-> FlattenSeq(ps[i])])
    <3> HIDE DEF ps, E
    <3> QED BY <1>5, FlattenTwice DEF ps
  <2>2. each = gs
    <3>1. DOMAIN each = 1 .. Len(gs) /\ \A i \in 1 .. Len(gs) : each[i] = gs[i]
      BY <1>3, <1>5
    <3>2. each = [i \in DOMAIN each |-> each[i]] /\ gs = [i \in DOMAIN gs |-> gs[i]]
      OBVIOUS
    <3> HIDE DEF each
    <3> QED BY <1>2, <3>1, <3>2
  <2> QED BY <2>1, <2>2
<1>7. ToSet(FlattenSeq(packed)) \subseteq C
  <2> DEFINE ps == packed
  <2>1. ps \in Seq(Seq(C))
    BY <1>5
  <2> HIDE DEF ps
  <2>2. ToSet(FlattenSeq(ps)) = {c \in C : \E i \in DOMAIN ps : c \in ToSet(ps[i])}
    BY <2>1, FlattenHolds
  <2> QED BY <2>2 DEF ps
<1> QED BY <1>1, <1>6, <1>7 DEF ChunksHold, C

-----------------------------------------------------------------------------
(* Overlong units (DocumentChunks).                                         *)

\* The pieces of a sentence after each turn.
Piecing(s, base, length, breaks) == FoldLeft(LAMBDA pieces, turn : NextPiece(length, breaks, pieces), base, s)
PiecingIn(A, L, s, base, length, breaks) ==
    base \in A /\ L \in Nat /\ DOMAIN s = 1 .. L /\ \A a \in A : \A k \in 1 .. L : NextPiece(length, breaks, a) \in A
PiecingRuns(A, L, s, base, length, breaks) ==
    \E g \in [0 .. L -> A] : g[0] = base /\ Piecing(s, base, length, breaks) = g[L] /\ \A k \in 1 .. L : g[k] = NextPiece(length, breaks, g[k - 1])

LEMMA PiecingTrace ==
  ASSUME NEW A, NEW base, NEW L, NEW s, NEW length, NEW breaks, PiecingIn(A, L, s, base, length, breaks)
  PROVE  PiecingRuns(A, L, s, base, length, breaks)
<1> DEFINE H == [p \in A \X (1 .. L) |-> NextPiece(length, breaks, p[1])]
           F(it) == [x \in SUBSET (1 .. L) |-> IF x = {} THEN base ELSE NextPiece(length, breaks, it[x \ {Max(x)}])]
           f == CHOOSE it : it = F(it)
<1>0. base \in A /\ L \in Nat /\ DOMAIN s = 1 .. L
  BY DEF PiecingIn
<1>1. H \in [A \X (1 .. L) -> A]
  BY <1>0 DEF PiecingIn
<1>2. \A a \in A : \A k \in 1 .. L : H[<<a, k>>] = NextPiece(length, breaks, a)
  OBVIOUS
<1>3. \A x \in SUBSET (1 .. L) : x # {} => Max(x) \in 1 .. L /\ x \ {Max(x)} \in SUBSET (1 .. L)
  BY <1>0, PlacesMax
<1>4. \E it : it = F(it)
  <2>1. PICK it \in [SUBSET (1 .. L) -> A] : FoldsSets(it, base, L, H)
    <3> HIDE DEF H
    <3> QED BY <1>0, <1>1, Recursion
  <2>2. it[{}] = base /\ \A x \in SUBSET (1 .. L) : x # {} => it[x] = H[<<it[x \ {Max(x)}], Max(x)>>]
    <3> HIDE DEF H
    <3> QED BY <2>1 DEF FoldsSets
  <2>3. ASSUME NEW x \in SUBSET (1 .. L), x # {} PROVE it[x] = NextPiece(length, breaks, it[x \ {Max(x)}])
    <3> HIDE DEF H
    <3> QED BY <1>2, <1>3, <2>2, <2>3
  <2>4. it = F(it)
    <3> HIDE DEF H
    <3> QED BY <2>2, <2>3
  <2> QED BY <2>4
<1>5. f = F(f)
  <2> HIDE DEF F, H
  <2> QED BY <1>4
<1>6. Piecing(s, base, length, breaks) = f[1 .. L]
  BY <1>0 DEF Piecing, FoldLeft, MapThenFoldSet
<1>7. f[{}] = base /\ \A x \in SUBSET (1 .. L) : x # {} => f[x] = NextPiece(length, breaks, f[x \ {Max(x)}])
  <2> HIDE DEF f, H
  <2> QED BY <1>5
<1> HIDE DEF f, F, H
<1>8. FoldsFrom(f, A, L, H)
  BY <1>2, <1>3, <1>7 DEF FoldsFrom
<1>9. f[{}] = base
  BY <1>7
<1>10. Unfolds(f, A, base, L, H)
  BY <1>0, <1>1, <1>8, <1>9 DEF Unfolds
<1>11. PICK g \in [0 .. L -> A] : Follows(g, base, L, H) /\ f[1 .. L] = g[L]
  BY <1>10, Unfolding DEF Unfolded
<1>12. \A k \in 1 .. L : g[k] = NextPiece(length, breaks, g[k - 1])
  <2> SUFFICES ASSUME NEW k \in 1 .. L PROVE g[k] = NextPiece(length, breaks, g[k - 1])
    OBVIOUS
  <2>1. g[k - 1] \in A /\ g[k] = H[<<g[k - 1], k>>]
    BY <1>0, <1>11 DEF Follows
  <2> QED BY <2>1, <1>2
<1> QED BY <1>6, <1>11, <1>12 DEF Follows, PiecingRuns

\* A piece of a text of n characters.
PieceOf(n) == {p \in [from : Nat, to : Nat] : p.from < p.to /\ p.to <= n /\ p.to - p.from <= MaxChunk}

LEMMA PieceMade ==
  ASSUME NEW n \in Nat, NEW breaks \in SUBSET Nat, MaxChunk \in Nat \ {0}, NEW start \in Nat, start < n
  PROVE  Piece(n, breaks, start) \in PieceOf(n) /\ Piece(n, breaks, start).from = start
<1> DEFINE most == start + MaxChunk
           good == {b \in breaks : b - start >= (MaxChunk * 6) \div 10 /\ b < most}
           e == PieceEnd(n, breaks, start)
<1>1. e = IF most >= n THEN n ELSE IF good = {} THEN most ELSE Max(good) + 1
  BY DEF PieceEnd
<1>2. most \in Nat /\ start < most /\ (MaxChunk * 6) \div 10 \in Nat
  OBVIOUS
<1>3. ASSUME good # {} PROVE Max(good) \in Nat /\ start <= Max(good) /\ Max(good) < most
  <2>2. ASSUME NEW b \in good PROVE b \in Nat /\ start <= b /\ b < most
    <3> DEFINE least == (MaxChunk * 6) \div 10
    <3>1. b \in Nat /\ b - start >= least /\ b < most /\ least \in Nat
      BY <1>2
    <3> HIDE DEF least, most, good
    <3> QED BY <3>1
  <2>1. good \subseteq 0 .. most
    <3> HIDE DEF good, most
    <3> QED BY <1>2, <2>2
  <2> HIDE DEF good, most
  <2>3. Max(good) \in good
    BY <1>2, <1>3, <2>1, GreatestOf
  <2> QED BY <2>2, <2>3
<1>4. e \in Nat /\ start < e /\ e <= n /\ e - start <= MaxChunk
  <2>1. CASE most >= n
    <3>1. e = n
      BY <1>1, <2>1
    <3> HIDE DEF e
    <3> QED BY <2>1, <3>1
  <2>2. CASE ~(most >= n) /\ good = {}
    <3>1. e = most
      BY <1>1, <2>2
    <3> HIDE DEF e, good
    <3> QED BY <1>2, <2>2, <3>1
  <2>3. CASE ~(most >= n) /\ good # {}
    <3>1. e = Max(good) + 1
      BY <1>1, <2>3
    <3>2. Max(good) \in Nat /\ start <= Max(good) /\ Max(good) < most
      BY <1>3, <2>3
    <3> DEFINE top == Max(good)
    <3> HIDE DEF e, top
    <3>3. top \in Nat /\ start <= top /\ top < most /\ e = top + 1
      BY <3>1, <3>2 DEF top
    <3> HIDE DEF good
    <3> QED BY <1>2, <2>3, <3>3
  <2> QED BY <2>1, <2>2, <2>3
<1> HIDE DEF e
<1>5. Piece(n, breaks, start) = [from |-> start, to |-> e]
  BY DEF Piece, e
<1> QED BY <1>4, <1>5 DEF PieceOf

\* Pieces that follow one another with no gap.
PiecesJoin(n) ==
    {ps \in Seq(PieceOf(n)) :
        /\ ps # <<>> /\ ps[1].from = 0
        /\ \A i \in 2 .. Len(ps) : ps[i - 1].from < ps[i].from /\ ps[i].from <= ps[i - 1].to}

\* One turn: the end was reached, or another piece begins further on.
Turned(n, ps, new) ==
    /\ new \in PiecesJoin(n)
    /\ ps[Len(ps)].to = n => new = ps
    /\ ps[Len(ps)].to # n => ps[Len(ps)].from < new[Len(new)].from

LEMMA PieceTurn ==
  ASSUME NEW n \in Nat, NEW breaks \in SUBSET Nat, MaxChunk \in Nat \ {0}, Overlap \in Nat, NEW ps \in PiecesJoin(n)
  PROVE  Turned(n, ps, NextPiece(n, breaks, ps))
<1> DEFINE m == Len(ps)
           p == ps[m]
           start == IF p.from + 1 > p.to - Overlap THEN p.from + 1 ELSE p.to - Overlap
           q == Piece(n, breaks, start)
           new == Append(ps, q)
<1>1. ps \in Seq(PieceOf(n)) /\ m \in Nat /\ m # 0 /\ m \in 1 .. Len(ps) /\ p \in PieceOf(n)
  <2> HIDE DEF m
  <2>1. ps \in Seq(PieceOf(n)) /\ ps # <<>>
    BY DEF PiecesJoin
  <2>2. m \in Nat /\ m # 0 /\ m \in 1 .. Len(ps)
    BY <2>1 DEF m
  <2> QED BY <2>1, <2>2
<1>2. p.from \in Nat /\ p.to \in Nat /\ p.from < p.to /\ p.to <= n
  <2> HIDE DEF p
  <2> QED BY <1>1 DEF PieceOf
<1>3. CASE p.to >= n
  <2>1. NextPiece(n, breaks, ps) = ps /\ p.to = n
    BY <1>2, <1>3 DEF NextPiece, Last
  <2> QED BY <2>1 DEF Turned
<1>4. CASE ~(p.to >= n)
  <2>1. NextPiece(n, breaks, ps) = new
    BY <1>4 DEF NextPiece, Last
  <2>2. start \in Nat /\ p.from < start /\ start <= p.to /\ start < n
    <3> DEFINE f == p.from
               t == p.to
    <3>1. f \in Nat /\ t \in Nat /\ f < t /\ t < n
      BY <1>2, <1>4
    <3>2. start = IF f + 1 > t - Overlap THEN f + 1 ELSE t - Overlap
      OBVIOUS
    <3> HIDE DEF f, t, start, p
    <3>3. start \in Nat /\ f < start /\ start <= t /\ start < n
      BY <3>1, <3>2
    <3> QED BY <3>3 DEF f, t
  <2> HIDE DEF start
  <2>3. q \in PieceOf(n) /\ q.from = start
    BY <2>2, PieceMade
  <2> HIDE DEF q
  <2>4. /\ new \in Seq(PieceOf(n)) /\ Len(new) = m + 1 /\ new[m + 1] = q
        /\ \A i \in 1 .. m : new[i] = ps[i]
    BY <1>1, <2>3, AppendProperties
  <2> HIDE DEF new
  <2>5. new # <<>> /\ new[1].from = 0
    <3>1. 1 \in 1 .. m /\ ps[1].from = 0
      BY <1>1 DEF PiecesJoin
    <3>2. new[1] = ps[1] /\ Len(new) # 0
      BY <1>1, <2>4, <3>1
    <3> QED BY <3>1, <3>2
  <2>6. ASSUME NEW i \in 2 .. m + 1 PROVE new[i - 1].from < new[i].from /\ new[i].from <= new[i - 1].to
    <3>1. CASE i = m + 1
      <4>1. new[i] = q /\ new[i - 1] = p
        <5>1. i - 1 = m /\ m \in 1 .. m
          BY <1>1, <3>1
        <5> QED BY <2>4, <3>1, <5>1
      <4> QED BY <2>2, <2>3, <4>1
    <3>2. CASE i # m + 1
      <4>1. i \in 2 .. Len(ps) /\ i \in 1 .. m /\ i - 1 \in 1 .. m
        BY <1>1, <3>2
      <4>2. new[i] = ps[i] /\ new[i - 1] = ps[i - 1]
        BY <2>4, <4>1
      <4> QED BY <4>1, <4>2 DEF PiecesJoin
    <3> QED BY <3>1, <3>2
  <2>7. new \in PiecesJoin(n)
    BY <2>4, <2>5, <2>6 DEF PiecesJoin
  <2>8. p.to # n /\ new[Len(new)] = q
    BY <1>2, <1>4, <2>4
  <2> QED BY <2>1, <2>2, <2>3, <2>7, <2>8 DEF Turned
<1> QED BY <1>3, <1>4

\* The loop ends, and its pieces cover the text.
LEMMA SplitCovers ==
  ASSUME NEW n \in Nat, n # 0, NEW breaks \in SUBSET Nat, MaxChunk \in Nat \ {0}, Overlap \in Nat
  PROVE  PiecesCover(n, breaks) /\ HardSplit(n, breaks) \in Seq(PieceOf(n)) /\ HardSplit(n, breaks) # <<>>
<1> DEFINE s == [turn \in 1 .. n |-> turn]
           A == PiecesJoin(n)
           p == Piece(n, breaks, 0)
           base == <<p>>
           ps == HardSplit(n, breaks)
<1>1. ps = Piecing(s, base, n, breaks)
  BY DEF HardSplit, Piecing
<1>2. p \in PieceOf(n) /\ p.from = 0
  <2>1. 0 \in Nat /\ 0 < n
    OBVIOUS
  <2> QED BY <2>1, PieceMade
<1>3. base \in A /\ Len(base) = 1 /\ base[1] = p
  <2> HIDE DEF p
  <2> QED BY <1>2 DEF PiecesJoin
<1>4. PiecingIn(A, n, s, base, n, breaks)
  <2>1. ASSUME NEW a \in A PROVE NextPiece(n, breaks, a) \in A
    BY PieceTurn DEF Turned
  <2> HIDE DEF A, base
  <2> QED BY <1>3, <2>1 DEF PiecingIn
<1> HIDE DEF A, s, base, ps
<1>5. PICK g \in [0 .. n -> A] : /\ g[0] = base /\ Piecing(s, base, n, breaks) = g[n]
                                 /\ \A k \in 1 .. n : g[k] = NextPiece(n, breaks, g[k - 1])
  <2>1. PiecingRuns(A, n, s, base, n, breaks)
    BY <1>4, PiecingTrace
  <2> QED BY <2>1 DEF PiecingRuns
<1> DEFINE Far(a, k) == a[Len(a)].to = n \/ a[Len(a)].from >= k
           T == {k \in 0 .. n : Far(g[k], k)}
<1>6. 0 \in T
  <2>1. g[0] = base /\ base[Len(base)] = p /\ p.from = 0 /\ 0 \in 0 .. n
    BY <1>2, <1>3, <1>5
  <2> HIDE DEF p
  <2>2. Far(g[0], 0)
    BY <2>1
  <2> HIDE DEF Far
  <2> QED BY <2>1, <2>2
<1>7. ASSUME NEW k \in 1 .. n, k - 1 \in T PROVE k \in T
  <2> DEFINE a == g[k - 1]
             b == g[k]
  <2>1. a \in A /\ b \in A /\ b = NextPiece(n, breaks, a) /\ Far(a, k - 1) /\ k \in 0 .. n
    BY <1>5, <1>7
  <2>2. Turned(n, a, b)
    BY <2>1, PieceTurn DEF A
  <2>3. ASSUME NEW c \in A PROVE c[Len(c)].from \in Nat
    <3>1. c \in Seq(PieceOf(n)) /\ c # <<>>
      BY DEF A, PiecesJoin
    <3>2. Len(c) \in 1 .. Len(c)
      BY <3>1
    <3>3. c[Len(c)] \in PieceOf(n)
      BY <3>1, <3>2
    <3> QED BY <3>3 DEF PieceOf
  <2> HIDE DEF a, b
  <2>4. a[Len(a)].from \in Nat /\ b[Len(b)].from \in Nat
    BY <2>1, <2>3
  <2>5. CASE a[Len(a)].to = n
    BY <2>1, <2>2, <2>5 DEF Turned, b
  <2>6. CASE a[Len(a)].to # n
    <3>1. a[Len(a)].from >= k - 1 /\ a[Len(a)].from < b[Len(b)].from
      BY <2>1, <2>2, <2>6 DEF Turned
    <3>2. b[Len(b)].from >= k
      BY <2>4, <3>1
    <3> QED BY <2>1, <3>2 DEF b
  <2> QED BY <2>5, <2>6
<1>8. n \in T
  <2>1. 0 .. n \subseteq T
    <3> HIDE DEF T
    <3> QED BY <1>6, <1>7, Induct
  <2> QED BY <2>1
<1>9. ps \in A /\ Far(ps, n)
  BY <1>1, <1>5, <1>8
<1>10. ps \in Seq(PieceOf(n)) /\ ps # <<>> /\ Len(ps) \in Nat /\ Len(ps) \in 1 .. Len(ps)
  <2>1. ps \in Seq(PieceOf(n)) /\ ps # <<>>
    BY <1>9 DEF A, PiecesJoin
  <2> QED BY <2>1
<1>11. ps[Len(ps)] \in PieceOf(n)
  BY <1>10
<1>12. ps[Len(ps)].to = n
  <2> DEFINE z == ps[Len(ps)]
  <2>1. z.from \in Nat /\ z.to \in Nat /\ z.from < z.to /\ z.to <= n
    BY <1>11 DEF PieceOf
  <2>2. z.to = n \/ z.from >= n
    BY <1>9
  <2> HIDE DEF z
  <2>3. z.to = n
    BY <2>1, <2>2
  <2> QED BY <2>3 DEF z
<1>13. \A i \in DOMAIN ps : ps[i].to - ps[i].from <= MaxChunk
  <2> SUFFICES ASSUME NEW i \in DOMAIN ps PROVE ps[i].to - ps[i].from <= MaxChunk
    OBVIOUS
  <2>1. ps[i] \in PieceOf(n)
    BY <1>10
  <2> QED BY <2>1 DEF PieceOf
<1>14. PiecesCover(n, breaks)
  BY <1>9, <1>12, <1>13 DEF PiecesCover, ps, A, PiecesJoin, Last
<1> QED BY <1>10, <1>14 DEF ps

\* The lengths of the pieces of a sentence.
LEMMA PieceLengths ==
  ASSUME NEW n \in Nat, n # 0, NEW breaks \in SUBSET Nat, MaxChunk \in Nat \ {0}, Overlap \in Nat
  PROVE  Lengths(HardSplit(n, breaks)) \in Seq(0 .. MaxChunk) /\ Lengths(HardSplit(n, breaks)) # <<>>
<1> DEFINE ps == HardSplit(n, breaks)
           sizes == Lengths(ps)
           L == Len(ps)
<1>1. ps \in Seq(PieceOf(n)) /\ ps # <<>>
  BY SplitCovers
<1>2. sizes = [i \in DOMAIN ps |-> ps[i].to - ps[i].from]
  BY DEF Lengths
<1> HIDE DEF sizes, ps
<1>3. L \in Nat /\ L # 0 /\ DOMAIN ps = 1 .. L
  BY <1>1
<1>4. ASSUME NEW i \in 1 .. L PROVE sizes[i] \in 0 .. MaxChunk
  <2> DEFINE p == ps[i]
  <2>1. p \in PieceOf(n) /\ sizes[i] = p.to - p.from
    BY <1>1, <1>2, <1>3
  <2> HIDE DEF p
  <2>2. p.from \in Nat /\ p.to \in Nat /\ p.from < p.to /\ p.to - p.from <= MaxChunk
    BY <2>1 DEF PieceOf
  <2> QED BY <2>1, <2>2
<1>5. sizes \in [1 .. L -> 0 .. MaxChunk]
  BY <1>2, <1>3, <1>4
<1> HIDE DEF L
<1>6. sizes \in Seq(0 .. MaxChunk) /\ Len(sizes) = L
  BY <1>3, <1>5
<1> QED BY <1>3, <1>6 DEF sizes, ps

\* The sizes cut from a unit after each of its sentences.
Sentencing(s, base, breaks) == FoldLeft(LAMBDA acc, n : AddSentence(breaks, acc, n), base, s)
SentencingIn(A, L, s, base, breaks) ==
    base \in A /\ L \in Nat /\ DOMAIN s = 1 .. L /\ \A a \in A : \A k \in 1 .. L : AddSentence(breaks, a, s[k]) \in A
SentencingRuns(A, L, s, base, breaks) ==
    \E g \in [0 .. L -> A] : g[0] = base /\ Sentencing(s, base, breaks) = g[L] /\ \A k \in 1 .. L : g[k] = AddSentence(breaks, g[k - 1], s[k])

LEMMA SentencesTrace ==
  ASSUME NEW A, NEW base, NEW L, NEW s, NEW breaks, SentencingIn(A, L, s, base, breaks)
  PROVE  SentencingRuns(A, L, s, base, breaks)
<1> DEFINE H == [p \in A \X (1 .. L) |-> AddSentence(breaks, p[1], s[p[2]])]
           F(it) == [x \in SUBSET (1 .. L) |-> IF x = {} THEN base ELSE AddSentence(breaks, it[x \ {Max(x)}], s[Max(x)])]
           f == CHOOSE it : it = F(it)
<1>0. base \in A /\ L \in Nat /\ DOMAIN s = 1 .. L
  BY DEF SentencingIn
<1>1. H \in [A \X (1 .. L) -> A]
  BY <1>0 DEF SentencingIn
<1>2. \A a \in A : \A k \in 1 .. L : H[<<a, k>>] = AddSentence(breaks, a, s[k])
  OBVIOUS
<1>3. \A x \in SUBSET (1 .. L) : x # {} => Max(x) \in 1 .. L /\ x \ {Max(x)} \in SUBSET (1 .. L)
  BY <1>0, PlacesMax
<1>4. \E it : it = F(it)
  <2>1. PICK it \in [SUBSET (1 .. L) -> A] : FoldsSets(it, base, L, H)
    <3> HIDE DEF H
    <3> QED BY <1>0, <1>1, Recursion
  <2>2. it[{}] = base /\ \A x \in SUBSET (1 .. L) : x # {} => it[x] = H[<<it[x \ {Max(x)}], Max(x)>>]
    <3> HIDE DEF H
    <3> QED BY <2>1 DEF FoldsSets
  <2>3. ASSUME NEW x \in SUBSET (1 .. L), x # {} PROVE it[x] = AddSentence(breaks, it[x \ {Max(x)}], s[Max(x)])
    <3> HIDE DEF H
    <3> QED BY <1>2, <1>3, <2>2, <2>3
  <2>4. it = F(it)
    <3> HIDE DEF H
    <3> QED BY <2>2, <2>3
  <2> QED BY <2>4
<1>5. f = F(f)
  <2> HIDE DEF F, H
  <2> QED BY <1>4
<1>6. Sentencing(s, base, breaks) = f[1 .. L]
  BY <1>0 DEF Sentencing, FoldLeft, MapThenFoldSet
<1>7. f[{}] = base /\ \A x \in SUBSET (1 .. L) : x # {} => f[x] = AddSentence(breaks, f[x \ {Max(x)}], s[Max(x)])
  <2> HIDE DEF f, H
  <2> QED BY <1>5
<1> HIDE DEF f, F, H
<1>8. FoldsFrom(f, A, L, H)
  BY <1>2, <1>3, <1>7 DEF FoldsFrom
<1>9. f[{}] = base
  BY <1>7
<1>10. Unfolds(f, A, base, L, H)
  BY <1>0, <1>1, <1>8, <1>9 DEF Unfolds
<1>11. PICK g \in [0 .. L -> A] : Follows(g, base, L, H) /\ f[1 .. L] = g[L]
  BY <1>10, Unfolding DEF Unfolded
<1>12. \A k \in 1 .. L : g[k] = AddSentence(breaks, g[k - 1], s[k])
  <2> SUFFICES ASSUME NEW k \in 1 .. L PROVE g[k] = AddSentence(breaks, g[k - 1], s[k])
    OBVIOUS
  <2>1. g[k - 1] \in A /\ g[k] = H[<<g[k - 1], k>>]
    BY <1>0, <1>11 DEF Follows
  <2> QED BY <2>1, <1>2
<1> QED BY <1>6, <1>11, <1>12 DEF Follows, SentencingRuns

\* What has been cut so far; a sentence leaves something.
Cutting == [done : Seq(0 .. MaxChunk), current : 0 .. MaxChunk]
Cuts(acc) == acc \in Cutting /\ (acc.current > 0 \/ acc.done # <<>>)

LEMMA SentenceTurn ==
  ASSUME NEW breaks \in SUBSET Nat, MaxChunk \in Nat \ {0}, Overlap \in Nat, NEW acc \in Cutting, NEW n \in Nat, n # 0
  PROVE  Cuts(AddSentence(breaks, acc, n))
<1> DEFINE S == 0 .. MaxChunk
           last == IF acc.current > 0 THEN <<acc.current>> ELSE <<>>
           sizes == Lengths(HardSplit(n, breaks))
           d == acc.done
           c == acc.current
<1>1. d \in Seq(S) /\ c \in S
  BY DEF Cutting
<1>2. CASE n > MaxChunk
  <2>1. sizes \in Seq(S) /\ sizes # <<>>
    BY PieceLengths
  <2>2. AddSentence(breaks, acc, n) = [done |-> d \o last \o sizes, current |-> 0]
    BY <1>2 DEF AddSentence
  <2>3. last \in Seq(S)
    <3> HIDE DEF c
    <3>1. <<c>> \in Seq(S) /\ <<>> \in Seq(S)
      BY <1>1
    <3> QED BY <3>1 DEF c
  <2> HIDE DEF last, sizes, d
  <2>4. d \o last \in Seq(S)
    BY <1>1, <2>3, ConcatProperties
  <2> DEFINE both == d \o last
             all == both \o sizes
  <2> HIDE DEF both
  <2>5. all \in Seq(S) /\ Len(all) = Len(both) + Len(sizes)
    BY <2>1, <2>4, ConcatProperties DEF both
  <2>6. all # <<>>
    <3>1. Len(both) \in Nat /\ Len(sizes) \in Nat /\ Len(sizes) # 0
      BY <2>1, <2>4 DEF both
    <3> HIDE DEF all
    <3>2. Len(all) # 0
      BY <2>5, <3>1
    <3> QED BY <3>2
  <2>7. 0 \in S
    OBVIOUS
  <2> HIDE DEF all
  <2> QED BY <2>2, <2>5, <2>6, <2>7 DEF Cuts, Cutting, all, both
<1>3. CASE n <= MaxChunk /\ c > 0 /\ c + n > MaxChunk
  <2> DEFINE more == Append(d, c)
  <2>1. AddSentence(breaks, acc, n) = [done |-> more, current |-> n]
    BY <1>3 DEF AddSentence
  <2> HIDE DEF c, d
  <2>2. more \in Seq(S) /\ more # <<>> /\ n \in S
    BY <1>1, <1>3
  <2> HIDE DEF more
  <2> QED BY <2>1, <2>2 DEF Cuts, Cutting
<1>4. CASE n <= MaxChunk /\ ~(c > 0 /\ c + n > MaxChunk)
  <2>1. AddSentence(breaks, acc, n) = [acc EXCEPT !.current = @ + n]
    BY <1>4 DEF AddSentence
  <2>2. AddSentence(breaks, acc, n) = [done |-> d, current |-> c + n]
    BY <2>1 DEF Cutting
  <2> HIDE DEF c, d
  <2>3. c + n \in S /\ c + n > 0
    BY <1>1, <1>4
  <2> QED BY <1>1, <2>2, <2>3 DEF Cuts, Cutting
<1> QED BY <1>2, <1>3, <1>4

\* The sizes a unit is split into.
SizesOf(sizes) == sizes \in Seq(0 .. MaxChunk) /\ sizes # <<>>

LEMMA SentencesSplit ==
  ASSUME NEW u, u.breaks \in SUBSET Nat, u.parts \in Seq(Nat \ {0}), u.parts # <<>>,
         MaxChunk \in Nat \ {0}, Overlap \in Nat
  PROVE  SizesOf(SplitSentences(u))
<1> DEFINE breaks == u.breaks
           s == u.parts
           L == Len(s)
           base == [done |-> <<>>, current |-> 0]
           r == Sentencing(s, base, breaks)
<1>1. SplitSentences(u) = IF r.current > 0 THEN Append(r.done, r.current) ELSE r.done
  BY DEF SplitSentences, Sentencing
<1>2. L \in Nat /\ L # 0 /\ DOMAIN s = 1 .. L /\ \A k \in 1 .. L : s[k] \in Nat /\ s[k] # 0
  OBVIOUS
<1> HIDE DEF s, L, breaks
<1>3. \A a \in Cutting : \A k \in 1 .. L : Cuts(AddSentence(breaks, a, s[k]))
  BY <1>2, SentenceTurn DEF breaks
<1>4. base \in Cutting
  BY DEF Cutting
<1>5. SentencingIn(Cutting, L, s, base, breaks)
  <2> HIDE DEF base
  <2> QED BY <1>2, <1>3, <1>4 DEF SentencingIn, Cuts
<1> HIDE DEF base
<1>6. SentencingRuns(Cutting, L, s, base, breaks)
  BY <1>5, SentencesTrace
<1>7. PICK g \in [0 .. L -> Cutting] : r = g[L] /\ \A k \in 1 .. L : g[k] = AddSentence(breaks, g[k - 1], s[k])
  BY <1>6 DEF SentencingRuns
<1> HIDE DEF r
<1>8. Cuts(r)
  <2>1. L \in 1 .. L /\ L - 1 \in 0 .. L
    BY <1>2
  <2>2. g[L - 1] \in Cutting /\ g[L] = AddSentence(breaks, g[L - 1], s[L])
    BY <1>7, <2>1
  <2> QED BY <1>3, <1>7, <2>1, <2>2
<1>9. r.done \in Seq(0 .. MaxChunk) /\ r.current \in 0 .. MaxChunk /\ (r.current > 0 \/ r.done # <<>>)
  BY <1>8 DEF Cuts, Cutting
<1>10. CASE r.current > 0
  <2> DEFINE all == Append(r.done, r.current)
  <2>1. all \in Seq(0 .. MaxChunk) /\ all # <<>>
    BY <1>9
  <2> QED BY <1>1, <1>10, <2>1 DEF SizesOf
<1>11. CASE ~(r.current > 0)
  BY <1>1, <1>9, <1>11 DEF SizesOf
<1> QED BY <1>10, <1>11

\* The sizes cut from a list or a table after each of its items.
Itemising(s, base, header) == FoldLeft(LAMBDA acc, i : AddItem(header, acc, i), base, s)
ItemisingIn(A, L, s, base, header) ==
    base \in A /\ L \in Nat /\ DOMAIN s = 1 .. L /\ \A a \in A : \A k \in 1 .. L : AddItem(header, a, s[k]) \in A
ItemisingRuns(A, L, s, base, header) ==
    \E g \in [0 .. L -> A] : g[0] = base /\ Itemising(s, base, header) = g[L] /\ \A k \in 1 .. L : g[k] = AddItem(header, g[k - 1], s[k])

LEMMA FillingTrace ==
  ASSUME NEW A, NEW base, NEW L, NEW s, NEW header, ItemisingIn(A, L, s, base, header)
  PROVE  ItemisingRuns(A, L, s, base, header)
<1> DEFINE H == [p \in A \X (1 .. L) |-> AddItem(header, p[1], s[p[2]])]
           F(it) == [x \in SUBSET (1 .. L) |-> IF x = {} THEN base ELSE AddItem(header, it[x \ {Max(x)}], s[Max(x)])]
           f == CHOOSE it : it = F(it)
<1>0. base \in A /\ L \in Nat /\ DOMAIN s = 1 .. L
  BY DEF ItemisingIn
<1>1. H \in [A \X (1 .. L) -> A]
  BY <1>0 DEF ItemisingIn
<1>2. \A a \in A : \A k \in 1 .. L : H[<<a, k>>] = AddItem(header, a, s[k])
  OBVIOUS
<1>3. \A x \in SUBSET (1 .. L) : x # {} => Max(x) \in 1 .. L /\ x \ {Max(x)} \in SUBSET (1 .. L)
  BY <1>0, PlacesMax
<1>4. \E it : it = F(it)
  <2>1. PICK it \in [SUBSET (1 .. L) -> A] : FoldsSets(it, base, L, H)
    <3> HIDE DEF H
    <3> QED BY <1>0, <1>1, Recursion
  <2>2. it[{}] = base /\ \A x \in SUBSET (1 .. L) : x # {} => it[x] = H[<<it[x \ {Max(x)}], Max(x)>>]
    <3> HIDE DEF H
    <3> QED BY <2>1 DEF FoldsSets
  <2>3. ASSUME NEW x \in SUBSET (1 .. L), x # {} PROVE it[x] = AddItem(header, it[x \ {Max(x)}], s[Max(x)])
    <3> HIDE DEF H
    <3> QED BY <1>2, <1>3, <2>2, <2>3
  <2>4. it = F(it)
    <3> HIDE DEF H
    <3> QED BY <2>2, <2>3
  <2> QED BY <2>4
<1>5. f = F(f)
  <2> HIDE DEF F, H
  <2> QED BY <1>4
<1>6. Itemising(s, base, header) = f[1 .. L]
  BY <1>0 DEF Itemising, FoldLeft, MapThenFoldSet
<1>7. f[{}] = base /\ \A x \in SUBSET (1 .. L) : x # {} => f[x] = AddItem(header, f[x \ {Max(x)}], s[Max(x)])
  <2> HIDE DEF f, H
  <2> QED BY <1>5
<1> HIDE DEF f, F, H
<1>8. FoldsFrom(f, A, L, H)
  BY <1>2, <1>3, <1>7 DEF FoldsFrom
<1>9. f[{}] = base
  BY <1>7
<1>10. Unfolds(f, A, base, L, H)
  BY <1>0, <1>1, <1>8, <1>9 DEF Unfolds
<1>11. PICK g \in [0 .. L -> A] : Follows(g, base, L, H) /\ f[1 .. L] = g[L]
  BY <1>10, Unfolding DEF Unfolded
<1>12. \A k \in 1 .. L : g[k] = AddItem(header, g[k - 1], s[k])
  <2> SUFFICES ASSUME NEW k \in 1 .. L PROVE g[k] = AddItem(header, g[k - 1], s[k])
    OBVIOUS
  <2>1. g[k - 1] \in A /\ g[k] = H[<<g[k - 1], k>>]
    BY <1>0, <1>11 DEF Follows
  <2> QED BY <2>1, <1>2
<1> QED BY <1>6, <1>11, <1>12 DEF Follows, ItemisingRuns

\* What has been cut so far; the header is all there is before the first item.
Filling(header) ==
    {acc \in [done : Seq(0 .. MaxChunk), current : 0 .. MaxChunk, items : Nat] : acc.items = 0 => acc.current = header}

\* An item fits into a chunk under the header.
FitsUnder(header, item) ==
    header \in 0 .. MaxChunk /\ item \in Nat /\ item + (IF header > 0 THEN header + 1 ELSE 0) <= MaxChunk

LEMMA ItemTurn ==
  ASSUME MaxChunk \in Nat, NEW header, NEW item, FitsUnder(header, item), NEW acc \in Filling(header)
  PROVE  AddItem(header, acc, item) \in Filling(header) /\ AddItem(header, acc, item).items > 0
<1> DEFINE d == acc.done
           c == acc.current
           i == acc.items
           joined == IF c > 0 THEN c + 1 + item ELSE item
           S == 0 .. MaxChunk
<1>1. d \in Seq(S) /\ c \in S /\ i \in Nat /\ (i = 0 => c = header)
  BY DEF Filling
<1>2. header \in S /\ item \in Nat /\ item + (IF header > 0 THEN header + 1 ELSE 0) <= MaxChunk
  BY DEF FitsUnder
<1>3. CASE joined > MaxChunk /\ i > 0
  <2> DEFINE first == IF header > 0 THEN header + 1 + item ELSE item
             more == Append(d, c)
  <2>1. AddItem(header, acc, item) = [done |-> more, items |-> 1, current |-> first]
    BY <1>3 DEF AddItem
  <2>2. first \in S
    BY <1>2
  <2> HIDE DEF first, c, d
  <2>3. more \in Seq(S)
    BY <1>1
  <2> HIDE DEF more
  <2> QED BY <2>1, <2>2, <2>3 DEF Filling
<1>4. CASE ~(joined > MaxChunk /\ i > 0)
  <2>1. AddItem(header, acc, item) = [acc EXCEPT !.current = joined, !.items = @ + 1]
    BY <1>4 DEF AddItem
  <2>2. AddItem(header, acc, item) = [done |-> d, current |-> joined, items |-> i + 1]
    BY <2>1 DEF Filling
  <2>3. joined \in S /\ i + 1 \in Nat /\ i + 1 > 0
    <3> HIDE DEF c, i
    <3>1. joined \in Nat /\ i + 1 \in Nat /\ i + 1 > 0
      BY <1>1, <1>2
    <3>2. joined <= MaxChunk
      BY <1>1, <1>2, <1>4
    <3> QED BY <3>1, <3>2
  <2> HIDE DEF joined, i, c, d
  <2> QED BY <1>1, <2>2, <2>3 DEF Filling
<1> QED BY <1>3, <1>4

LEMMA ItemsSplit ==
  ASSUME NEW u, u.header \in Nat, u.parts \in Seq(Nat), ~TooLarge(u), MaxChunk \in Nat
  PROVE  SizesOf(SplitItems(u))
<1> DEFINE header == u.header
           s == u.parts
           L == Len(s)
           base == [done |-> <<>>, current |-> header, items |-> 0]
           r == Itemising(s, base, header)
<1>1. SplitItems(u) = IF r.items > 0 THEN Append(r.done, r.current) ELSE r.done
  BY DEF SplitItems, Itemising
<1>2. L \in Nat /\ L # 0 /\ DOMAIN s = 1 .. L /\ \A k \in 1 .. L : FitsUnder(header, s[k])
  <2>1. s # <<>> /\ \A k \in DOMAIN s : s[k] + (IF header > 0 THEN header + 1 ELSE 0) <= MaxChunk
    <3>1. \A k \in DOMAIN s : s[k] \in Nat
      OBVIOUS
    <3>2. s # <<>> /\ \A k \in DOMAIN s : ~(s[k] + (IF header > 0 THEN header + 1 ELSE 0) > MaxChunk)
      BY DEF TooLarge
    <3> SUFFICES ASSUME NEW k \in DOMAIN s PROVE s[k] + (IF header > 0 THEN header + 1 ELSE 0) <= MaxChunk
      BY <3>2
    <3> DEFINE n == s[k]
    <3>3. n \in Nat /\ ~(n + (IF header > 0 THEN header + 1 ELSE 0) > MaxChunk) /\ header \in Nat
      BY <3>1, <3>2
    <3> HIDE DEF n, header
    <3>4. n + (IF header > 0 THEN header + 1 ELSE 0) <= MaxChunk
      BY <3>3
    <3> QED BY <3>4 DEF n
  <2>2. L \in Nat /\ L # 0 /\ DOMAIN s = 1 .. L /\ \A k \in 1 .. L : s[k] \in Nat
    BY <2>1
  <2>3. header \in Nat
    OBVIOUS
  <2> HIDE DEF header, L, s
  <2>4. ASSUME NEW k \in 1 .. L PROVE FitsUnder(header, s[k])
    <3>1. s[k] \in Nat /\ s[k] + (IF header > 0 THEN header + 1 ELSE 0) <= MaxChunk
      BY <2>1, <2>2
    <3> DEFINE n == s[k]
    <3> HIDE DEF n
    <3>2. header \in 0 .. MaxChunk
      BY <2>3, <3>1 DEF n
    <3> QED BY <3>1, <3>2 DEF FitsUnder
  <2> QED BY <2>2, <2>4
<1>3. header \in 0 .. MaxChunk
  <2>1. 1 \in 1 .. L
    BY <1>2
  <2> QED BY <1>2, <2>1 DEF FitsUnder
<1> HIDE DEF s, L, header
<1>4. \A a \in Filling(header) : \A k \in 1 .. L :
         AddItem(header, a, s[k]) \in Filling(header) /\ AddItem(header, a, s[k]).items > 0
  BY <1>2, ItemTurn
<1>5. base \in Filling(header)
  BY <1>3 DEF Filling
<1> DEFINE A == Filling(header)
<1> HIDE DEF A
<1>6. ItemisingIn(A, L, s, base, header)
  <2> HIDE DEF base
  <2> QED BY <1>2, <1>4, <1>5 DEF ItemisingIn, A
<1> HIDE DEF base
<1>7. ItemisingRuns(A, L, s, base, header)
  BY <1>6, FillingTrace
<1>8. PICK g \in [0 .. L -> A] : r = g[L] /\ \A k \in 1 .. L : g[k] = AddItem(header, g[k - 1], s[k])
  BY <1>7 DEF ItemisingRuns
<1> HIDE DEF r
<1>9. r \in A /\ r.items > 0
  <2>1. L \in 1 .. L /\ L - 1 \in 0 .. L
    BY <1>2
  <2>2. g[L - 1] \in A /\ g[L] = AddItem(header, g[L - 1], s[L])
    BY <1>8, <2>1
  <2> QED BY <1>4, <1>8, <2>1, <2>2 DEF A
<1>10. r.done \in Seq(0 .. MaxChunk) /\ r.current \in 0 .. MaxChunk
  BY <1>9 DEF A, Filling
<1> DEFINE all == Append(r.done, r.current)
<1>11. all \in Seq(0 .. MaxChunk) /\ all # <<>>
  BY <1>10
<1> QED BY <1>1, <1>9, <1>11 DEF SizesOf

\* The units of a document; one that is no list or table has sentences.
Kinds == {"paragraph", "list", "table", "code", "heading", "image_ref"}
Unit == [block : Nat, kind : Kinds, path : Seq(Lexicon), cites : SUBSET Nat, size : Nat,
         header : Nat, parts : Seq(Nat), breaks : SUBSET Nat]
Whole == {u \in Unit : ~Structural(u) => u.parts \in Seq(Nat \ {0}) /\ u.parts # <<>>}

\* A piece of a unit, within the limit.
PartOf(u) ==
    {v \in Unit : v.size <= MaxChunk /\ v.block = u.block /\ v.path = u.path /\ v.cites = u.cites}

LEMMA UnitSplit ==
  ASSUME NEW u \in Whole, MaxChunk \in Nat \ {0}, Overlap \in Nat, ~(u.size > MaxChunk /\ Structural(u) /\ TooLarge(u))
  PROVE  SplitLongUnit(u) \in Seq(PartOf(u)) /\ SplitLongUnit(u) # <<>>
<1>1. u \in Unit /\ u.size \in Nat /\ u.header \in Nat /\ u.parts \in Seq(Nat) /\ u.breaks \in SUBSET Nat
  BY DEF Whole, Unit
<1>2. CASE u.size <= MaxChunk
  <2>1. SplitLongUnit(u) = <<u>>
    BY <1>2 DEF SplitLongUnit
  <2>2. u \in PartOf(u)
    BY <1>1, <1>2 DEF PartOf
  <2> QED BY <2>1, <2>2
<1>3. CASE ~(u.size <= MaxChunk)
  <2> DEFINE sizes == IF Structural(u) THEN SplitItems(u) ELSE SplitSentences(u)
             out == [i \in DOMAIN sizes |-> [u EXCEPT !.size = sizes[i]]]
  <2>1. SplitLongUnit(u) = out
    BY <1>3 DEF SplitLongUnit
  <2>2. SizesOf(sizes)
    <3>1. CASE Structural(u)
      <4>1. ~TooLarge(u)
        BY <1>1, <1>3, <3>1
      <4>2. SizesOf(SplitItems(u))
        BY <1>1, <4>1, ItemsSplit
      <4> QED BY <3>1, <4>2
    <3>2. CASE ~Structural(u)
      <4>1. u.parts \in Seq(Nat \ {0}) /\ u.parts # <<>>
        BY <3>2 DEF Whole
      <4>2. SizesOf(SplitSentences(u))
        BY <1>1, <4>1, SentencesSplit
      <4> QED BY <3>2, <4>2
    <3> QED BY <3>1, <3>2
  <2> HIDE DEF sizes
  <2>3. sizes \in Seq(0 .. MaxChunk) /\ sizes # <<>> /\ Len(sizes) \in Nat /\ DOMAIN sizes = 1 .. Len(sizes)
    BY <2>2 DEF SizesOf
  <2>4. ASSUME NEW i \in 1 .. Len(sizes) PROVE out[i] \in PartOf(u)
    <3> DEFINE n == sizes[i]
               v == [u EXCEPT !.size = n]
    <3>1. n \in 0 .. MaxChunk /\ n \in Nat /\ out[i] = v
      BY <2>3
    <3>2. u \in Unit
      BY <1>1
    <3> HIDE DEF n
    <3>3. v \in Unit
      BY <3>1, <3>2 DEF Unit
    <3>4. v.size = n /\ v.block = u.block /\ v.path = u.path /\ v.cites = u.cites
      BY <3>2 DEF Unit
    <3> HIDE DEF v
    <3>5. v \in PartOf(u)
      BY <3>1, <3>3, <3>4 DEF PartOf
    <3> QED BY <3>1, <3>5
  <2>5. out \in [1 .. Len(sizes) -> PartOf(u)]
    BY <2>3, <2>4
  <2> HIDE DEF out
  <2>6. out \in Seq(PartOf(u)) /\ Len(out) = Len(sizes)
    BY <2>3, <2>5
  <2>7. out # <<>>
    BY <2>3, <2>6
  <2> QED BY <2>1, <2>6, <2>7
<1> QED BY <1>2, <1>3

\* The units of a list, each cut into its pieces: every piece belongs to one of
\* them and every one of them has a piece.
CutFrom(us, out) ==
    /\ out \in Seq(Unit)
    /\ \A v \in ToSet(out) : \E u \in ToSet(us) : v \in PartOf(u)
    /\ \A u \in ToSet(us) : \E v \in ToSet(out) : v \in PartOf(u)

LEMMA UnitsSplit ==
  ASSUME NEW us \in Seq(Whole), MaxChunk \in Nat \ {0}, Overlap \in Nat, ~Refused(us)
  PROVE  CutFrom(us, FlattenSeq([i \in DOMAIN us |-> SplitLongUnit(us[i])]))
<1> DEFINE cut == [i \in DOMAIN us |-> SplitLongUnit(us[i])]
           L == Len(us)
<1>1. L \in Nat /\ DOMAIN us = 1 .. L /\ DOMAIN cut = 1 .. L
  OBVIOUS
<1>2. ASSUME NEW i \in 1 .. L
      PROVE  /\ us[i] \in Whole /\ us[i] \in ToSet(us)
             /\ cut[i] \in Seq(PartOf(us[i])) /\ cut[i] # <<>> /\ cut[i] \in Seq(Unit)
  <2> DEFINE u == us[i]
  <2>1. u \in Whole /\ u \in ToSet(us) /\ cut[i] = SplitLongUnit(u)
    BY <1>1 DEF ToSet
  <2>2. ~(u.size > MaxChunk /\ Structural(u) /\ TooLarge(u))
    BY <2>1 DEF Refused
  <2> HIDE DEF u
  <2>3. SplitLongUnit(u) \in Seq(PartOf(u)) /\ SplitLongUnit(u) # <<>>
    BY <2>1, <2>2, UnitSplit
  <2>4. PartOf(u) \subseteq Unit
    BY DEF PartOf
  <2>5. SplitLongUnit(u) \in Seq(Unit)
    BY <2>3, <2>4, SeqMonotonic
  <2> QED BY <2>1, <2>3, <2>5 DEF u
<1>3. ToSet(us) = {us[i] : i \in 1 .. L}
  BY <1>1 DEF ToSet
<1> DEFINE out == FlattenSeq(cut)
<1>4. cut \in Seq(Seq(Unit))
  <2> DEFINE S == Seq(Unit)
  <2>1. cut \in [1 .. L -> S]
    BY <1>1, <1>2
  <2> HIDE DEF S, cut, L
  <2>2. cut \in Seq(S)
    BY <1>1, <2>1
  <2> QED BY <2>2 DEF S
<1> HIDE DEF cut, L
<1>5. ToSet(out) = {e \in Unit : \E i \in DOMAIN cut : e \in ToSet(cut[i])}
  BY <1>4, FlattenHolds
<1>6. out \in Seq(Unit)
  <2>1. <<>> \in Seq(Unit)
    OBVIOUS
  <2> QED BY <1>4, <2>1, FlattenAppend
<1> HIDE DEF out
<1>7. ASSUME NEW v \in ToSet(out) PROVE \E u \in ToSet(us) : v \in PartOf(u)
  <2>1. PICK i \in 1 .. L : v \in ToSet(cut[i])
    BY <1>1, <1>5
  <2>2. v \in PartOf(us[i])
    BY <1>2, <2>1 DEF ToSet
  <2> QED BY <1>2, <2>2
<1>8. ASSUME NEW u \in ToSet(us) PROVE \E v \in ToSet(out) : v \in PartOf(u)
  <2>1. PICK i \in 1 .. L : u = us[i]
    BY <1>3
  <2> DEFINE c == cut[i]
             v == c[1]
  <2>2. c \in Seq(PartOf(u)) /\ c # <<>> /\ c \in Seq(Unit)
    BY <1>2, <2>1
  <2> HIDE DEF c
  <2>3. 1 \in DOMAIN c /\ v \in PartOf(u) /\ v \in Unit /\ v \in ToSet(c)
    BY <2>2 DEF ToSet
  <2>4. v \in ToSet(out)
    BY <1>1, <1>5, <2>3 DEF c
  <2> QED BY <2>3, <2>4
<1> QED BY <1>6, <1>7, <1>8 DEF CutFrom, out, cut

-----------------------------------------------------------------------------
(* The units of a document (DocumentChunks).                                *)

\* A block of a document, and what it shows.
Reasons == {"none", "empty_after_cleaning", "repeated_header", "repeated_footer"}
Marks == Lexicon \cup {NoText}
Block == [id : Nat, kind : Kinds, text : Seq(Marks), level : 0 .. 6, header : BOOLEAN,
          path : Seq(Lexicon), page : Nat, excluded : BOOLEAN, reason : Reasons]
InLines(b) == b.kind \notin {"list", "table"} => NoText \notin ToSet(b.text)

LEMMA SizeIsNat ==
  ASSUME NEW t \in Marks
  PROVE  Size(t) \in Nat
<1>1. CASE t = NoText
  BY <1>1 DEF Size
<1>2. CASE t # NoText
  <2>1. Sentences[t] \in Seq(Nat \ {0})
    BY <1>2, IngestAssumption DEF Marks
  <2> DEFINE s == Sentences[t]
  <2>2. s \in Seq(Nat)
    <3>1. Nat \ {0} \subseteq Nat
      OBVIOUS
    <3> HIDE DEF s
    <3> QED BY <2>1, <3>1, SeqMonotonic DEF s
  <2> HIDE DEF s
  <2>3. Sum(s) \in Nat
    BY <2>2, SumAppend
  <2> QED BY <1>2, <2>3 DEF Size, s
<1> QED BY <1>1, <1>2

LEMMA SentencesMade ==
  ASSUME NEW words \in Seq(Lexicon), words # <<>>
  PROVE  /\ FlattenSeq([i \in DOMAIN words |-> SentencesOf(words[i], i)]) \in Seq(Nat \ {0})
         /\ FlattenSeq([i \in DOMAIN words |-> SentencesOf(words[i], i)]) # <<>>
<1> DEFINE E == Nat \ {0}
           each == [i \in DOMAIN words |-> SentencesOf(words[i], i)]
           L == Len(words)
<1>1. L \in Nat /\ L # 0 /\ DOMAIN words = 1 .. L /\ DOMAIN each = 1 .. L
  OBVIOUS
<1>2. ASSUME NEW i \in 1 .. L PROVE each[i] \in Seq(E) /\ each[i] # <<>>
  <2> DEFINE t == words[i]
             s == Sentences[t]
  <2>1. t \in Lexicon /\ each[i] = SentencesOf(t, i)
    BY <1>1
  <2>2. s \in Seq(E) /\ s # <<>>
    <3> HIDE DEF t
    <3> QED BY <2>1, IngestAssumption
  <2>5. t # NoText
    <3> HIDE DEF t
    <3> QED BY <2>1, IngestAssumption
  <2> HIDE DEF t, each
  <2>3. CASE i = 1
    BY <2>1, <2>2, <2>3, <2>5 DEF SentencesOf
  <2>4. CASE i # 1
    <3> DEFINE n == s[1] + 1
               u == [s EXCEPT ![1] = n]
    <3>1. each[i] = [s EXCEPT ![1] = @ + 1]
      BY <2>1, <2>4, <2>5 DEF SentencesOf
    <3> HIDE DEF s
    <3>2. 1 \in 1 .. Len(s) /\ Len(s) \in Nat /\ Len(s) # 0
      BY <2>2
    <3>3. n \in E
      BY <2>2, <3>2
    <3>4. each[i] = u
      BY <3>1, <3>2
    <3> HIDE DEF n
    <3>5. u \in Seq(E) /\ Len(u) = Len(s)
      BY <2>2, <3>2, <3>3, ExceptSeq
    <3> HIDE DEF u
    <3>6. u # <<>>
      BY <3>2, <3>5
    <3> QED BY <3>4, <3>5, <3>6
  <2> QED BY <2>3, <2>4
<1>3. each \in Seq(Seq(E))
  <2> DEFINE S == Seq(E)
  <2>1. each \in [1 .. L -> S]
    BY <1>1, <1>2
  <2> HIDE DEF S, each, L
  <2>2. each \in Seq(S)
    BY <1>1, <2>1
  <2> QED BY <2>2 DEF S
<1> DEFINE flat == FlattenSeq(each)
<1> HIDE DEF each, L, E
<1>4. flat \in Seq(E)
  <2>1. <<>> \in Seq(E)
    OBVIOUS
  <2> QED BY <1>3, <2>1, FlattenAppend
<1>5. flat # <<>>
  <2> DEFINE c == each[1]
             e == c[1]
  <2>1. 1 \in 1 .. L /\ 1 \in DOMAIN each
    BY <1>1
  <2>2. c \in Seq(E) /\ c # <<>>
    BY <1>2, <2>1
  <2> HIDE DEF c
  <2>3. e \in E /\ e \in ToSet(c)
    BY <2>2 DEF ToSet
  <2> HIDE DEF e
  <2>4. ToSet(FlattenSeq(each)) = {x \in E : \E i \in DOMAIN each : x \in ToSet(each[i])}
    BY <1>3, FlattenHolds
  <2>5. e \in ToSet(flat)
    BY <2>1, <2>3, <2>4 DEF flat, c
  <2> HIDE DEF flat
  <2> QED BY <2>5 DEF ToSet
<1> QED BY <1>4, <1>5 DEF flat, each, E

\* A block that shows something makes a unit.
LEMMA UnitMade ==
  ASSUME NEW b \in Block, ~Blank(b), InLines(b), NEW heads \in SUBSET Nat
  PROVE  /\ UnitOf(b, heads) \in Whole /\ UnitOf(b, heads).block = b.id /\ UnitOf(b, heads).path = b.path
         /\ UnitOf(b, heads).cites = (heads \ {0}) \cup {b.id}
<1> DEFINE words == b.text
           L == Len(words)
           rows == [i \in DOMAIN words |-> Size(words[i])]
           isTable == b.kind = "table" /\ b.header
           u == UnitOf(b, heads)
           listed == b.kind \in {"list", "table"}
           length == Sum(rows) + Len(rows) - 1
           header == IF isTable THEN rows[1] ELSE 0
           flat == FlattenSeq([i \in DOMAIN words |-> SentencesOf(words[i], i)])
           parts == CASE listed -> IF isTable THEN Tail(rows) ELSE rows [] OTHER -> flat
           breaks == IF listed THEN {} ELSE UNION {Breaks[t] : t \in ToSet(words) \ {NoText}}
           cites == (heads \ {0}) \cup {b.id}
<1>1. u = [block |-> b.id, kind |-> b.kind, path |-> b.path, cites |-> cites, size |-> length,
           header |-> header, parts |-> parts, breaks |-> breaks]
  BY DEF UnitOf
<1>2. b.id \in Nat /\ b.kind \in Kinds /\ b.path \in Seq(Lexicon) /\ words \in Seq(Marks)
  BY DEF Block
<1>3. words # <<>>
  <2> SUFFICES ASSUME words = <<>> PROVE FALSE
    OBVIOUS
  <2>1. ToSet(words) = {}
    BY DEF ToSet
  <2> HIDE DEF words
  <2> QED BY <2>1 DEF Blank, words
<1> HIDE DEF words
<1>0. words \in Seq(Marks)
  BY <1>2
<1>4. L \in Nat /\ L # 0 /\ DOMAIN words = 1 .. L
  BY <1>0, <1>3
<1>5. rows \in Seq(Nat) /\ Len(rows) = L
  <2>1. ASSUME NEW i \in 1 .. L PROVE Size(words[i]) \in Nat
    <3>1. words[i] \in Marks
      BY <1>0, <1>4
    <3> QED BY <3>1, SizeIsNat
  <2>2. rows \in [1 .. L -> Nat]
    BY <1>4, <2>1
  <2> HIDE DEF rows, L
  <2> QED BY <1>4, <2>2
<1> HIDE DEF rows, L
<1>6. rows # <<>> /\ 1 \in 1 .. Len(rows) /\ rows[1] \in Nat /\ Tail(rows) \in Seq(Nat)
  BY <1>4, <1>5
<1>7. length \in Nat
  <2>1. Sum(rows) \in Nat
    BY <1>5, SumAppend
  <2> DEFINE total == Sum(rows)
             n == Len(rows)
  <2>2. total \in Nat /\ n \in Nat /\ n # 0
    BY <1>4, <1>5, <2>1
  <2> HIDE DEF total, n
  <2>3. total + n - 1 \in Nat
    BY <2>2
  <2> QED BY <2>3 DEF total, n
<1>8. header \in Nat
  BY <1>6
<1>9. cites \in SUBSET Nat
  BY <1>2
<1>10. ASSUME ~listed PROVE words \in Seq(Lexicon) /\ flat \in Seq(Nat \ {0}) /\ flat # <<>>
  <2>1. NoText \notin ToSet(words)
    BY <1>10 DEF InLines, words
  <2>2. ASSUME NEW i \in 1 .. L PROVE words[i] \in Lexicon
    <3>1. words[i] \in Marks /\ words[i] \in ToSet(words)
      BY <1>0, <1>4 DEF ToSet
    <3> QED BY <2>1, <3>1 DEF Marks
  <2>3. words \in Seq(Lexicon)
    <3>1. words = [i \in DOMAIN words |-> words[i]]
      BY <1>0
    <3>2. words \in [1 .. L -> Lexicon]
      BY <1>4, <2>2, <3>1
    <3> QED BY <1>4, <3>2
  <2> QED BY <1>3, <2>3, SentencesMade
<1>11. breaks \in SUBSET Nat
  <2>1. CASE listed
    BY <2>1
  <2>2. CASE ~listed
    <3>1. ASSUME NEW t \in ToSet(words) PROVE Breaks[t] \subseteq Nat
      <4>1. t \in Lexicon
        BY <1>10, <2>2 DEF ToSet
      <4> QED BY <4>1, IngestAssumption
    <3> QED BY <2>2, <3>1
  <2> QED BY <2>1, <2>2
<1>12. parts \in Seq(Nat) /\ (~listed => parts \in Seq(Nat \ {0}) /\ parts # <<>>)
  <2>1. CASE listed
    <3>1. parts = IF isTable THEN Tail(rows) ELSE rows
      BY <2>1
    <3> HIDE DEF parts, listed
    <3> QED BY <1>5, <1>6, <2>1, <3>1
  <2>2. CASE ~listed
    <3>1. parts = flat
      BY <2>2
    <3>2. Nat \ {0} \subseteq Nat
      OBVIOUS
    <3> HIDE DEF parts, flat
    <3>3. flat \in Seq(Nat)
      BY <1>10, <2>2, <3>2, SeqMonotonic
    <3> QED BY <1>10, <2>2, <3>1, <3>3
  <2> QED BY <2>1, <2>2
<1> HIDE DEF u, length, header, parts, breaks, cites
<1>13. u \in Unit
  BY <1>1, <1>2, <1>7, <1>8, <1>9, <1>11, <1>12 DEF Unit
<1>14. ~Structural(u) => ~listed
  BY <1>1 DEF Structural
<1>15. u \in Whole
  BY <1>1, <1>12, <1>13, <1>14 DEF Whole
<1> QED BY <1>1, <1>15 DEF u, cites

\* A path under a new heading.
LEMMA PathUpdated ==
  ASSUME NEW path \in Seq(Lexicon), NEW level \in 1 .. 6, NEW tok \in Lexicon
  PROVE  /\ UpdatePath(path, level, tok) \in Seq(Lexicon)
         /\ Len(UpdatePath(path, level, tok)) \in 1 .. level
         /\ UpdatePath(path, level, tok)[Len(UpdatePath(path, level, tok))] = tok
         /\ \A q \in 1 .. Len(path) : q < level =>
                q \in 1 .. Len(UpdatePath(path, level, tok)) /\ UpdatePath(path, level, tok)[q] = path[q]
<1> DEFINE n == IF level - 1 < Len(path) THEN level - 1 ELSE Len(path)
           b == SubSeq(path, 1, n)
           new == Append(b, tok)
<1>1. UpdatePath(path, level, tok) = new
  BY DEF UpdatePath
<1>2. n \in Nat /\ n <= level - 1 /\ n <= Len(path)
  OBVIOUS
<1>3. \A q \in 1 .. Len(path) : q < level => q \in 1 .. n
  OBVIOUS
<1> HIDE DEF n
<1>4. b \in Seq(Lexicon) /\ Len(b) = n /\ \A i \in 1 .. n : b[i] = path[i]
  <2>1. 1 \in Int /\ n \in Int /\ \A i \in 1 .. n : path[i] \in Lexicon
    BY <1>2
  <2>2. b \in Seq(Lexicon) /\ Len(b) = (IF 1 <= n THEN n - 1 + 1 ELSE 0) /\ \A i \in 1 .. n - 1 + 1 : b[i] = path[1 + i - 1]
    BY <2>1, SubSeqProperties
  <2> HIDE DEF b
  <2>3. \A i \in 1 .. n : 1 + i - 1 = i /\ i \in 1 .. n - 1 + 1
    BY <1>2
  <2>4. Len(b) = n
    BY <1>2, <2>2
  <2> QED BY <2>2, <2>3, <2>4
<1> HIDE DEF b
<1>5. /\ new \in Seq(Lexicon) /\ Len(new) = n + 1 /\ new[n + 1] = tok
      /\ \A i \in 1 .. n : new[i] = b[i]
  BY <1>4, AppendProperties
<1> HIDE DEF new
<1>6. Len(new) \in 1 .. level /\ new[Len(new)] = tok
  BY <1>2, <1>5
<1>7. ASSUME NEW q \in 1 .. Len(path), q < level PROVE q \in 1 .. Len(new) /\ new[q] = path[q]
  <2>1. q \in 1 .. n
    BY <1>3, <1>7
  <2> QED BY <1>2, <1>4, <1>5, <2>1
<1> QED BY <1>1, <1>5, <1>6, <1>7

\* The path in force after a number of blocks.
Trail(blocks, i) == IF i = 0 THEN <<>> ELSE blocks[i].path

\* A heading updates the path; nothing is left of one that cleaning excludes.
Opens(b, before) ==
    \E tok \in Lexicon :
        /\ b.level \in 1 .. 6 /\ b.path = UpdatePath(before, b.level, tok)
        /\ IF b.excluded THEN Clean[tok] = NoText ELSE b.text[1] = Clean[tok]

\* A clean document: what it includes shows something, and its paths follow its headings.
TidyAt(blocks, i) ==
    /\ blocks[i].id = i /\ InLines(blocks[i])
    /\ blocks[i].excluded \/ blocks[i].kind = "image_ref" \/ ~Blank(blocks[i])
    /\ IF blocks[i].kind = "heading" THEN Opens(blocks[i], Trail(blocks, i - 1))
       ELSE blocks[i].path = Trail(blocks, i - 1)
Tidy(blocks) == blocks \in Seq(Block) /\ \A i \in 1 .. Len(blocks) : TidyAt(blocks, i)

\* A heading in force at a level is named by a path, unless nothing is left of one.
Stands(blocks, id, path, l) == \E q \in 1 .. Len(path) : q <= l /\ Clean[path[q]] \in {blocks[id].text[1], NoText}
HeadsFit(blocks, h, path) == \A l \in 1 .. 6 : h[l] = 0 \/ Stands(blocks, h[l], path, l)

LEMMA HeadingOpens ==
  ASSUME NEW blocks, NEW b, NEW before \in Seq(Lexicon), Opens(b, before), NEW h \in [1 .. 6 -> Nat],
         HeadsFit(blocks, h, before), b = blocks[b.id], b.kind = "heading"
  PROVE  IF b.excluded THEN HeadsFit(blocks, h, b.path) ELSE HeadsFit(blocks, Heads(h, b), b.path)
<1> DEFINE path == b.path
           n == Len(path)
           level == b.level
<1>1. PICK tok \in Lexicon : /\ level \in 1 .. 6 /\ path = UpdatePath(before, level, tok)
                             /\ IF b.excluded THEN Clean[tok] = NoText ELSE b.text[1] = Clean[tok]
  BY DEF Opens
<1> DEFINE new == UpdatePath(before, level, tok)
<1>2. /\ Len(new) \in 1 .. level /\ new[Len(new)] = tok
      /\ \A q \in 1 .. Len(before) : q < level => q \in 1 .. Len(new) /\ new[q] = before[q]
  <2> HIDE DEF level
  <2> QED BY <1>1, PathUpdated
<1> HIDE DEF new
<1>3. /\ n \in 1 .. level /\ path[n] = tok
      /\ \A q \in 1 .. Len(before) : q < level => q \in 1 .. n /\ path[q] = before[q]
  BY <1>1, <1>2 DEF new
<1>4. level \in 1 .. 6 /\ n \in 1 .. n /\ n <= level
  <2>1. level \in 1 .. 6 /\ n \in 1 .. level
    BY <1>1, <1>3
  <2> HIDE DEF n, level
  <2> QED BY <2>1
<1> DEFINE now == Heads(h, b)
<1>5. now = [l \in 1 .. 6 |-> CASE l < level -> h[l] [] l = level -> b.id [] l > level -> 0]
  BY DEF Heads
<1>12. (b.excluded => Clean[tok] = NoText) /\ (~b.excluded => b.text[1] = Clean[tok])
  BY <1>1
<1> HIDE DEF path, n, level, now
<1>6. ASSUME NEW l \in 1 .. 6, h[l] # 0, l < level PROVE Stands(blocks, h[l], path, l)
  <2>1. PICK q \in 1 .. Len(before) : q <= l /\ Clean[before[q]] \in {blocks[h[l]].text[1], NoText}
    BY <1>6 DEF HeadsFit, Stands
  <2>2. q < level
    <3>1. q \in Nat /\ q <= l
      <4>1. q \in Nat
        OBVIOUS
      <4> QED BY <2>1, <4>1
    <3>2. l < level /\ level \in Nat
      BY <1>4, <1>6
    <3> QED BY <3>1, <3>2
  <2>3. q \in 1 .. n /\ path[q] = before[q]
    BY <1>3, <2>2
  <2> QED BY <2>1, <2>3 DEF Stands, n
<1>7. CASE b.excluded
  <2>1. ASSUME NEW l \in 1 .. 6, h[l] # 0 PROVE Stands(blocks, h[l], path, l)
    <3>1. CASE l < level
      BY <1>6, <2>1, <3>1
    <3>2. CASE ~(l < level)
      <4>1. n <= l
        <5>1. n \in Nat /\ n <= level /\ level \in Nat
          BY <1>4
        <5> QED BY <3>2, <5>1
      <4>2. Clean[path[n]] = NoText
        BY <1>3, <1>7, <1>12
      <4> QED BY <1>4, <4>1, <4>2 DEF Stands, n
    <3> QED BY <3>1, <3>2
  <2> QED BY <1>7, <2>1 DEF HeadsFit, path
<1>8. CASE ~b.excluded
  <2>1. ASSUME NEW l \in 1 .. 6, now[l] # 0 PROVE Stands(blocks, now[l], path, l)
    <3>1. CASE l < level
      <4>1. now[l] = h[l]
        BY <1>4, <1>5, <3>1
      <4> QED BY <1>6, <2>1, <3>1, <4>1
    <3>2. CASE l = level
      <4>1. now[l] = b.id /\ ~(l < level)
        BY <1>4, <1>5, <3>2
      <4>2. Clean[path[n]] = blocks[b.id].text[1]
        BY <1>3, <1>8, <1>12
      <4> QED BY <1>4, <3>2, <4>1, <4>2 DEF Stands, n
    <3>3. CASE l > level
      <4>1. now[l] = 0
        BY <1>4, <1>5, <3>3
      <4> QED BY <2>1, <4>1
    <3> QED BY <1>4, <3>1, <3>2, <3>3
  <2>2. HeadsFit(blocks, now, path)
    BY <2>1 DEF HeadsFit
  <2> QED BY <1>8, <2>2 DEF now, path
<1> QED BY <1>7, <1>8

\* The units after each block of a document.
Gathering(s, base) == FoldLeft(AddUnit, base, s)
GatheringIn(A, L, s, base) ==
    base \in A /\ L \in Nat /\ DOMAIN s = 1 .. L /\ \A a \in A : \A k \in 1 .. L : AddUnit(a, s[k]) \in A
GatheringRuns(A, L, s, base) ==
    \E g \in [0 .. L -> A] : g[0] = base /\ Gathering(s, base) = g[L] /\ \A k \in 1 .. L : g[k] = AddUnit(g[k - 1], s[k])

LEMMA GatheringTrace ==
  ASSUME NEW A, NEW base, NEW L, NEW s, GatheringIn(A, L, s, base)
  PROVE  GatheringRuns(A, L, s, base)
<1> DEFINE H == [p \in A \X (1 .. L) |-> AddUnit(p[1], s[p[2]])]
           F(it) == [x \in SUBSET (1 .. L) |-> IF x = {} THEN base ELSE AddUnit(it[x \ {Max(x)}], s[Max(x)])]
           f == CHOOSE it : it = F(it)
<1>0. base \in A /\ L \in Nat /\ DOMAIN s = 1 .. L
  BY DEF GatheringIn
<1>1. H \in [A \X (1 .. L) -> A]
  BY <1>0 DEF GatheringIn
<1>2. \A a \in A : \A k \in 1 .. L : H[<<a, k>>] = AddUnit(a, s[k])
  OBVIOUS
<1>3. \A x \in SUBSET (1 .. L) : x # {} => Max(x) \in 1 .. L /\ x \ {Max(x)} \in SUBSET (1 .. L)
  BY <1>0, PlacesMax
<1>4. \E it : it = F(it)
  <2>1. PICK it \in [SUBSET (1 .. L) -> A] : FoldsSets(it, base, L, H)
    <3> HIDE DEF H
    <3> QED BY <1>0, <1>1, Recursion
  <2>2. it[{}] = base /\ \A x \in SUBSET (1 .. L) : x # {} => it[x] = H[<<it[x \ {Max(x)}], Max(x)>>]
    <3> HIDE DEF H
    <3> QED BY <2>1 DEF FoldsSets
  <2>3. ASSUME NEW x \in SUBSET (1 .. L), x # {} PROVE it[x] = AddUnit(it[x \ {Max(x)}], s[Max(x)])
    <3> HIDE DEF H
    <3> QED BY <1>2, <1>3, <2>2, <2>3
  <2>4. it = F(it)
    <3> HIDE DEF H
    <3> QED BY <2>2, <2>3
  <2> QED BY <2>4
<1>5. f = F(f)
  <2> HIDE DEF F, H
  <2> QED BY <1>4
<1>6. Gathering(s, base) = f[1 .. L]
  BY <1>0 DEF Gathering, FoldLeft, MapThenFoldSet
<1>7. f[{}] = base /\ \A x \in SUBSET (1 .. L) : x # {} => f[x] = AddUnit(f[x \ {Max(x)}], s[Max(x)])
  <2> HIDE DEF f, H
  <2> QED BY <1>5
<1> HIDE DEF f, F, H
<1>8. FoldsFrom(f, A, L, H)
  BY <1>2, <1>3, <1>7 DEF FoldsFrom
<1>9. f[{}] = base
  BY <1>7
<1>10. Unfolds(f, A, base, L, H)
  BY <1>0, <1>1, <1>8, <1>9 DEF Unfolds
<1>11. PICK g \in [0 .. L -> A] : Follows(g, base, L, H) /\ f[1 .. L] = g[L]
  BY <1>10, Unfolding DEF Unfolded
<1>12. \A k \in 1 .. L : g[k] = AddUnit(g[k - 1], s[k])
  <2> SUFFICES ASSUME NEW k \in 1 .. L PROVE g[k] = AddUnit(g[k - 1], s[k])
    OBVIOUS
  <2>1. g[k - 1] \in A /\ g[k] = H[<<g[k - 1], k>>]
    BY <1>0, <1>11 DEF Follows
  <2> QED BY <2>1, <1>2
<1> QED BY <1>6, <1>11, <1>12 DEF Follows, GatheringRuns

\* What a unit cites is named by its path.
Names(blocks, id, path) ==
    LET named == {Clean[t] : t \in ToSet(path)} IN blocks[id].text[1] \in named \/ NoText \in named
Cited(blocks, u) == \A id \in u.cites \ {u.block} : Names(blocks, id, u.path)

\* The units of the first k blocks.
Gathered == [heads : [1 .. 6 -> Nat], units : Seq(Whole)]
Telling(blocks, k) == {i \in 1 .. k : ~(blocks[i].excluded \/ blocks[i].kind = "image_ref")}
UnitsUpTo(blocks, acc, k) ==
    /\ acc \in Gathered /\ HeadsFit(blocks, acc.heads, Trail(blocks, k))
    /\ \A u \in ToSet(acc.units) : Cited(blocks, u)
    /\ {u.block : u \in ToSet(acc.units)} = Telling(blocks, k)

LEMMA SetAppend ==
  ASSUME NEW E, NEW s \in Seq(E), NEW e \in E
  PROVE  ToSet(Append(s, e)) = ToSet(s) \cup {e} /\ Append(s, e) \in Seq(E)
<1> DEFINE new == Append(s, e)
<1>1. /\ new \in Seq(E) /\ DOMAIN new = 1 .. Len(s) + 1 /\ DOMAIN s = 1 .. Len(s) /\ Len(s) \in Nat
      /\ new[Len(s) + 1] = e /\ \A i \in 1 .. Len(s) : new[i] = s[i]
  BY AppendProperties
<1>2. \A i : i \in 1 .. Len(s) + 1 <=> i \in 1 .. Len(s) \/ i = Len(s) + 1
  BY <1>1
<1> HIDE DEF new
<1>3. ToSet(new) = ToSet(s) \cup {e}
  BY <1>1, <1>2 DEF ToSet
<1> QED BY <1>1, <1>3 DEF new

LEMMA HeadsNow ==
  ASSUME NEW b \in Block, NEW h \in [1 .. 6 -> Nat]
  PROVE  Heads(h, b) \in [1 .. 6 -> Nat]
<1>1. b.id \in Nat
  BY DEF Block
<1> DEFINE n == b.id
           level == b.level
<1> HIDE DEF n, level
<1>2. [l \in 1 .. 6 |-> CASE l < level -> h[l] [] l = level -> n [] l > level -> 0] \in [1 .. 6 -> Nat]
  <2>0. level \in 0 .. 6
    BY DEF level, Block
  <2>1. ASSUME NEW l \in 1 .. 6 PROVE (CASE l < level -> h[l] [] l = level -> n [] l > level -> 0) \in Nat
    <3>1. l < level \/ (l = level /\ ~(l < level)) \/ (l > level /\ ~(l < level) /\ l # level)
      BY <2>0
    <3> QED BY <1>1, <3>1 DEF n
  <2> QED BY <2>1
<1> QED BY <1>2 DEF Heads, n, level

LEMMA BlockGathered ==
  ASSUME NEW b \in Block, InLines(b), NEW acc \in Gathered
  PROVE  AddUnit(acc, b) \in Gathered
<1> DEFINE h == Heads(acc.heads, b)
           us == acc.units
<1>1. acc.heads \in [1 .. 6 -> Nat] /\ us \in Seq(Whole)
  BY DEF Gathered
<1>2. h \in [1 .. 6 -> Nat]
  BY <1>1, HeadsNow
<1> HIDE DEF h
<1> DEFINE hs == {h[l] : l \in 1 .. 6}
           new == IF Blank(b) THEN us ELSE Append(us, UnitOf(b, hs))
<1>3. AddUnit(acc, b) = IF b.excluded \/ b.kind = "image_ref" THEN acc ELSE [heads |-> h, units |-> new]
  BY DEF AddUnit, h
<1>4. hs \in SUBSET Nat
  BY <1>2
<1> HIDE DEF hs, us
<1>5. new \in Seq(Whole)
  <2>1. CASE Blank(b)
    BY <1>1, <2>1
  <2>2. CASE ~Blank(b)
    <3>1. UnitOf(b, hs) \in Whole
      BY <1>4, <2>2, UnitMade
    <3> QED BY <1>1, <2>2, <3>1, AppendProperties
  <2> QED BY <2>1, <2>2
<1> HIDE DEF new
<1>6. [heads |-> h, units |-> new] \in Gathered
  BY <1>2, <1>5 DEF Gathered
<1> QED BY <1>3, <1>6

LEMMA UnitTurn ==
  ASSUME NEW blocks, Tidy(blocks), NEW k \in 1 .. Len(blocks), NEW acc, UnitsUpTo(blocks, acc, k - 1)
  PROVE  UnitsUpTo(blocks, AddUnit(acc, blocks[k]), k)
<1> DEFINE b == blocks[k]
           before == Trail(blocks, k - 1)
           gone == b.excluded \/ b.kind = "image_ref"
           h == Heads(acc.heads, b)
           us == acc.units
           new == AddUnit(acc, b)
<1>1. blocks \in Seq(Block) /\ b \in Block /\ TidyAt(blocks, k) /\ Len(blocks) \in Nat
  BY DEF Tidy
<1>2. b.id = k /\ InLines(b) /\ (gone \/ ~Blank(b)) /\ b.path \in Seq(Lexicon)
  <2>1. b.path \in Seq(Lexicon)
    BY <1>1 DEF Block
  <2> QED BY <1>1, <2>1 DEF TidyAt
<1>3. before \in Seq(Lexicon)
  <2>1. CASE k = 1
    <3>1. k - 1 = 0
      BY <2>1
    <3> QED BY <3>1 DEF Trail
  <2>2. CASE k # 1
    <3>1. k - 1 \in 1 .. Len(blocks) /\ k - 1 # 0
      BY <2>2
    <3>2. blocks[k - 1] \in Block
      BY <1>1, <3>1
    <3> QED BY <3>1, <3>2 DEF Trail, Block
  <2> QED BY <2>1, <2>2
<1>4. Trail(blocks, k) = b.path
  BY DEF Trail
<1>5. acc \in Gathered /\ acc.heads \in [1 .. 6 -> Nat] /\ us \in Seq(Whole) /\ HeadsFit(blocks, acc.heads, before)
  BY DEF UnitsUpTo, Gathered
<1>6. /\ \A u \in ToSet(us) : Cited(blocks, u)
      /\ {u.block : u \in ToSet(us)} = Telling(blocks, k - 1)
  BY DEF UnitsUpTo
<1>7. new \in Gathered
  BY <1>1, <1>2, <1>5, BlockGathered
<1>8. IF gone THEN HeadsFit(blocks, acc.heads, b.path) ELSE HeadsFit(blocks, h, b.path)
  <2>1. CASE b.kind = "heading"
    <3>1. Opens(b, before) /\ b = blocks[b.id] /\ (gone <=> b.excluded)
      BY <1>1, <1>2, <2>1 DEF TidyAt
    <3> DEFINE hs == acc.heads
    <3>2. hs \in [1 .. 6 -> Nat] /\ HeadsFit(blocks, hs, before)
      BY <1>5
    <3> HIDE DEF b, before, gone, hs
    <3>3. IF b.excluded THEN HeadsFit(blocks, hs, b.path) ELSE HeadsFit(blocks, Heads(hs, b), b.path)
      BY <1>3, <2>1, <3>1, <3>2, HeadingOpens
    <3> QED BY <3>1, <3>3 DEF hs
  <2>2. CASE b.kind # "heading"
    <3>1. b.path = before /\ h = acc.heads
      BY <1>1, <2>2 DEF TidyAt, Heads
    <3> QED BY <1>5, <3>1
  <2> QED BY <2>1, <2>2
<1>9. Telling(blocks, k) = IF gone THEN Telling(blocks, k - 1) ELSE Telling(blocks, k - 1) \cup {k}
  <2>1. \A i : i \in 1 .. k <=> i \in 1 .. k - 1 \/ i = k
    OBVIOUS
  <2>2. \A i \in 1 .. k - 1 : i # k
    OBVIOUS
  <2> QED BY <2>1, <2>2 DEF Telling
<1>10. CASE gone
  <2>1. new = acc
    BY <1>10 DEF AddUnit
  <2> HIDE DEF gone, new
  <2> QED BY <1>4, <1>5, <1>6, <1>8, <1>9, <1>10, <2>1 DEF UnitsUpTo, new
<1>11. CASE ~gone
  <2> DEFINE hs == {h[l] : l \in 1 .. 6}
             u == UnitOf(b, hs)
             more == Append(us, u)
  <2>1. new = [heads |-> h, units |-> more]
    BY <1>2, <1>11 DEF AddUnit
  <2>2. hs \in SUBSET Nat /\ h \in [1 .. 6 -> Nat]
    <3>1. h \in [1 .. 6 -> Nat]
      BY <1>1, <1>5, HeadsNow
    <3> QED BY <3>1
  <2>3. u \in Whole /\ u.block = k /\ u.path = b.path /\ u.cites = (hs \ {0}) \cup {k}
    <3> HIDE DEF hs, b
    <3> QED BY <1>1, <1>2, <1>11, <2>2, UnitMade
  <2>4. HeadsFit(blocks, h, b.path)
    BY <1>8, <1>11
  <2>5. Cited(blocks, u)
    <3> SUFFICES ASSUME NEW id \in u.cites \ {u.block} PROVE Names(blocks, id, b.path)
      BY <2>3 DEF Cited
    <3>1. PICK l \in 1 .. 6 : id = h[l] /\ h[l] # 0
      BY <2>3
    <3> HIDE DEF h, b
    <3>2. Stands(blocks, id, b.path, l)
      BY <2>4, <3>1 DEF HeadsFit
    <3>3. PICK q \in 1 .. Len(b.path) : Clean[b.path[q]] \in {blocks[id].text[1], NoText}
      BY <3>2 DEF Stands
    <3>4. b.path[q] \in ToSet(b.path)
      BY <1>2 DEF ToSet
    <3> QED BY <3>3, <3>4 DEF Names
  <2> HIDE DEF u, hs
  <2>6. ToSet(more) = ToSet(us) \cup {u} /\ more \in Seq(Whole)
    BY <1>5, <2>3, SetAppend
  <2>7. \A v \in ToSet(more) : Cited(blocks, v)
    BY <1>6, <2>5, <2>6
  <2>8. {v.block : v \in ToSet(more)} = Telling(blocks, k)
    <3>1. {v.block : v \in ToSet(more)} = {v.block : v \in ToSet(us)} \cup {u.block}
      BY <2>6
    <3> QED BY <1>6, <1>9, <1>11, <2>3, <3>1
  <2> HIDE DEF more, h, new, us
  <2> QED BY <1>4, <1>7, <2>1, <2>4, <2>7, <2>8 DEF UnitsUpTo, new
<1> QED BY <1>10, <1>11

\* The units of a clean document: each has its size and its parts, cites what its
\* path names, and they are of the blocks that tell something.
UnitsFit(blocks, us) ==
    /\ us \in Seq(Whole) /\ \A u \in ToSet(us) : Cited(blocks, u)
    /\ {u.block : u \in ToSet(us)} = Telling(blocks, Len(blocks))

LEMMA UnitsGathered ==
  ASSUME NEW d, Tidy(d.blocks)
  PROVE  UnitsFit(d.blocks, SemanticUnits(d))
<1> DEFINE blocks == d.blocks
           L == Len(blocks)
           none == [l \in 1 .. 6 |-> 0]
           base == [heads |-> none, units |-> <<>>]
<1>1. SemanticUnits(d) = Gathering(blocks, base).units
  BY DEF SemanticUnits, Gathering
<1>2. Tidy(blocks)
  OBVIOUS
<1> HIDE DEF blocks
<1>3. L \in Nat /\ DOMAIN blocks = 1 .. L /\ \A k \in 1 .. L : blocks[k] \in Block /\ InLines(blocks[k])
  BY <1>2 DEF Tidy, TidyAt
<1>4. none \in [1 .. 6 -> Nat] /\ <<>> \in Seq(Whole)
  OBVIOUS
<1>5. base \in Gathered /\ base.heads = none /\ base.units = <<>>
  <2> HIDE DEF none
  <2> QED BY <1>4 DEF Gathered
<1>6. UnitsUpTo(blocks, base, 0)
  <2>1. HeadsFit(blocks, none, Trail(blocks, 0))
    BY DEF HeadsFit
  <2>2. ToSet(<<>>) = {} /\ Telling(blocks, 0) = {}
    BY DEF ToSet, Telling
  <2> HIDE DEF base, none
  <2> QED BY <1>5, <2>1, <2>2 DEF UnitsUpTo
<1> HIDE DEF base, L
<1>7. GatheringIn(Gathered, L, blocks, base)
  BY <1>3, <1>5, BlockGathered DEF GatheringIn
<1>8. GatheringRuns(Gathered, L, blocks, base)
  BY <1>7, GatheringTrace
<1>9. PICK g \in [0 .. L -> Gathered] : /\ g[0] = base /\ Gathering(blocks, base) = g[L]
                                        /\ \A k \in 1 .. L : g[k] = AddUnit(g[k - 1], blocks[k])
  BY <1>8 DEF GatheringRuns
<1> DEFINE T == {k \in 0 .. L : UnitsUpTo(blocks, g[k], k)}
<1>10. 0 \in T
  BY <1>3, <1>6, <1>9
<1>11. ASSUME NEW k \in 1 .. L, k - 1 \in T PROVE k \in T
  <2> DEFINE acc == g[k - 1]
  <2>1. k \in 1 .. Len(blocks) /\ UnitsUpTo(blocks, acc, k - 1) /\ g[k] = AddUnit(acc, blocks[k]) /\ k \in 0 .. L
    BY <1>3, <1>9, <1>11 DEF L
  <2> HIDE DEF acc
  <2>2. UnitsUpTo(blocks, AddUnit(acc, blocks[k]), k)
    BY <1>2, <2>1, UnitTurn
  <2> QED BY <2>1, <2>2
<1>12. UnitsUpTo(blocks, g[L], L)
  <2>1. 0 .. L \subseteq T
    <3> HIDE DEF T
    <3> QED BY <1>3, <1>10, <1>11, Induct
  <2>2. L \in 0 .. L
    BY <1>3
  <2> QED BY <2>1, <2>2
<1>13. g[L].units \in Seq(Whole)
  BY <1>12 DEF UnitsUpTo, Gathered
<1> QED BY <1>1, <1>9, <1>12, <1>13 DEF UnitsUpTo, UnitsFit, L, blocks

-----------------------------------------------------------------------------
(* What cleaning makes of a block (DocumentChunks).                         *)

LEMMA FilledMade ==
  ASSUME NEW words \in Seq(Marks)
  PROVE  Filled(words) \in Seq(Lexicon) /\ Filled(words) \in Seq(Marks) /\ NoText \notin ToSet(Filled(words))
<1> DEFINE each == [i \in DOMAIN words |-> IF words[i] = NoText THEN <<>> ELSE <<words[i]>>]
           L == Len(words)
           flat == FlattenSeq(each)
<1>1. L \in Nat /\ DOMAIN words = 1 .. L /\ DOMAIN each = 1 .. L /\ Filled(words) = flat
  BY DEF Filled
<1>2. ASSUME NEW i \in 1 .. L PROVE each[i] \in Seq(Lexicon)
  <2> DEFINE t == words[i]
  <2>1. t \in Marks /\ each[i] = IF t = NoText THEN <<>> ELSE <<t>>
    BY <1>1
  <2> HIDE DEF t, each
  <2>2. CASE t = NoText
    BY <2>1, <2>2
  <2>3. CASE t # NoText
    <3>1. t \in Lexicon
      BY <2>1, <2>3 DEF Marks
    <3> QED BY <2>1, <2>3, <3>1
  <2> QED BY <2>2, <2>3
<1>3. each \in Seq(Seq(Lexicon))
  <2> DEFINE S == Seq(Lexicon)
  <2>1. each \in [1 .. L -> S]
    BY <1>1, <1>2
  <2> HIDE DEF S, each, L
  <2>2. each \in Seq(S)
    BY <1>1, <2>1
  <2> QED BY <2>2 DEF S
<1> HIDE DEF each
<1>4. flat \in Seq(Lexicon)
  <2>1. <<>> \in Seq(Lexicon)
    OBVIOUS
  <2> QED BY <1>3, <2>1, FlattenAppend
<1> HIDE DEF flat
<1>5. Lexicon \subseteq Marks /\ NoText \notin Lexicon
  BY IngestAssumption DEF Marks
<1>6. flat \in Seq(Marks)
  BY <1>4, <1>5, SeqMonotonic
<1>7. NoText \notin ToSet(flat)
  BY <1>4, <1>5 DEF ToSet
<1> QED BY <1>1, <1>4, <1>6, <1>7

LEMMA FilledOne ==
  ASSUME NEW t \in Marks
  PROVE  Filled(<<t>>) = IF t = NoText THEN <<>> ELSE <<t>>
<1> DEFINE words == <<t>>
           one == IF t = NoText THEN <<>> ELSE <<t>>
           each == [i \in DOMAIN words |-> IF words[i] = NoText THEN <<>> ELSE <<words[i]>>]
<1>1. Filled(words) = FlattenSeq(each)
  BY DEF Filled
<1>2. each = <<one>>
  OBVIOUS
<1>3. one \in Seq(Marks)
  OBVIOUS
<1> HIDE DEF one, each
<1>4. FlattenSeq(<<one>>) = one
  BY <1>3, FlattenOne
<1> QED BY <1>1, <1>2, <1>4 DEF one

LEMMA CleanedText ==
  ASSUME NEW words \in Seq(Marks)
  PROVE  NormText(words) \in Seq(Marks)
<1> DEFINE new == NormText(words)
           L == Len(words)
<1>1. L \in Nat /\ DOMAIN words = 1 .. L /\ new = [i \in DOMAIN words |-> IF words[i] = NoText THEN NoText ELSE Clean[words[i]]]
  BY DEF NormText
<1> HIDE DEF new
<1>2. ASSUME NEW i \in 1 .. L PROVE new[i] \in Marks
  <2> DEFINE t == words[i]
  <2>1. t \in Marks /\ new[i] = IF t = NoText THEN NoText ELSE Clean[t]
    BY <1>1
  <2> HIDE DEF t
  <2>2. t \in Lexicon => Clean[t] \in Marks
    BY IngestAssumption DEF Marks
  <2> QED BY <2>1, <2>2 DEF Marks
<1>3. new \in [1 .. L -> Marks]
  BY <1>1, <1>2
<1> HIDE DEF L
<1>4. new \in Seq(Marks)
  BY <1>1, <1>3
<1> QED BY <1>4 DEF new

\* A block but for its text.
SamePlace(a, b) == a.id = b.id /\ a.kind = b.kind /\ a.level = b.level /\ a.path = b.path /\ a.page = b.page

LEMMA BlockNormalized ==
  ASSUME NEW b \in Block
  PROVE  /\ NormalizeBlock(b) \in Block /\ SamePlace(NormalizeBlock(b), b) /\ InLines(NormalizeBlock(b))
         /\ NormalizeBlock(b).excluded = b.excluded /\ NormalizeBlock(b).reason = b.reason
         /\ b.kind = "heading" => NormalizeBlock(b).text = Filled(NormText(b.text))
<1> DEFINE words == b.text
           new == IF b.kind \in {"list", "table"} THEN NormText(words) ELSE Filled(NormText(words))
           n == [b EXCEPT !.text = new]
<1>1. NormalizeBlock(b) = n
  BY DEF NormalizeBlock
<1>2. words \in Seq(Marks)
  BY DEF Block
<1>3. NormText(words) \in Seq(Marks)
  <2> HIDE DEF words
  <2> QED BY <1>2, CleanedText
<1>4. Filled(NormText(words)) \in Seq(Marks) /\ NoText \notin ToSet(Filled(NormText(words)))
  BY <1>3, FilledMade
<1>5. new \in Seq(Marks) /\ (b.kind \notin {"list", "table"} => NoText \notin ToSet(new))
  BY <1>3, <1>4
<1>6. b.kind = "heading" => new = Filled(NormText(words))
  OBVIOUS
<1> HIDE DEF new, words
<1>7. n \in Block
  BY <1>5 DEF Block
<1>8. /\ n.text = new /\ n.id = b.id /\ n.kind = b.kind /\ n.level = b.level /\ n.path = b.path /\ n.page = b.page
      /\ n.excluded = b.excluded /\ n.reason = b.reason
  BY DEF Block
<1> HIDE DEF n
<1>9. InLines(n)
  BY <1>5, <1>8 DEF InLines
<1> QED BY <1>1, <1>6, <1>7, <1>8, <1>9 DEF SamePlace, words

LEMMA BlockExcluded ==
  ASSUME NEW b \in Block, NEW reason \in Reasons
  PROVE  /\ Exclude(b, reason) \in Block /\ SamePlace(Exclude(b, reason), b) /\ Exclude(b, reason).text = b.text
         /\ Exclude(b, reason).excluded /\ Exclude(b, reason).reason = reason
<1> DEFINE n == [b EXCEPT !.excluded = TRUE, !.reason = reason]
<1>1. n \in Block
  BY DEF Block
<1>2. n.id = b.id /\ n.kind = b.kind /\ n.level = b.level /\ n.path = b.path /\ n.page = b.page /\ n.text = b.text
  BY DEF Block
<1>3. n.excluded = TRUE /\ n.reason = reason
  BY DEF Block
<1> HIDE DEF n
<1> QED BY <1>1, <1>2, <1>3 DEF Exclude, n, SamePlace

\* The blocks after the empty ones were marked, and after the furniture was removed.
Marked(blocks) ==
    [i \in DOMAIN blocks |-> IF Blank(blocks[i]) /\ blocks[i].kind # "image_ref"
                             THEN Exclude(blocks[i], "empty_after_cleaning") ELSE blocks[i]]
Cleaned(format, marked) == IF format = "pdf" THEN RemoveFurniture(marked).blocks ELSE marked

\* What cleaning does to one block: an excluded one shows nothing or is furniture.
CleanedAt(format, marked, n, c, i) ==
    /\ c \in Block /\ SamePlace(c, n) /\ c.text = n.text
    /\ c.excluded \/ c.kind = "image_ref" \/ ~Blank(c)
    /\ c.excluded => Blank(c) \/ format = "pdf"
    /\ c.reason = "repeated_header" => i \in Furniture(marked, "header")
    /\ c.reason = "repeated_footer" => i \in Furniture(marked, "footer")

LEMMA BlockMarked ==
  ASSUME NEW blocks, NEW i \in DOMAIN blocks, blocks[i] \in Block, ~blocks[i].excluded, blocks[i].reason = "none",
         NEW format
  PROVE  CleanedAt(format, Marked(blocks), blocks[i], Marked(blocks)[i], i)
<1> DEFINE b == blocks[i]
           m == Marked(blocks)[i]
           empty == Blank(b) /\ b.kind # "image_ref"
<1>1. m = IF empty THEN Exclude(b, "empty_after_cleaning") ELSE b
  BY DEF Marked
<1>2. b \in Block /\ ~b.excluded /\ b.reason = "none" /\ "empty_after_cleaning" \in Reasons
  BY DEF Reasons
<1> HIDE DEF b, m
<1>3. CASE empty
  <2>1. /\ m \in Block /\ SamePlace(m, b) /\ m.text = b.text /\ m.excluded /\ m.reason = "empty_after_cleaning"
    BY <1>1, <1>2, <1>3, BlockExcluded
  <2>2. Blank(m)
    BY <1>3, <2>1 DEF Blank
  <2>3. m.reason # "repeated_header" /\ m.reason # "repeated_footer"
    BY <2>1
  <2> QED BY <2>1, <2>2, <2>3 DEF CleanedAt, b, m
<1>4. CASE ~empty
  <2>1. m = b
    BY <1>1, <1>4
  <2>2. m.reason # "repeated_header" /\ m.reason # "repeated_footer"
    BY <1>2, <2>1
  <2>3. m.kind = "image_ref" \/ ~Blank(m)
    BY <1>4, <2>1
  <2> QED BY <1>2, <2>1, <2>2, <2>3 DEF CleanedAt, SamePlace, b, m
<1> QED BY <1>3, <1>4

LEMMA BlockCleaned ==
  ASSUME NEW blocks, NEW i \in DOMAIN blocks, blocks[i] \in Block, ~blocks[i].excluded, blocks[i].reason = "none",
         NEW format
  PROVE  CleanedAt(format, Marked(blocks), blocks[i], Cleaned(format, Marked(blocks))[i], i)
<1> DEFINE b == blocks[i]
           marked == Marked(blocks)
           m == marked[i]
           c == Cleaned(format, marked)[i]
<1>1. CleanedAt(format, marked, b, m, i)
  BY BlockMarked
<1>2. i \in DOMAIN marked
  BY DEF Marked
<1>3. CASE format # "pdf"
  <2>1. c = m
    BY <1>3 DEF Cleaned
  <2> QED BY <1>1, <2>1
<1>4. CASE format = "pdf"
  <2> DEFINE foot == Furniture(marked, "footer")
             head == Furniture(marked, "header")
  <2>0. c = CASE i \in foot -> Exclude(m, "repeated_footer")
              [] i \in head \ foot -> Exclude(m, "repeated_header")
              [] OTHER -> m
    BY <1>2, <1>4 DEF Cleaned, RemoveFurniture
  <2> HIDE DEF c, m, b, marked, foot, head
  <2>1. m \in Block /\ SamePlace(m, b) /\ m.text = b.text
    BY <1>1 DEF CleanedAt
  <2>2. "repeated_footer" \in Reasons /\ "repeated_header" \in Reasons
    BY DEF Reasons
  <2>3. CASE i \in foot
    <3>1. c = Exclude(m, "repeated_footer")
      BY <2>0, <2>3
    <3>2. /\ c \in Block /\ SamePlace(c, m) /\ c.text = m.text /\ c.excluded /\ c.reason = "repeated_footer"
      BY <2>1, <2>2, <3>1, BlockExcluded
    <3>3. SamePlace(c, b)
      BY <2>1, <3>2 DEF SamePlace
    <3>4. c.reason # "repeated_header"
      BY <3>2
    <3> QED BY <1>4, <2>1, <2>3, <3>2, <3>3, <3>4 DEF CleanedAt, b, c, m, marked, foot
  <2>4. CASE i \in head /\ i \notin foot
    <3>1. c = Exclude(m, "repeated_header")
      BY <2>0, <2>4
    <3>2. /\ c \in Block /\ SamePlace(c, m) /\ c.text = m.text /\ c.excluded /\ c.reason = "repeated_header"
      BY <2>1, <2>2, <3>1, BlockExcluded
    <3>3. SamePlace(c, b)
      BY <2>1, <3>2 DEF SamePlace
    <3>4. c.reason # "repeated_footer"
      BY <3>2
    <3> QED BY <1>4, <2>1, <2>4, <3>2, <3>3, <3>4 DEF CleanedAt, b, c, m, marked, head
  <2>5. CASE i \notin head /\ i \notin foot
    <3>1. c = m
      BY <2>0, <2>5
    <3> QED BY <1>1, <3>1 DEF b, c, m, marked
  <2> QED BY <2>3, <2>4, <2>5
<1> QED BY <1>3, <1>4

-----------------------------------------------------------------------------
(* Documents that pass the validation (DocumentChunks).                     *)

Document(format, blocks, warnings, metrics) ==
    [error |-> "none", format |-> format, blocks |-> blocks, warnings |-> warnings, metrics |-> metrics]
Counts(input, normalized, included, n, told, hidden, pages) ==
    [input |-> input, normalized |-> normalized, included |-> included, blocks |-> n,
     includedBlocks |-> told, excludedBlocks |-> hidden, pages |-> pages]
Tally(old, new) ==
    Counts(Chars(old), Chars(new), IncludedChars(new), Len(new), Cardinality(Included(new)),
           Len(new) - Cardinality(Included(new)), Cardinality(Pages(new)))

WithBlocks(d, bs, ms) == [d EXCEPT !.blocks = bs, !.metrics = ms]
WithWarnings(d, bs, ws, ms) == [d EXCEPT !.blocks = bs, !.warnings = ws, !.metrics = ms]
Recounted(m, n, k) == [m EXCEPT !.normalized = n, !.included = k]

LEMMA DocumentWith ==
  ASSUME NEW format, NEW blocks, NEW warnings, NEW metrics, NEW bs, NEW ms
  PROVE  WithBlocks(Document(format, blocks, warnings, metrics), bs, ms)
            = Document(format, bs, warnings, ms)
<1> DEFINE d == Document(format, blocks, warnings, metrics)
           e == [d EXCEPT !.blocks = bs]
<1>1. e = Document(format, bs, warnings, metrics)
  BY DEF Document
<1>2. [d EXCEPT !.blocks = bs, !.metrics = ms] = [e EXCEPT !.metrics = ms]
  OBVIOUS
<1> HIDE DEF e
<1>3. [e EXCEPT !.metrics = ms] = Document(format, bs, warnings, ms)
  BY <1>1 DEF Document
<1> QED BY <1>2, <1>3 DEF d, WithBlocks

LEMMA DocumentWithWarnings ==
  ASSUME NEW format, NEW blocks, NEW warnings, NEW metrics, NEW bs, NEW ws, NEW ms
  PROVE  WithWarnings(Document(format, blocks, warnings, metrics), bs, ws, ms)
            = Document(format, bs, ws, ms)
<1> DEFINE d == Document(format, blocks, warnings, metrics)
           e == [d EXCEPT !.blocks = bs]
           f == [e EXCEPT !.warnings = ws]
<1>1. e = Document(format, bs, warnings, metrics)
  BY DEF Document
<1>2. [d EXCEPT !.blocks = bs, !.warnings = ws, !.metrics = ms] = [f EXCEPT !.metrics = ms]
  OBVIOUS
<1> HIDE DEF e
<1>3. f = Document(format, bs, ws, metrics)
  BY <1>1 DEF Document
<1> HIDE DEF f
<1>4. [f EXCEPT !.metrics = ms] = Document(format, bs, ws, ms)
  BY <1>3 DEF Document
<1> QED BY <1>2, <1>4 DEF d, WithWarnings

LEMMA CountsWith ==
  ASSUME NEW a, NEW b, NEW c, NEW n, NEW x, NEW y, NEW z, NEW bb, NEW cc
  PROVE  Recounted(Counts(a, b, c, n, x, y, z), bb, cc) = Counts(a, bb, cc, n, x, y, z)
<1> DEFINE m == Counts(a, b, c, n, x, y, z)
           e == [m EXCEPT !.normalized = bb]
<1>1. e = Counts(a, bb, c, n, x, y, z)
  BY DEF Counts
<1>2. [m EXCEPT !.normalized = bb, !.included = cc] = [e EXCEPT !.included = cc]
  OBVIOUS
<1> HIDE DEF e
<1>3. [e EXCEPT !.included = cc] = Counts(a, bb, cc, n, x, y, z)
  BY <1>1 DEF Counts
<1> QED BY <1>2, <1>3 DEF m, Recounted

\* The metrics that Validate computes.
LEMMA MetricsTally ==
  ASSUME NEW bs
  PROVE  Metrics(bs) = Tally(bs, bs)
<1>1. {bs[i].page : i \in DOMAIN bs} = {b.page : b \in ToSet(bs)}
  BY DEF ToSet
<1> QED BY <1>1 DEF Metrics, Tally, Counts, Pages

\* What the schema bounds.
Bounded(blocks) ==
    Len(blocks) <= MaxBlocks /\ \A i \in DOMAIN blocks : blocks[i].id = i /\ Len(blocks[i].path) <= MaxDepth

LEMMA Valid ==
  ASSUME NEW format, NEW blocks, NEW warnings, NEW old, Bounded(blocks)
  PROVE  Validate(Document(format, blocks, warnings, Tally(old, blocks))) = Document(format, blocks, warnings, Tally(old, blocks))
<1> DEFINE m == Tally(old, blocks)
           d == Document(format, blocks, warnings, m)
<1>1. d.blocks = blocks /\ d.metrics = m
  BY DEF Document
<1>2. [m EXCEPT !.input = 0] = [Metrics(blocks) EXCEPT !.input = 0]
  <2>1. [Tally(old, blocks) EXCEPT !.input = 0] = [Tally(blocks, blocks) EXCEPT !.input = 0]
    BY DEF Tally, Counts
  <2> QED BY <2>1, MetricsTally
<1> HIDE DEF d, m
<1> QED BY <1>1, <1>2 DEF Validate, Bounded, d, m

\* Lists of blocks that differ in what the blocks show.
Aligned(new, old) ==
    DOMAIN new = DOMAIN old /\ Len(new) = Len(old) /\ \A i \in DOMAIN old : SamePlace(new[i], old[i])

LEMMA AlignedBlocks ==
  ASSUME NEW old, NEW new, Aligned(new, old)
  PROVE  (Bounded(old) => Bounded(new)) /\ Pages(new) = Pages(old)
<1>1. DOMAIN new = DOMAIN old /\ Len(new) = Len(old)
  BY DEF Aligned
<1>2. \A i \in DOMAIN old : new[i].id = old[i].id /\ new[i].path = old[i].path /\ new[i].page = old[i].page
  BY DEF Aligned, SamePlace
<1>3. Pages(new) = {new[i].page : i \in DOMAIN new} \ {0} /\ Pages(old) = {old[i].page : i \in DOMAIN old} \ {0}
  BY DEF Pages, ToSet
<1>4. {new[i].page : i \in DOMAIN new} = {old[i].page : i \in DOMAIN old}
  BY <1>1, <1>2
<1> QED BY <1>1, <1>2, <1>3, <1>4 DEF Bounded

\* What the parsers hand over.
Named(b, before) ==
    \E tok \in Lexicon : b.level \in 1 .. 6 /\ b.path = UpdatePath(before, b.level, tok) /\ b.text = <<tok>>
RawAt(blocks, i) ==
    /\ blocks[i].id = i /\ ~blocks[i].excluded /\ blocks[i].reason = "none"
    /\ IF blocks[i].kind = "heading" THEN Named(blocks[i], Trail(blocks, i - 1))
       ELSE blocks[i].path = Trail(blocks, i - 1)
Raw(blocks) == blocks \in Seq(Block) /\ \A i \in 1 .. Len(blocks) : RawAt(blocks, i)
Parsed(d) ==
    /\ d = Document(d.format, d.blocks, d.warnings, Tally(d.blocks, d.blocks))
    /\ Raw(d.blocks) /\ Bounded(d.blocks)
    /\ d.format = "pdf" => \A i \in DOMAIN d.blocks : d.blocks[i].kind # "heading"

Normed(blocks) == [i \in DOMAIN blocks |-> NormalizeBlock(blocks[i])]

LEMMA NormedBlocks ==
  ASSUME NEW blocks, Raw(blocks)
  PROVE  /\ Normed(blocks) \in Seq(Block) /\ Aligned(Normed(blocks), blocks)
         /\ \A i \in DOMAIN blocks : /\ Normed(blocks)[i] \in Block /\ Normed(blocks)[i] = NormalizeBlock(blocks[i])
                                     /\ ~Normed(blocks)[i].excluded /\ Normed(blocks)[i].reason = "none"
<1> DEFINE bs == Normed(blocks)
           L == Len(blocks)
<1>1. blocks \in Seq(Block) /\ L \in Nat /\ DOMAIN blocks = 1 .. L
  BY DEF Raw
<1>2. bs = [i \in 1 .. L |-> NormalizeBlock(blocks[i])]
  BY <1>1 DEF Normed
<1> HIDE DEF bs, L
<1>3. ASSUME NEW i \in 1 .. L
      PROVE  /\ bs[i] \in Block /\ bs[i] = NormalizeBlock(blocks[i]) /\ SamePlace(bs[i], blocks[i])
             /\ ~bs[i].excluded /\ bs[i].reason = "none"
  <2> DEFINE b == blocks[i]
             n == NormalizeBlock(b)
  <2>1. b \in Block /\ ~b.excluded /\ b.reason = "none"
    BY <1>1 DEF Raw, RawAt, L
  <2>2. bs[i] = n
    BY <1>2
  <2> HIDE DEF b
  <2>3. n \in Block /\ SamePlace(n, b) /\ n.excluded = b.excluded /\ n.reason = b.reason
    BY <2>1, BlockNormalized
  <2> HIDE DEF n
  <2>4. ~n.excluded
    BY <2>1, <2>3
  <2> QED BY <2>1, <2>2, <2>3, <2>4 DEF n, b
<1>4. bs \in [1 .. L -> Block]
  BY <1>2, <1>3
<1>5. bs \in Seq(Block) /\ Len(bs) = L /\ DOMAIN bs = 1 .. L
  <2> HIDE DEF L
  <2> QED BY <1>1, <1>4
<1> QED BY <1>1, <1>3, <1>5 DEF Aligned, bs, L

LEMMA DocumentNormalized ==
  ASSUME NEW d, Parsed(d)
  PROVE  Normalize(d) = Document(d.format, Normed(d.blocks), d.warnings, Tally(d.blocks, Normed(d.blocks)))
<1> DEFINE f == d.format
           old == d.blocks
           w == d.warnings
           bs == Normed(old)
           m == Tally(old, old)
           mm == [d.metrics EXCEPT !.normalized = Chars(bs), !.included = IncludedChars(bs)]
<1>1. d = Document(f, old, w, m) /\ Raw(old) /\ Bounded(old)
  BY DEF Parsed
<1>2. Normalize(d) = Validate([d EXCEPT !.blocks = bs, !.metrics = mm])
  BY DEF Normalize, Normed
<1>3. d.metrics = m
  BY <1>1 DEF Document
<1> HIDE DEF f, old, w, bs
<1>4. /\ Aligned(bs, old) /\ DOMAIN bs = DOMAIN old
      /\ \A i \in DOMAIN old : bs[i].excluded = FALSE /\ old[i].excluded = FALSE
  <2>1. Aligned(bs, old) /\ \A i \in DOMAIN old : ~bs[i].excluded /\ bs[i] \in Block
    BY <1>1, NormedBlocks DEF bs
  <2>2. DOMAIN bs = DOMAIN old
    BY <2>1 DEF Aligned
  <2>3. ASSUME NEW i \in DOMAIN old PROVE bs[i].excluded = FALSE /\ old[i].excluded = FALSE
    <3>1. ~bs[i].excluded /\ bs[i] \in Block
      BY <2>1
    <3>2. bs[i].excluded \in BOOLEAN
      BY <3>1 DEF Block
    <3>3. DOMAIN old = 1 .. Len(old) /\ old[i] \in Block
      BY <1>1 DEF Raw
    <3>4. ~old[i].excluded
      BY <1>1, <3>3 DEF Raw, RawAt
    <3>5. old[i].excluded \in BOOLEAN
      BY <3>3 DEF Block
    <3> QED BY <3>1, <3>2, <3>4, <3>5
  <2> QED BY <2>1, <2>2, <2>3
<1>5. Included(bs) = Included(old)
  BY <1>4 DEF Included
<1>6. Pages(bs) = Pages(old) /\ Bounded(bs) /\ Len(bs) = Len(old)
  BY <1>1, <1>4, AlignedBlocks DEF Aligned
<1>7. mm = Tally(old, bs)
  <2>1. mm = Recounted(m, Chars(bs), IncludedChars(bs))
    BY <1>3 DEF Recounted
  <2> DEFINE a == Chars(old)
             n == Len(old)
             x == Cardinality(Included(old))
             y == Len(old) - Cardinality(Included(old))
             z == Cardinality(Pages(old))
  <2>2. m = Counts(a, a, IncludedChars(old), n, x, y, z)
    BY DEF Tally
  <2>3. Tally(old, bs) = Counts(a, Chars(bs), IncludedChars(bs), n, x, y, z)
    BY <1>5, <1>6 DEF Tally
  <2> HIDE DEF a, n, x, y, z
  <2>4. Recounted(Counts(a, a, IncludedChars(old), n, x, y, z), Chars(bs), IncludedChars(bs))
          = Counts(a, Chars(bs), IncludedChars(bs), n, x, y, z)
    BY CountsWith
  <2> HIDE DEF m, mm
  <2> QED BY <2>1, <2>2, <2>3, <2>4
<1> HIDE DEF m, mm
<1>8. [d EXCEPT !.blocks = bs, !.metrics = mm] = Document(f, bs, w, mm)
  <2>1. WithBlocks(Document(f, old, w, m), bs, mm) = Document(f, bs, w, mm)
    BY DocumentWith
  <2>2. d = Document(f, old, w, m)
    BY <1>1
  <2> QED BY <2>1, <2>2 DEF WithBlocks
<1> QED BY <1>2, <1>6, <1>7, <1>8, Valid DEF f, old, w, bs

-----------------------------------------------------------------------------
(* Cleaning a document (DocumentChunks).                                    *)

LEMMA EdgeIsOne ==
  ASSUME NEW blocks \in Seq(Block), NEW p, NEW position \in {"header", "footer"}
  PROVE  \E i : Edge(blocks, p, position) \subseteq {i} /\ \A j \in Edge(blocks, p, position) : blocks[j].page = p
<1> DEFINE L == Len(blocks)
           now == OnPage(blocks, p)
<1>1. L \in Nat /\ DOMAIN blocks = 1 .. L
  OBVIOUS
<1>2. now \subseteq 1 .. L /\ \A j \in now : blocks[j].page = p
  BY <1>1 DEF OnPage
<1>3. Edge(blocks, p, position) =
         CASE now = {} -> {}
           [] position = "header" /\ now # {} -> {Min(now)}
           [] position = "footer" /\ now # {} -> {Max(now)}
  BY DEF Edge
<1> HIDE DEF now, L
<1>4. CASE now = {}
  BY <1>3, <1>4
<1>5. CASE now # {} /\ position = "header"
  <2>1. Edge(blocks, p, position) = {Min(now)}
    BY <1>3, <1>5
  <2>2. Min(now) \in now
    <3>1. now \in SUBSET Nat
      BY <1>1, <1>2
    <3> QED BY <1>5, <3>1, LeastOf
  <2> QED BY <1>2, <2>1, <2>2
<1>6. CASE now # {} /\ position = "footer"
  <2>1. Edge(blocks, p, position) = {Max(now)}
    BY <1>3, <1>6
  <2>2. Max(now) \in now
    <3>1. now \subseteq 0 .. L
      BY <1>1, <1>2
    <3> QED BY <1>1, <1>6, <3>1, GreatestOf
  <2> QED BY <1>2, <2>1, <2>2
<1> QED BY <1>4, <1>5, <1>6

\* A text that is taken for furniture stands on three pages at least.
OnThree(blocks, words) ==
    Cardinality({blocks[j].page : j \in {k \in DOMAIN blocks : blocks[k].text = words}}) >= 3

LEMMA FurnitureRepeats ==
  ASSUME NEW blocks \in Seq(Block), NEW position \in {"header", "footer"}, NEW i \in Furniture(blocks, position)
  PROVE  OnThree(blocks, blocks[i].text)
<1> DEFINE A == Alike(blocks, position, i)
           same == {k \in DOMAIN blocks : blocks[k].text = blocks[i].text}
           T == {blocks[j].page : j \in same}
           f == [j \in A |-> blocks[j].page]
           g == [j \in same |-> blocks[j].page]
           L == Len(blocks)
<1>1. L \in Nat /\ DOMAIN blocks = 1 .. L
  OBVIOUS
<1>2. ASSUME NEW j \in Edges(blocks, position)
      PROVE  j \in 1 .. L /\ j \in Edge(blocks, blocks[j].page, position)
  <2>1. PICK p \in Pages(blocks) : j \in Edge(blocks, p, position)
    BY DEF Edges
  <2>2. blocks[j].page = p
    BY <2>1, EdgeIsOne
  <2>3. j \in OnPage(blocks, p)
    <3> DEFINE now == OnPage(blocks, p)
    <3>1. now \subseteq 1 .. L
      BY <1>1 DEF OnPage
    <3>2. Edge(blocks, p, position) =
             CASE now = {} -> {}
               [] position = "header" /\ now # {} -> {Min(now)}
               [] position = "footer" /\ now # {} -> {Max(now)}
      BY DEF Edge
    <3> HIDE DEF now, L
    <3>3. now # {}
      BY <2>1, <3>2
    <3>4. Min(now) \in now
      <4>1. now \in SUBSET Nat
        BY <1>1, <3>1
      <4> QED BY <3>3, <4>1, LeastOf
    <3>5. Max(now) \in now
      <4>1. now \subseteq 0 .. L
        BY <1>1, <3>1
      <4> QED BY <1>1, <3>3, <4>1, GreatestOf
    <3>6. CASE position = "header"
      <4>1. Edge(blocks, p, position) = {Min(now)}
        BY <3>2, <3>3, <3>6
      <4> QED BY <2>1, <3>4, <4>1 DEF now
    <3>7. CASE position = "footer"
      <4>1. Edge(blocks, p, position) = {Max(now)}
        BY <3>2, <3>3, <3>7
      <4> QED BY <2>1, <3>5, <4>1 DEF now
    <3> QED BY <3>6, <3>7
  <2>4. j \in 1 .. L
    BY <1>1, <2>3 DEF OnPage
  <2> QED BY <2>1, <2>2, <2>4
<1>3. A = {j \in Edges(blocks, position) : blocks[j].text = blocks[i].text}
  BY DEF Alike
<1>4. Cardinality(A) >= 3
  BY DEF Furniture, Repeated
<1> HIDE DEF A
<1>5. A \subseteq same
  BY <1>1, <1>2, <1>3
<1>6. ASSUME NEW j \in A, NEW k \in A, f[j] = f[k] PROVE j = k
  <2> DEFINE p == blocks[j].page
  <2>1. j \in Edge(blocks, p, position) /\ k \in Edge(blocks, p, position)
    BY <1>2, <1>3, <1>6
  <2>2. PICK x : Edge(blocks, p, position) \subseteq {x}
    BY EdgeIsOne
  <2> QED BY <2>1, <2>2
<1>7. f \in Injection(A, T)
  <2>1. f \in [A -> T]
    BY <1>5
  <2> HIDE DEF f, T
  <2> QED BY <1>6, <2>1 DEF Injection, IsInjective
<1>8. g \in Surjection(same, T)
  <2>1. g \in [same -> T] /\ \A t \in T : \E j \in same : g[j] = t
    OBVIOUS
  <2> HIDE DEF g, T
  <2> QED BY <2>1 DEF Surjection
<1>9. IsFiniteSet(same)
  <2>1. IsFiniteSet(1 .. L) /\ same \in SUBSET (1 .. L)
    BY <1>1, FS_Interval
  <2> HIDE DEF same
  <2> QED BY <2>1, FS_Subset
<1> HIDE DEF f, g, T, same
<1>10. IsFiniteSet(T)
  BY <1>8, <1>9, FS_Surjection
<1>11. IsFiniteSet(A) /\ Cardinality(A) <= Cardinality(T)
  BY <1>7, <1>10, FS_Injection
<1>12. Cardinality(A) \in Nat /\ Cardinality(T) \in Nat
  BY <1>10, <1>11, FS_CardinalityType
<1> DEFINE a == Cardinality(A)
           b == Cardinality(T)
<1>13. b >= 3
  <2>1. a \in Nat /\ b \in Nat /\ a >= 3 /\ a <= b
    BY <1>4, <1>11, <1>12
  <2> HIDE DEF a, b
  <2> QED BY <2>1
<1> QED BY <1>13 DEF OnThree, T, same

\* The blocks of a clean document.
LEMMA CleanedBlocks ==
  ASSUME NEW blocks \in Seq(Block), \A i \in DOMAIN blocks : ~blocks[i].excluded /\ blocks[i].reason = "none", NEW format
  PROVE  /\ Cleaned(format, Marked(blocks)) \in Seq(Block) /\ Aligned(Cleaned(format, Marked(blocks)), blocks)
         /\ Chars(Cleaned(format, Marked(blocks))) = Chars(blocks)
         /\ \A i \in DOMAIN blocks :
                CleanedAt(format, Marked(blocks), blocks[i], Cleaned(format, Marked(blocks))[i], i)
<1> DEFINE cs == Cleaned(format, Marked(blocks))
           L == Len(blocks)
<1>1. L \in Nat /\ DOMAIN blocks = 1 .. L
  OBVIOUS
<1>2. ASSUME NEW i \in 1 .. L PROVE CleanedAt(format, Marked(blocks), blocks[i], cs[i], i)
  <2>1. i \in DOMAIN blocks /\ blocks[i] \in Block /\ ~blocks[i].excluded /\ blocks[i].reason = "none"
    BY <1>1
  <2> QED BY <2>1, BlockCleaned
<1>3. DOMAIN cs = 1 .. L /\ cs = [i \in 1 .. L |-> cs[i]]
  <2>1. DOMAIN Marked(blocks) = 1 .. L /\ Marked(blocks) = [i \in 1 .. L |-> Marked(blocks)[i]]
    BY <1>1 DEF Marked
  <2> DEFINE m == Marked(blocks)
  <2> HIDE DEF m, L
  <2>2. CASE format = "pdf"
    BY <2>1, <2>2 DEF Cleaned, RemoveFurniture, m
  <2>3. CASE format # "pdf"
    BY <2>1, <2>3 DEF Cleaned, m
  <2> QED BY <2>2, <2>3
<1> HIDE DEF cs, L
<1>4. cs \in Seq(Block) /\ Len(cs) = L
  <2>1. cs \in [1 .. L -> Block]
    BY <1>2, <1>3 DEF CleanedAt
  <2> QED BY <1>1, <2>1
<1>5. Aligned(cs, blocks)
  BY <1>1, <1>2, <1>3, <1>4 DEF Aligned, CleanedAt, L
<1>6. Chars(cs) = Chars(blocks)
  <2>1. ASSUME NEW i \in 1 .. L PROVE TextSize(cs[i]) = TextSize(blocks[i])
    <3>1. cs[i].text = blocks[i].text /\ cs[i].kind = blocks[i].kind
      BY <1>2 DEF CleanedAt, SamePlace
    <3> QED BY <3>1 DEF TextSize
  <2>2. [i \in DOMAIN cs |-> TextSize(cs[i])] = [i \in DOMAIN blocks |-> TextSize(blocks[i])]
    BY <1>1, <1>3, <2>1
  <2> QED BY <2>2 DEF Chars
<1> QED BY <1>1, <1>2, <1>4, <1>5, <1>6 DEF cs

\* A heading after cleaning.
LEMMA HeadingCleaned ==
  ASSUME NEW o \in Block, o.kind = "heading", NEW before, Named(o, before), NEW c, SamePlace(c, NormalizeBlock(o)),
         c.text = NormalizeBlock(o).text, c.excluded => Blank(c), c.excluded \/ ~Blank(c)
  PROVE  Opens(c, before)
<1>1. PICK tok \in Lexicon : o.level \in 1 .. 6 /\ o.path = UpdatePath(before, o.level, tok) /\ o.text = <<tok>>
  BY DEF Named
<1> DEFINE t == Clean[tok]
           n == NormalizeBlock(o)
<1>2. tok # NoText /\ t \in Marks
  <2>1. t \in Lexicon \cup {NoText} /\ NoText \notin Lexicon
    BY IngestAssumption
  <2> QED BY <2>1 DEF Marks
<1>3. NormText(<<tok>>) = <<t>>
  <2>1. NormText(<<tok>>) = [i \in DOMAIN <<tok>> |-> IF <<tok>>[i] = NoText THEN NoText ELSE Clean[<<tok>>[i]]]
    BY DEF NormText
  <2> QED BY <1>2, <2>1
<1>4. n.text = Filled(NormText(o.text)) /\ SamePlace(n, o)
  BY BlockNormalized
<1>5. c.text = Filled(<<t>>)
  BY <1>1, <1>3, <1>4
<1> HIDE DEF t, n
<1>6. c.text = IF t = NoText THEN <<>> ELSE <<t>>
  BY <1>2, <1>5, FilledOne
<1>7. c.level = o.level /\ c.path = o.path
  BY <1>4 DEF SamePlace, n
<1>8. IF c.excluded THEN t = NoText ELSE c.text[1] = t
  <2>1. CASE t = NoText
    <3>1. c.text = <<>>
      BY <1>6, <2>1
    <3>2. Blank(c)
      BY <3>1 DEF Blank, ToSet
    <3> QED BY <2>1, <3>2
  <2>2. CASE t # NoText
    <3>1. c.text = <<t>>
      BY <1>6, <2>2
    <3>2. t \in ToSet(c.text)
      BY <3>1 DEF ToSet
    <3>3. ~Blank(c)
      BY <2>2, <3>2 DEF Blank
    <3> QED BY <3>1, <3>3
  <2> QED BY <2>1, <2>2
<1>9. c.level \in 1 .. 6 /\ c.path = UpdatePath(before, c.level, tok)
  BY <1>1, <1>7
<1> QED BY <1>8, <1>9 DEF Opens, t

\* What cleaning makes of a document.
CleanOf(d) == Cleaned(d.format, Marked(Normed(d.blocks)))
Unhidden(blocks) ==
    \A i \in DOMAIN blocks : blocks[i].reason \in {"repeated_header", "repeated_footer"} => OnThree(blocks, blocks[i].text)

LEMMA CleanIsTidy ==
  ASSUME NEW d, Parsed(d)
  PROVE  Tidy(CleanOf(d))
<1> DEFINE old == d.blocks
           bs == Normed(old)
           cs == CleanOf(d)
           marked == Marked(bs)
           format == d.format
           L == Len(old)
<1>1. Raw(old) /\ (format = "pdf" => \A i \in DOMAIN old : old[i].kind # "heading")
  BY DEF Parsed
<1>2. old \in Seq(Block) /\ L \in Nat /\ DOMAIN old = 1 .. L /\ \A i \in 1 .. L : RawAt(old, i) /\ old[i] \in Block
  BY <1>1 DEF Raw
<1>3. cs = Cleaned(format, marked)
  BY DEF CleanOf
<1> HIDE DEF old, bs, cs, marked, format
<1>4. /\ bs \in Seq(Block) /\ Aligned(bs, old)
      /\ \A i \in DOMAIN old : bs[i] \in Block /\ bs[i] = NormalizeBlock(old[i]) /\ ~bs[i].excluded /\ bs[i].reason = "none"
  BY <1>1, NormedBlocks DEF bs
<1>5. DOMAIN bs = DOMAIN old
  BY <1>4 DEF Aligned
<1>6. /\ cs \in Seq(Block) /\ Aligned(cs, bs)
      /\ \A i \in DOMAIN bs : CleanedAt(format, marked, bs[i], cs[i], i)
  BY <1>3, <1>4, <1>5, CleanedBlocks DEF marked
<1>7. Len(cs) = L /\ \A i \in 1 .. L : cs[i].path = old[i].path /\ cs[i].id = old[i].id /\ cs[i].kind = old[i].kind
  <2>1. Len(cs) = Len(bs) /\ Len(bs) = L
    BY <1>4, <1>6 DEF Aligned
  <2>2. ASSUME NEW i \in 1 .. L PROVE SamePlace(cs[i], bs[i]) /\ SamePlace(bs[i], old[i])
    BY <1>2, <1>4, <1>5, <1>6 DEF Aligned
  <2> QED BY <2>1, <2>2 DEF SamePlace
<1>8. ASSUME NEW i \in 1 .. L PROVE Trail(cs, i - 1) = Trail(old, i - 1)
  <2>1. CASE i = 1
    <3>1. i - 1 = 0
      BY <2>1
    <3> QED BY <3>1 DEF Trail
  <2>2. CASE i # 1
    <3>1. i - 1 \in 1 .. L /\ i - 1 # 0
      BY <2>2
    <3> QED BY <1>7, <3>1 DEF Trail
  <2> QED BY <2>1, <2>2
<1>9. ASSUME NEW i \in 1 .. L PROVE TidyAt(cs, i)
  <2> DEFINE o == old[i]
             n == bs[i]
             c == cs[i]
             before == Trail(old, i - 1)
  <2>1. CleanedAt(format, marked, n, c, i) /\ o \in Block /\ n = NormalizeBlock(o)
    BY <1>2, <1>4, <1>5, <1>6
  <2>2. c.id = i /\ c.path = o.path /\ c.kind = o.kind /\ Trail(cs, i - 1) = before
    BY <1>2, <1>7, <1>8 DEF RawAt
  <2>3. IF o.kind = "heading" THEN Named(o, before) ELSE o.path = before
    BY <1>2 DEF RawAt
  <2>4. format = "pdf" => o.kind # "heading"
    BY <1>1, <1>2
  <2> HIDE DEF o, n, c, before
  <2>5. InLines(c)
    <3>1. InLines(n)
      BY <2>1, BlockNormalized
    <3>2. c.text = n.text /\ c.kind = n.kind
      BY <2>1 DEF CleanedAt, SamePlace
    <3> QED BY <3>1, <3>2 DEF InLines
  <2>6. c.excluded \/ c.kind = "image_ref" \/ ~Blank(c)
    BY <2>1 DEF CleanedAt
  <2>7. ASSUME o.kind = "heading" PROVE Opens(c, before)
    <3>1. SamePlace(c, NormalizeBlock(o)) /\ c.text = NormalizeBlock(o).text
      BY <2>1 DEF CleanedAt
    <3>2. c.excluded => Blank(c)
      BY <2>1, <2>4, <2>7 DEF CleanedAt
    <3>3. c.excluded \/ ~Blank(c)
      BY <2>2, <2>6, <2>7
    <3> QED BY <2>1, <2>3, <2>7, <3>1, <3>2, <3>3, HeadingCleaned
  <2>8. IF c.kind = "heading" THEN Opens(c, before) ELSE c.path = before
    BY <2>2, <2>3, <2>7
  <2> QED BY <2>2, <2>5, <2>6, <2>8 DEF TidyAt, c
<1> QED BY <1>6, <1>7, <1>9 DEF Tidy, cs

LEMMA CleanHidesLittle ==
  ASSUME NEW d, Parsed(d)
  PROVE  Unhidden(CleanOf(d))
<1> DEFINE old == d.blocks
           bs == Normed(old)
           cs == CleanOf(d)
           marked == Marked(bs)
           format == d.format
           L == Len(bs)
<1>1. Raw(old)
  BY DEF Parsed
<1>3. cs = Cleaned(format, marked)
  BY DEF CleanOf
<1> HIDE DEF old, bs, cs, format
<1>4. /\ bs \in Seq(Block) /\ DOMAIN bs = DOMAIN old
      /\ \A i \in DOMAIN old : bs[i] \in Block /\ ~bs[i].excluded /\ bs[i].reason = "none"
  BY <1>1, NormedBlocks DEF bs, Aligned
<1>5. L \in Nat /\ DOMAIN bs = 1 .. L /\ \A i \in 1 .. L : bs[i] \in Block /\ ~bs[i].excluded /\ bs[i].reason = "none"
  BY <1>4
<1>6. ASSUME NEW i \in 1 .. L
      PROVE  CleanedAt(format, marked, bs[i], cs[i], i) /\ CleanedAt(format, marked, bs[i], marked[i], i)
  <2>1. i \in DOMAIN bs /\ bs[i] \in Block /\ ~bs[i].excluded /\ bs[i].reason = "none"
    BY <1>5
  <2> QED BY <1>3, <2>1, BlockMarked, BlockCleaned
<1>7. marked = [i \in 1 .. L |-> marked[i]]
  BY <1>5 DEF Marked
<1> HIDE DEF marked, L
<1>8. marked \in Seq(Block) /\ DOMAIN marked = 1 .. L
  <2>1. marked \in [1 .. L -> Block]
    BY <1>6, <1>7 DEF CleanedAt
  <2> QED BY <1>5, <2>1
<1>9. DOMAIN cs = 1 .. L
  <2>1. Aligned(cs, bs)
    <3>1. \A i \in DOMAIN bs : ~bs[i].excluded /\ bs[i].reason = "none"
      BY <1>5
    <3> QED BY <1>3, <1>4, <3>1, CleanedBlocks DEF marked
  <2> QED BY <1>5, <2>1 DEF Aligned
<1>10. ASSUME NEW i \in 1 .. L PROVE cs[i].text = marked[i].text /\ cs[i].page = marked[i].page
  BY <1>6 DEF CleanedAt, SamePlace
<1>11. ASSUME NEW words PROVE OnThree(marked, words) <=> OnThree(cs, words)
  <2>1. {k \in DOMAIN marked : marked[k].text = words} = {k \in DOMAIN cs : cs[k].text = words}
    BY <1>8, <1>9, <1>10
  <2> DEFINE same == {k \in DOMAIN cs : cs[k].text = words}
  <2>2. same \subseteq 1 .. L
    BY <1>9
  <2> HIDE DEF same
  <2>3. {marked[j].page : j \in same} = {cs[j].page : j \in same}
    BY <1>10, <2>2
  <2> QED BY <2>1, <2>3 DEF OnThree, same
<1>12. ASSUME NEW i \in DOMAIN cs, cs[i].reason \in {"repeated_header", "repeated_footer"} PROVE OnThree(cs, cs[i].text)
  <2>1. i \in 1 .. L
    BY <1>9
  <2>2. \E position \in {"header", "footer"} : i \in Furniture(marked, position)
    BY <1>6, <1>12, <2>1 DEF CleanedAt
  <2>3. OnThree(marked, marked[i].text)
    BY <1>8, <2>2, FurnitureRepeats
  <2> QED BY <1>10, <1>11, <2>1, <2>3
<1> QED BY <1>12 DEF Unhidden, cs

\* A document that was parsed stays a valid one.
LEMMA DocumentCleaned ==
  ASSUME NEW d, Parsed(d)
  PROVE  /\ IsDoc(Normalize(d)) /\ IsDoc(CleanDocument(Normalize(d)))
         /\ CleanDocument(Normalize(d)).blocks = CleanOf(d)
<1> DEFINE f == d.format
           old == d.blocks
           w == d.warnings
           bs == Normed(old)
           n == Normalize(d)
           cs == CleanOf(d)
           m == Tally(old, bs)
           mm == Tally(old, cs)
           marked == Marked(bs)
           r == IF f = "pdf" THEN RemoveFurniture(marked) ELSE [blocks |-> marked, warnings |-> {}]
           ws == MergeWarnings(w \cup r.warnings \cup Duplicates(r.blocks))
<1>1. n = Document(f, bs, w, m)
  BY DocumentNormalized
<1>2. Raw(old) /\ Bounded(old)
  BY DEF Parsed
<1>3. cs = Cleaned(f, marked)
  BY DEF CleanOf
<1> HIDE DEF f, old, w, bs, n, cs, m, mm
<1>4. n.format = f /\ n.blocks = bs /\ n.warnings = w /\ n.metrics = m /\ n.error = "none"
  BY <1>1 DEF Document
<1>5. r.blocks = cs
  BY <1>3 DEF Cleaned
<1> HIDE DEF r
<1>6. bs \in Seq(Block) /\ Aligned(bs, old) /\ \A i \in DOMAIN bs : ~bs[i].excluded /\ bs[i].reason = "none"
  <2>1. Aligned(bs, old) /\ bs \in Seq(Block) /\ \A i \in DOMAIN old : ~bs[i].excluded /\ bs[i].reason = "none"
    BY <1>2, NormedBlocks DEF bs
  <2>2. DOMAIN bs = DOMAIN old
    BY <2>1 DEF Aligned
  <2> QED BY <2>1, <2>2
<1>7. Aligned(cs, bs) /\ Chars(cs) = Chars(bs)
  BY <1>3, <1>6, CleanedBlocks
<1>8. Bounded(cs)
  BY <1>2, <1>6, <1>7, AlignedBlocks
<1> DEFINE nm == [input |-> m.input, normalized |-> m.normalized,
                  included |-> IncludedChars(cs),
                  blocks |-> Len(cs), includedBlocks |-> Cardinality(Included(cs)),
                  excludedBlocks |-> Len(cs) - Cardinality(Included(cs)),
                  pages |-> Cardinality(Pages(cs))]
<1>9. nm = mm
  <2>1. m.input = Chars(old) /\ m.normalized = Chars(bs)
    BY DEF m, Tally, Counts
  <2>2. m.normalized = Chars(cs)
    BY <1>7, <2>1
  <2> QED BY <2>1, <2>2 DEF mm, Tally, Counts
<1>10. CleanDocument(n) = Validate([n EXCEPT !.blocks = cs, !.warnings = ws, !.metrics = nm])
  <2> DEFINE here == [i \in DOMAIN n.blocks |-> IF Blank(n.blocks[i]) /\ n.blocks[i].kind # "image_ref"
                                                THEN Exclude(n.blocks[i], "empty_after_cleaning") ELSE n.blocks[i]]
             s == IF n.format = "pdf" THEN RemoveFurniture(here) ELSE [blocks |-> here, warnings |-> {}]
  <2>1. here = marked
    BY <1>4 DEF Marked
  <2>2. s = r
    BY <1>4, <2>1 DEF r
  <2>3. CleanDocument(n) =
            Validate([n EXCEPT
              !.blocks = s.blocks,
              !.warnings = MergeWarnings(@ \cup s.warnings \cup Duplicates(s.blocks)),
              !.metrics = [input |-> @.input, normalized |-> @.normalized,
                         included |-> IncludedChars(s.blocks),
                         blocks |-> Len(s.blocks), includedBlocks |-> Cardinality(Included(s.blocks)),
                         excludedBlocks |-> Len(s.blocks) - Cardinality(Included(s.blocks)),
                         pages |-> Cardinality(Pages(s.blocks))]])
    BY DEF CleanDocument
  <2> HIDE DEF s, here
  <2>4. s.blocks = cs
    BY <1>5, <2>2
  <2> QED BY <1>4, <1>5, <2>2, <2>3, <2>4
<1> HIDE DEF nm, ws
<1>11. CleanDocument(n) = Document(f, cs, ws, mm)
  <2>1. WithWarnings(Document(f, bs, w, m), cs, ws, mm) = Document(f, cs, ws, mm)
    BY DocumentWithWarnings
  <2>2. [n EXCEPT !.blocks = cs, !.warnings = ws, !.metrics = nm] = Document(f, cs, ws, mm)
    BY <1>1, <1>9, <2>1 DEF WithWarnings
  <2> QED BY <1>8, <1>10, <2>2, Valid DEF mm
<1> DEFINE c == CleanDocument(n)
<1>12. c.error = "none" /\ c.blocks = cs
  BY <1>11 DEF Document
<1> QED BY <1>4, <1>12 DEF IsDoc, n, cs

-----------------------------------------------------------------------------
(* What the parsers gather (DocumentBlocks).                                *)

\* A text after one more line.
LEMMA FilledAppend ==
  ASSUME NEW words \in Seq(Marks), NEW t \in Marks
  PROVE  Filled(Append(words, t)) = Filled(words) \o (IF t = NoText THEN <<>> ELSE <<t>>)
<1> DEFINE new == Append(words, t)
           Each(u) == [i \in DOMAIN u |-> IF u[i] = NoText THEN <<>> ELSE <<u[i]>>]
           one == IF t = NoText THEN <<>> ELSE <<t>>
           L == Len(words)
<1>1. /\ new \in Seq(Marks) /\ DOMAIN new = 1 .. L + 1 /\ DOMAIN words = 1 .. L /\ L \in Nat
      /\ new[L + 1] = t /\ \A i \in 1 .. L : new[i] = words[i]
  BY AppendProperties
<1> HIDE DEF new, L
<1>2. Each(words) \in Seq(Seq(Marks)) /\ one \in Seq(Marks)
  <2>1. ASSUME NEW i \in 1 .. L PROVE (IF words[i] = NoText THEN <<>> ELSE <<words[i]>>) \in Seq(Marks)
    <3> DEFINE e == words[i]
    <3>1. e \in Marks
      BY <1>1
    <3> HIDE DEF e
    <3>2. <<e>> \in Seq(Marks) /\ <<>> \in Seq(Marks)
      BY <3>1
    <3> QED BY <3>2 DEF e
  <2> DEFINE S == Seq(Marks)
             each == Each(words)
  <2>2. each \in [1 .. L -> S]
    BY <1>1, <2>1
  <2> HIDE DEF S, each
  <2>3. each \in Seq(S)
    BY <1>1, <2>2
  <2>4. one \in Seq(Marks)
    OBVIOUS
  <2> QED BY <2>3, <2>4 DEF S, each
<1>3. Each(new) = Append(Each(words), one)
  <2> DEFINE a == Each(words)
             b == Append(a, one)
  <2>1. DOMAIN a = 1 .. L /\ Len(a) = L
    BY <1>1, <1>2
  <2>2. \A i \in 1 .. L : a[i] = IF words[i] = NoText THEN <<>> ELSE <<words[i]>>
    BY <1>1
  <2>3. a \in Seq(Seq(Marks)) /\ one \in Seq(Marks)
    BY <1>2
  <2>4. Each(new) = [i \in 1 .. L + 1 |-> IF new[i] = NoText THEN <<>> ELSE <<new[i]>>]
    BY <1>1
  <2> DEFINE S == Seq(Marks)
  <2> HIDE DEF a, Each, one, S
  <2>5. DOMAIN b = 1 .. L + 1 /\ b[L + 1] = one /\ (\A i \in 1 .. L : b[i] = a[i]) /\ b = [i \in DOMAIN b |-> b[i]]
    <3>1. a \in Seq(S) /\ one \in S
      BY <2>3 DEF S
    <3>2. /\ b \in Seq(S) /\ DOMAIN b = 1 .. Len(a) + 1 /\ b[Len(a) + 1] = one
          /\ \A i \in 1 .. Len(a) : b[i] = a[i]
      BY <3>1, AppendProperties
    <3>3. b = [i \in DOMAIN b |-> b[i]]
      <4> HIDE DEF b
      <4> QED BY <3>2
    <3> QED BY <2>1, <3>2, <3>3
  <2> HIDE DEF b
  <2>6. ASSUME NEW i \in 1 .. L + 1 PROVE (IF new[i] = NoText THEN <<>> ELSE <<new[i]>>) = b[i]
    <3>1. CASE i = L + 1
      BY <1>1, <2>5, <3>1 DEF one
    <3>2. CASE i # L + 1
      <4>1. i \in 1 .. L
        BY <1>1, <3>2
      <4> QED BY <1>1, <2>2, <2>5, <4>1
    <3> QED BY <3>1, <3>2
  <2> QED BY <2>4, <2>5, <2>6 DEF b, a
<1>4. Filled(new) = FlattenSeq(Each(new)) /\ Filled(words) = FlattenSeq(Each(words))
  BY DEF Filled
<1> HIDE DEF Each, one
<1>5. FlattenSeq(Append(Each(words), one)) = FlattenSeq(Each(words)) \o one
  BY <1>2, FlattenAppend
<1> QED BY <1>3, <1>4, <1>5 DEF new, one

\* What blocks say, in their order.
Spoken(blocks) == FlattenSeq([i \in DOMAIN blocks |-> Filled(blocks[i].text)])

LEMMA SpokenNext ==
  ASSUME NEW blocks \in Seq(Block), NEW b \in Block
  PROVE  /\ Spoken(Append(blocks, b)) = Spoken(blocks) \o Filled(b.text)
         /\ Spoken(blocks) \in Seq(Lexicon) /\ Filled(b.text) \in Seq(Lexicon)
<1> DEFINE new == Append(blocks, b)
           Each(u) == [i \in DOMAIN u |-> Filled(u[i].text)]
           L == Len(blocks)
           S == Seq(Lexicon)
<1>1. /\ new \in Seq(Block) /\ DOMAIN new = 1 .. L + 1 /\ DOMAIN blocks = 1 .. L /\ L \in Nat
      /\ new[L + 1] = b /\ \A i \in 1 .. L : new[i] = blocks[i]
  BY AppendProperties
<1>2. ASSUME NEW c \in Block PROVE Filled(c.text) \in S
  <2>1. c.text \in Seq(Marks)
    BY DEF Block
  <2> QED BY <2>1, FilledMade
<1> HIDE DEF new, L, S
<1> DEFINE a == Each(blocks)
           one == Filled(b.text)
<1>3. a \in Seq(S) /\ Len(a) = L /\ DOMAIN a = 1 .. L /\ one \in S
  <2>1. \A i \in 1 .. L : blocks[i] \in Block
    BY <1>1
  <2>2. a \in [1 .. L -> S]
    BY <1>1, <1>2, <2>1
  <2>3. one \in S
    BY <1>2
  <2> HIDE DEF a, one
  <2> QED BY <1>1, <2>2, <2>3
<1>4. Each(new) = Append(a, one)
  <2> DEFINE c == Append(a, one)
  <2>1. Each(new) = [i \in 1 .. L + 1 |-> Filled(new[i].text)]
    BY <1>1
  <2>2. \A i \in 1 .. L : a[i] = Filled(blocks[i].text)
    BY <1>1
  <2> HIDE DEF a, Each, one
  <2>3. /\ c \in Seq(S) /\ DOMAIN c = 1 .. L + 1 /\ c[L + 1] = one /\ \A i \in 1 .. L : c[i] = a[i]
    BY <1>3, AppendProperties
  <2> HIDE DEF c
  <2>4. c = [i \in 1 .. L + 1 |-> c[i]]
    BY <2>3
  <2>5. ASSUME NEW i \in 1 .. L + 1 PROVE Filled(new[i].text) = c[i]
    <3>1. CASE i = L + 1
      BY <1>1, <2>3, <3>1 DEF one
    <3>2. CASE i # L + 1
      <4>1. i \in 1 .. L
        BY <1>1, <3>2
      <4> QED BY <1>1, <2>2, <2>3, <4>1
    <3> QED BY <3>1, <3>2
  <2> QED BY <2>1, <2>4, <2>5 DEF c
<1>5. Spoken(new) = FlattenSeq(Each(new)) /\ Spoken(blocks) = FlattenSeq(a)
  BY DEF Spoken
<1> HIDE DEF a, one, Each
<1>6. FlattenSeq(Append(a, one)) = FlattenSeq(a) \o one /\ FlattenSeq(a) \in S
  BY <1>3, FlattenAppend DEF S
<1> QED BY <1>3, <1>4, <1>5, <1>6 DEF new, one, S

\* Blocks as a parser makes them, under the path in force.
Kept(blocks, path) == Raw(blocks) /\ path \in Seq(Lexicon) /\ path = Trail(blocks, Len(blocks))

LEMMA BlockAdded ==
  ASSUME NEW blocks, NEW path, Kept(blocks, path), NEW b \in Block, b.id = Len(blocks) + 1, ~b.excluded, b.reason = "none",
         IF b.kind = "heading" THEN Named(b, path) ELSE b.path = path
  PROVE  /\ Kept(Append(blocks, b), b.path) /\ Append(blocks, b) \in Seq(Block)
         /\ Spoken(Append(blocks, b)) = Spoken(blocks) \o Filled(b.text)
<1> DEFINE new == Append(blocks, b)
           L == Len(blocks)
<1>1. blocks \in Seq(Block) /\ path = Trail(blocks, L) /\ \A i \in 1 .. L : RawAt(blocks, i)
  BY DEF Kept, Raw
<1>2. /\ new \in Seq(Block) /\ Len(new) = L + 1 /\ L \in Nat
      /\ new[L + 1] = b /\ \A i \in 1 .. L : new[i] = blocks[i]
  BY <1>1, AppendProperties
<1>3. Spoken(new) = Spoken(blocks) \o Filled(b.text)
  BY <1>1, SpokenNext
<1> HIDE DEF new
<1>4. ASSUME NEW i \in 1 .. L + 1 PROVE Trail(new, i - 1) = Trail(blocks, i - 1)
  <2>1. CASE i = 1
    <3>1. i - 1 = 0
      BY <2>1
    <3> QED BY <3>1 DEF Trail
  <2>2. CASE i # 1
    <3>1. i - 1 \in 1 .. L /\ i - 1 # 0
      BY <1>2, <2>2
    <3> QED BY <1>2, <3>1 DEF Trail
  <2> QED BY <2>1, <2>2
<1>5. ASSUME NEW i \in 1 .. L + 1 PROVE RawAt(new, i)
  <2>1. CASE i = L + 1
    <3>1. new[i] = b /\ i - 1 = L /\ Trail(new, i - 1) = path
      BY <1>1, <1>2, <1>4, <2>1
    <3>2. b.id = i
      BY <2>1 DEF L
    <3> HIDE DEF L
    <3> QED BY <3>1, <3>2 DEF RawAt
  <2>2. CASE i # L + 1
    <3>1. i \in 1 .. L
      BY <1>2, <2>2
    <3>2. new[i] = blocks[i] /\ RawAt(blocks, i) /\ Trail(new, i - 1) = Trail(blocks, i - 1)
      BY <1>1, <1>2, <1>4, <3>1
    <3> QED BY <3>2 DEF RawAt
  <2> QED BY <2>1, <2>2
<1>6. Raw(new)
  BY <1>2, <1>5 DEF Raw
<1>7. b.path = Trail(new, Len(new)) /\ b.path \in Seq(Lexicon)
  <2>1. Len(new) # 0 /\ new[Len(new)] = b
    BY <1>2
  <2>2. b.path \in Seq(Lexicon)
    BY DEF Block
  <2> QED BY <2>1, <2>2 DEF Trail
<1> QED BY <1>2, <1>3, <1>6, <1>7 DEF Kept, new

LEMMA Pushed ==
  ASSUME NEW blocks, NEW path, Kept(blocks, path), NEW kind \in Kinds \ {"heading"}, NEW words \in Seq(Marks)
  PROVE  /\ Kept(Push(blocks, path, kind, words), path)
         /\ Push(blocks, path, kind, words) \in Seq(Block)
         /\ Spoken(Push(blocks, path, kind, words)) = Spoken(blocks) \o Filled(words)
<1> DEFINE base == BaseBlock(Len(blocks), path, 0)
           b == [base EXCEPT !.kind = kind, !.text = words]
<1>1. Push(blocks, path, kind, words) = Append(blocks, b)
  BY DEF Push
<1>2. path \in Seq(Lexicon) /\ Len(blocks) + 1 \in Nat
  BY DEF Kept, Raw
<1>3. base = [id |-> Len(blocks) + 1, kind |-> "paragraph", text |-> <<>>, level |-> 0, header |-> FALSE,
              path |-> path, page |-> 0, excluded |-> FALSE, reason |-> "none"]
  BY DEF BaseBlock
<1>4. base \in Block
  <2> DEFINE n == Len(blocks) + 1
  <2>1. n \in Nat /\ "none" \in Reasons /\ "paragraph" \in Kinds /\ <<>> \in Seq(Marks)
    BY <1>2 DEF Reasons, Kinds
  <2>2. base = [id |-> n, kind |-> "paragraph", text |-> <<>>, level |-> 0, header |-> FALSE,
                path |-> path, page |-> 0, excluded |-> FALSE, reason |-> "none"]
    BY <1>3
  <2>3. 0 \in 0 .. 6 /\ 0 \in Nat
    OBVIOUS
  <2> HIDE DEF n, base
  <2> QED BY <1>2, <2>1, <2>2, <2>3 DEF Block
<1>5. base.id = Len(blocks) + 1 /\ base.path = path /\ base.excluded = FALSE /\ base.reason = "none"
  BY <1>3
<1> HIDE DEF base
<1>6. b \in Block
  BY <1>4 DEF Block
<1>7. /\ b.id = base.id /\ b.path = base.path /\ b.excluded = base.excluded /\ b.reason = base.reason
      /\ b.kind = kind /\ b.text = words
  BY <1>4 DEF Block
<1> HIDE DEF b
<1>8. b.id = Len(blocks) + 1 /\ ~b.excluded /\ b.reason = "none" /\ b.path = path /\ b.kind # "heading"
  BY <1>5, <1>7
<1>9. /\ Kept(Append(blocks, b), b.path) /\ Append(blocks, b) \in Seq(Block)
      /\ Spoken(Append(blocks, b)) = Spoken(blocks) \o Filled(b.text)
  BY <1>6, <1>8, BlockAdded
<1> QED BY <1>1, <1>7, <1>8, <1>9

LEMMA HeadingPushed ==
  ASSUME NEW blocks, NEW path, Kept(blocks, path), NEW level \in 1 .. 6, NEW tok \in Lexicon
  PROVE  LET p == UpdatePath(path, level, tok)
         IN  /\ Kept(PushHeading(blocks, p, level, tok), p)
             /\ PushHeading(blocks, p, level, tok) \in Seq(Block)
             /\ Spoken(PushHeading(blocks, p, level, tok)) = Spoken(blocks) \o <<tok>>
<1> DEFINE p == UpdatePath(path, level, tok)
           base == BaseBlock(Len(blocks), p, 0)
           words == <<tok>>
           b == [base EXCEPT !.kind = "heading", !.level = level, !.text = words]
<1>1. PushHeading(blocks, p, level, tok) = Append(blocks, b)
  BY DEF PushHeading
<1>2. p \in Seq(Lexicon) /\ Len(blocks) + 1 \in Nat
  <2>1. path \in Seq(Lexicon) /\ blocks \in Seq(Block)
    BY DEF Kept, Raw
  <2>2. p \in Seq(Lexicon)
    <3>1. path \in Seq(Lexicon) /\ level \in 1 .. 6 /\ tok \in Lexicon
      BY <2>1
    <3> QED BY <3>1, PathUpdated
  <2> HIDE DEF p
  <2> QED BY <2>1, <2>2
<1> HIDE DEF p
<1>3. base = [id |-> Len(blocks) + 1, kind |-> "paragraph", text |-> <<>>, level |-> 0, header |-> FALSE,
              path |-> p, page |-> 0, excluded |-> FALSE, reason |-> "none"]
  BY DEF BaseBlock
<1>4. base \in Block
  <2> DEFINE n == Len(blocks) + 1
  <2>1. n \in Nat /\ "none" \in Reasons /\ "paragraph" \in Kinds /\ <<>> \in Seq(Marks)
    BY <1>2 DEF Reasons, Kinds
  <2>2. base = [id |-> n, kind |-> "paragraph", text |-> <<>>, level |-> 0, header |-> FALSE,
                path |-> p, page |-> 0, excluded |-> FALSE, reason |-> "none"]
    BY <1>3
  <2>3. 0 \in 0 .. 6 /\ 0 \in Nat
    OBVIOUS
  <2> HIDE DEF n, base
  <2> QED BY <1>2, <2>1, <2>2, <2>3 DEF Block
<1>5. base.id = Len(blocks) + 1 /\ base.path = p /\ base.excluded = FALSE /\ base.reason = "none"
  BY <1>3
<1>10. words \in Seq(Marks) /\ "heading" \in Kinds /\ tok # NoText /\ tok \in Marks /\ level \in 0 .. 6
  BY IngestAssumption DEF Marks, Kinds
<1> HIDE DEF base, words
<1>6. b \in Block
  BY <1>4, <1>10 DEF Block
<1>7. /\ b.id = base.id /\ b.path = base.path /\ b.excluded = base.excluded /\ b.reason = base.reason
      /\ b.kind = "heading" /\ b.text = words /\ b.level = level
  BY <1>4 DEF Block
<1> HIDE DEF b
<1>8. b.id = Len(blocks) + 1 /\ ~b.excluded /\ b.reason = "none" /\ b.path = p /\ b.kind = "heading"
  BY <1>5, <1>7
<1>11. Named(b, path)
  BY <1>7, <1>8 DEF Named, words, p
<1>9. /\ Kept(Append(blocks, b), b.path) /\ Append(blocks, b) \in Seq(Block)
      /\ Spoken(Append(blocks, b)) = Spoken(blocks) \o Filled(b.text)
  BY <1>6, <1>8, <1>11, BlockAdded
<1>12. Filled(<<tok>>) = <<tok>>
  BY <1>10, FilledOne
<1> QED BY <1>1, <1>7, <1>8, <1>9, <1>12 DEF p, words

LEMMA FilledNone == Filled(<<>>) = <<>>
<1>1. [i \in DOMAIN <<>> |-> IF <<>>[i] = NoText THEN <<>> ELSE <<<<>>[i]>>] = <<>>
  OBVIOUS
<1> QED BY <1>1, FlattenNone DEF Filled

LEMMA SpokenNone == Spoken(<<>>) = <<>>
<1>1. [i \in DOMAIN <<>> |-> Filled(<<>>[i].text)] = <<>>
  OBVIOUS
<1> QED BY <1>1, FlattenNone DEF Spoken

LEMMA SpokenIsText ==
  ASSUME NEW blocks \in Seq(Block)
  PROVE  Spoken(blocks) \in Seq(Lexicon)
<1> DEFINE each == [i \in DOMAIN blocks |-> Filled(blocks[i].text)]
           L == Len(blocks)
           S == Seq(Lexicon)
<1>1. L \in Nat /\ DOMAIN blocks = 1 .. L /\ \A i \in 1 .. L : blocks[i] \in Block
  OBVIOUS
<1>2. ASSUME NEW b \in Block PROVE Filled(b.text) \in S
  <2>1. b.text \in Seq(Marks)
    BY DEF Block
  <2> QED BY <2>1, FilledMade
<1> HIDE DEF L, S
<1>3. each \in [1 .. L -> S]
  BY <1>1, <1>2
<1> HIDE DEF each
<1>4. each \in Seq(S) /\ <<>> \in S
  BY <1>1, <1>3 DEF S
<1> QED BY <1>4, FlattenAppend DEF Spoken, each, S

\* What a parser has read.
ReadState == [blocks : Seq(Block), path : Seq(Lexicon), para : Seq(Lexicon), items : Seq(Lexicon), ordered : BOOLEAN,
              fence : BOOLEAN, code : Seq(Marks),
              warnings : SUBSET [code : {"table_vertical_merge_limited"}, ids : SUBSET Nat]]
Flushed(f, st, words) ==
    /\ f \in ReadState /\ Kept(f.blocks, f.path) /\ f.path = st.path /\ f.ordered = st.ordered /\ f.warnings = st.warnings
    /\ f.fence = st.fence /\ Spoken(f.blocks) = Spoken(st.blocks) \o Filled(words)

LEMMA ParagraphFlushed ==
  ASSUME NEW st \in ReadState, Kept(st.blocks, st.path)
  PROVE  /\ Flushed(FlushParagraph(st), st, st.para) /\ FlushParagraph(st).para = <<>>
         /\ FlushParagraph(st).items = st.items /\ FlushParagraph(st).code = st.code
<1> DEFINE new == Push(st.blocks, st.path, "paragraph", st.para)
           f == [st EXCEPT !.blocks = new, !.para = <<>>]
           words == st.para
<1>1. st.blocks \in Seq(Block) /\ words \in Seq(Lexicon) /\ "paragraph" \in Kinds \ {"heading"}
  BY DEF ReadState, Kinds
<1>2. words \in Seq(Marks)
  <2>1. Lexicon \subseteq Marks
    BY DEF Marks
  <2> HIDE DEF words
  <2> QED BY <1>1, <2>1, SeqMonotonic
<1>3. FlushParagraph(st) = IF words = <<>> THEN st ELSE f
  BY DEF FlushParagraph
<1>4. CASE words = <<>>
  <2>1. Spoken(st.blocks) \in Seq(Lexicon)
    BY <1>1, SpokenIsText
  <2>2. Spoken(st.blocks) \o <<>> = Spoken(st.blocks)
    BY <2>1, ConcatProperties
  <2>3. Spoken(st.blocks) = Spoken(st.blocks) \o Filled(words)
    BY <1>4, <2>2, FilledNone
  <2>4. FlushParagraph(st) = st
    BY <1>3, <1>4
  <2> QED BY <1>4, <2>3, <2>4 DEF Flushed
<1>5. CASE words # <<>>
  <2>1. FlushParagraph(st) = f
    BY <1>3, <1>5
  <2>2. Kept(new, st.path) /\ new \in Seq(Block) /\ Spoken(new) = Spoken(st.blocks) \o Filled(words)
    BY <1>1, <1>2, Pushed
  <2> HIDE DEF new
  <2>3. f \in ReadState
    <3>1. <<>> \in Seq(Lexicon)
      OBVIOUS
    <3> QED BY <2>2, <3>1 DEF ReadState
  <2>4. f.blocks = new /\ f.para = <<>>
    BY DEF ReadState
  <2>5. f.path = st.path /\ f.ordered = st.ordered /\ f.warnings = st.warnings /\ f.fence = st.fence
        /\ f.items = st.items /\ f.code = st.code
    BY DEF ReadState
  <2> HIDE DEF f, words
  <2> QED BY <2>1, <2>2, <2>3, <2>4, <2>5 DEF Flushed, words
<1> QED BY <1>4, <1>5

LEMMA ListFlushed ==
  ASSUME NEW st \in ReadState, Kept(st.blocks, st.path)
  PROVE  /\ Flushed(FlushList(st), st, st.items) /\ FlushList(st).items = <<>>
         /\ FlushList(st).para = st.para /\ FlushList(st).code = st.code
<1> DEFINE new == Push(st.blocks, st.path, "list", st.items)
           f == [st EXCEPT !.blocks = new, !.items = <<>>]
           words == st.items
<1>1. st.blocks \in Seq(Block) /\ words \in Seq(Lexicon) /\ "list" \in Kinds \ {"heading"}
  BY DEF ReadState, Kinds
<1>2. words \in Seq(Marks)
  <2>1. Lexicon \subseteq Marks
    BY DEF Marks
  <2> HIDE DEF words
  <2> QED BY <1>1, <2>1, SeqMonotonic
<1>3. FlushList(st) = IF words = <<>> THEN st ELSE f
  BY DEF FlushList
<1>4. CASE words = <<>>
  <2>1. Spoken(st.blocks) \in Seq(Lexicon)
    BY <1>1, SpokenIsText
  <2>2. Spoken(st.blocks) \o <<>> = Spoken(st.blocks)
    BY <2>1, ConcatProperties
  <2>3. Spoken(st.blocks) = Spoken(st.blocks) \o Filled(words)
    BY <1>4, <2>2, FilledNone
  <2>4. FlushList(st) = st
    BY <1>3, <1>4
  <2> QED BY <1>4, <2>3, <2>4 DEF Flushed
<1>5. CASE words # <<>>
  <2>1. FlushList(st) = f
    BY <1>3, <1>5
  <2>2. Kept(new, st.path) /\ new \in Seq(Block) /\ Spoken(new) = Spoken(st.blocks) \o Filled(words)
    BY <1>1, <1>2, Pushed
  <2> HIDE DEF new
  <2>3. f \in ReadState
    <3>1. <<>> \in Seq(Lexicon)
      OBVIOUS
    <3> QED BY <2>2, <3>1 DEF ReadState
  <2>4. f.blocks = new /\ f.items = <<>>
    BY DEF ReadState
  <2>5. f.path = st.path /\ f.ordered = st.ordered /\ f.warnings = st.warnings /\ f.fence = st.fence
        /\ f.para = st.para /\ f.code = st.code
    BY DEF ReadState
  <2> HIDE DEF f, words
  <2> QED BY <2>1, <2>2, <2>3, <2>4, <2>5 DEF Flushed, words
<1> QED BY <1>4, <1>5

LEMMA FenceClosed ==
  ASSUME NEW st \in ReadState, Kept(st.blocks, st.path)
  PROVE  LET f == CloseFence(st)
         IN  /\ f \in ReadState /\ Kept(f.blocks, f.path) /\ Spoken(f.blocks) = Spoken(st.blocks) \o Filled(st.code)
             /\ ~f.fence /\ f.code = <<>> /\ f.para = st.para /\ f.items = st.items
<1> DEFINE new == Push(st.blocks, st.path, "code", st.code)
           f == [st EXCEPT !.blocks = new, !.fence = FALSE, !.code = <<>>]
<1>1. st.blocks \in Seq(Block) /\ st.code \in Seq(Marks) /\ "code" \in Kinds \ {"heading"}
  BY DEF ReadState, Kinds
<1>2. CloseFence(st) = f
  BY DEF CloseFence
<1>3. Kept(new, st.path) /\ new \in Seq(Block) /\ Spoken(new) = Spoken(st.blocks) \o Filled(st.code)
  BY <1>1, Pushed
<1> HIDE DEF new
<1>4. f \in ReadState
  <2>1. <<>> \in Seq(Marks)
    OBVIOUS
  <2> QED BY <1>3, <2>1 DEF ReadState
<1>5. f.blocks = new /\ f.code = <<>> /\ f.path = st.path /\ f.fence = FALSE /\ f.para = st.para /\ f.items = st.items
  BY DEF ReadState
<1> HIDE DEF f
<1>6. Kept(f.blocks, f.path) /\ Spoken(f.blocks) = Spoken(st.blocks) \o Filled(st.code) /\ ~f.fence
  BY <1>3, <1>5
<1> QED BY <1>2, <1>4, <1>5, <1>6

LEMMA HeadingRead ==
  ASSUME NEW st \in ReadState, Kept(st.blocks, st.path), NEW level \in 1 .. 6, NEW tok \in Lexicon
  PROVE  LET f == Heading(st, level, tok)
         IN  /\ f \in ReadState /\ Kept(f.blocks, f.path) /\ Spoken(f.blocks) = Spoken(st.blocks) \o <<tok>>
             /\ f.para = st.para /\ f.items = st.items /\ f.code = st.code /\ f.fence = st.fence
<1> DEFINE p == UpdatePath(st.path, level, tok)
           new == PushHeading(st.blocks, p, level, tok)
           f == [st EXCEPT !.path = p, !.blocks = new]
<1>1. Heading(st, level, tok) = f
  BY DEF Heading
<1>2. Kept(new, p) /\ new \in Seq(Block) /\ Spoken(new) = Spoken(st.blocks) \o <<tok>>
  BY HeadingPushed
<1>3. p \in Seq(Lexicon)
  BY <1>2 DEF Kept
<1> HIDE DEF new, p
<1>4. f \in ReadState
  BY <1>2, <1>3 DEF ReadState
<1>5. /\ f.blocks = new /\ f.path = p
      /\ f.para = st.para /\ f.items = st.items /\ f.code = st.code /\ f.fence = st.fence
  BY DEF ReadState
<1> HIDE DEF f
<1> QED BY <1>1, <1>2, <1>4, <1>5

\* What a parser holds back, and all it has read.
InHand(st) ==
    /\ st \in ReadState /\ Kept(st.blocks, st.path)
    /\ (st.fence => st.para = <<>> /\ st.items = <<>>) /\ (~st.fence => st.code = <<>>)
    /\ st.para = <<>> \/ st.items = <<>>
Gist(st) == IF st.fence THEN st.code ELSE IF st.items # <<>> THEN st.items ELSE st.para
Heard(st) == Spoken(st.blocks) \o Filled(Gist(st))
ReadSoFar(st, words) == InHand(st) /\ Heard(st) = words

LEMMA NothingHeld ==
  ASSUME NEW st, InHand(st), Gist(st) = <<>>
  PROVE  Heard(st) = Spoken(st.blocks)
<1>1. st.blocks \in Seq(Block)
  BY DEF InHand, ReadState
<1> DEFINE said == Spoken(st.blocks)
<1>2. said \in Seq(Lexicon)
  BY <1>1, SpokenIsText
<1> HIDE DEF said
<1>3. said \o <<>> = said
  BY <1>2, ConcatProperties
<1> QED BY <1>3, FilledNone DEF Heard, said

LEMMA TextGathered ==
  ASSUME NEW st, InHand(st), NEW t \in Lexicon, ~st.fence, st.items = <<>>
  PROVE  ReadSoFar([st EXCEPT !.para = Append(@, t)], Heard(st) \o <<t>>)
<1> DEFINE n == [st EXCEPT !.para = Append(@, t)]
           old == st.para
           said == Spoken(st.blocks)
           one == <<t>>
<1>1. /\ st \in ReadState /\ Kept(st.blocks, st.path) /\ st.blocks \in Seq(Block) /\ old \in Seq(Lexicon)
      /\ (st.fence => st.para = <<>> /\ st.items = <<>>) /\ (~st.fence => st.code = <<>>)
  BY DEF InHand, ReadState
<1>2. t \in Marks /\ Append(old, t) \in Seq(Lexicon) /\ old \in Seq(Marks)
  <2>1. t \in Lexicon
    BY DEF Marks
  <2>2. Lexicon \subseteq Marks
    BY DEF Marks
  <2> HIDE DEF old
  <2> QED BY <1>1, <2>1, <2>2, SeqMonotonic, AppendProperties
<1> DEFINE more == Append(old, t)
<1>3. Filled(more) = Filled(old) \o (IF t = NoText THEN <<>> ELSE <<t>>)
  <2> HIDE DEF old
  <2> QED BY <1>2, FilledAppend
<1>4. Filled(more) = Filled(old) \o one /\ one \in Seq(Lexicon)
  <2>1. t \in Lexicon => t # NoText
    BY IngestAssumption
  <2>2. one = IF t = NoText THEN <<>> ELSE <<t>>
    BY <2>1
  <2>3. one \in Seq(Lexicon)
    BY <1>2, <2>2 DEF Marks
  <2> HIDE DEF more, one, old
  <2> QED BY <1>3, <2>2, <2>3
<1>5. n \in ReadState /\ n.para = more
  BY <1>1, <1>2 DEF ReadState
<1>6. n.blocks = st.blocks /\ n.path = st.path /\ n.fence = st.fence
  BY <1>1 DEF ReadState
<1>7. n.items = <<>> /\ n.code = <<>> /\ ~n.fence
  BY <1>1 DEF ReadState
<1> HIDE DEF n, more
<1>8. Gist(st) = old /\ Gist(n) = more /\ InHand(n)
  BY <1>1, <1>5, <1>6, <1>7 DEF Gist, InHand
<1>9. said \in Seq(Lexicon) /\ Filled(old) \in Seq(Lexicon)
  <2> HIDE DEF old
  <2> QED BY <1>1, <1>2, SpokenIsText, FilledMade
<1> HIDE DEF said, old, one
<1> DEFINE f == Filled(old)
<1>10. (said \o f) \o one = said \o (f \o one)
  <2> HIDE DEF f
  <2> QED BY <1>4, <1>9, Grouped
<1>11. Heard(st) = said \o f /\ Heard(n) = said \o (f \o one)
  BY <1>4, <1>6, <1>8 DEF Heard, said
<1> QED BY <1>8, <1>10, <1>11 DEF ReadSoFar, n, more, old, one

LEMMA ItemGathered ==
  ASSUME NEW st, InHand(st), NEW t \in Lexicon, ~st.fence, st.para = <<>>, NEW o \in BOOLEAN
  PROVE  ReadSoFar([st EXCEPT !.ordered = o, !.items = Append(@, t)], Heard(st) \o <<t>>)
<1> DEFINE n == [st EXCEPT !.ordered = o, !.items = Append(@, t)]
           old == st.items
           said == Spoken(st.blocks)
           one == <<t>>
<1>1. /\ st \in ReadState /\ Kept(st.blocks, st.path) /\ st.blocks \in Seq(Block) /\ old \in Seq(Lexicon)
      /\ (st.fence => st.para = <<>> /\ st.items = <<>>) /\ (~st.fence => st.code = <<>>)
  BY DEF InHand, ReadState
<1>2. t \in Marks /\ Append(old, t) \in Seq(Lexicon) /\ old \in Seq(Marks)
  <2>1. t \in Lexicon
    BY DEF Marks
  <2>2. Lexicon \subseteq Marks
    BY DEF Marks
  <2> HIDE DEF old
  <2> QED BY <1>1, <2>1, <2>2, SeqMonotonic, AppendProperties
<1> DEFINE more == Append(old, t)
<1>3. Filled(more) = Filled(old) \o (IF t = NoText THEN <<>> ELSE <<t>>)
  <2> HIDE DEF old
  <2> QED BY <1>2, FilledAppend
<1>4. Filled(more) = Filled(old) \o one /\ one \in Seq(Lexicon)
  <2>1. t \in Lexicon => t # NoText
    BY IngestAssumption
  <2>2. one = IF t = NoText THEN <<>> ELSE <<t>>
    BY <2>1
  <2>3. one \in Seq(Lexicon)
    BY <1>2, <2>2 DEF Marks
  <2> HIDE DEF more, one, old
  <2> QED BY <1>3, <2>2, <2>3
<1>5. n \in ReadState /\ n.items = more
  BY <1>1, <1>2 DEF ReadState
<1>6. n.blocks = st.blocks /\ n.path = st.path /\ n.fence = st.fence
  BY <1>1 DEF ReadState
<1>7. n.para = <<>> /\ n.code = <<>> /\ ~n.fence
  BY <1>1 DEF ReadState
<1> HIDE DEF n, more
<1>8. Gist(st) = old /\ Gist(n) = more /\ InHand(n)
  BY <1>1, <1>5, <1>6, <1>7 DEF Gist, InHand
<1>9. said \in Seq(Lexicon) /\ Filled(old) \in Seq(Lexicon)
  <2> HIDE DEF old
  <2> QED BY <1>1, <1>2, SpokenIsText, FilledMade
<1> HIDE DEF said, old, one
<1> DEFINE f == Filled(old)
<1>10. (said \o f) \o one = said \o (f \o one)
  <2> HIDE DEF f
  <2> QED BY <1>4, <1>9, Grouped
<1>11. Heard(st) = said \o f /\ Heard(n) = said \o (f \o one)
  BY <1>4, <1>6, <1>8 DEF Heard, said
<1> QED BY <1>8, <1>10, <1>11 DEF ReadSoFar, n, more, old, one

LEMMA CodeGathered ==
  ASSUME NEW st, InHand(st), NEW t \in Marks, st.fence
  PROVE  ReadSoFar([st EXCEPT !.code = Append(@, t)], Heard(st) \o (IF t = NoText THEN <<>> ELSE <<t>>))
<1> DEFINE n == [st EXCEPT !.code = Append(@, t)]
           old == st.code
           said == Spoken(st.blocks)
           one == (IF t = NoText THEN <<>> ELSE <<t>>)
<1>1. /\ st \in ReadState /\ Kept(st.blocks, st.path) /\ st.blocks \in Seq(Block) /\ old \in Seq(Marks)
      /\ (st.fence => st.para = <<>> /\ st.items = <<>>) /\ (~st.fence => st.code = <<>>)
  BY DEF InHand, ReadState
<1>2. t \in Marks /\ Append(old, t) \in Seq(Marks) /\ old \in Seq(Marks)
  <2>1. t \in Marks
    BY DEF Marks
  <2>2. Marks \subseteq Marks
    BY DEF Marks
  <2> HIDE DEF old
  <2> QED BY <1>1, <2>1, <2>2, SeqMonotonic, AppendProperties
<1> DEFINE more == Append(old, t)
<1>3. Filled(more) = Filled(old) \o (IF t = NoText THEN <<>> ELSE <<t>>)
  <2> HIDE DEF old
  <2> QED BY <1>2, FilledAppend
<1>4. Filled(more) = Filled(old) \o one /\ one \in Seq(Lexicon)
  <2>1. t \in Lexicon => t # NoText
    BY IngestAssumption
  <2>2. one = IF t = NoText THEN <<>> ELSE <<t>>
    BY <2>1
  <2>3. one \in Seq(Lexicon)
    BY <1>2, <2>2 DEF Marks
  <2> HIDE DEF more, one, old
  <2> QED BY <1>3, <2>2, <2>3
<1>5. n \in ReadState /\ n.code = more
  BY <1>1, <1>2 DEF ReadState
<1>6. n.blocks = st.blocks /\ n.path = st.path /\ n.fence = st.fence
  BY <1>1 DEF ReadState
<1>7. n.para = <<>> /\ n.items = <<>> /\ n.fence
  BY <1>1 DEF ReadState
<1> HIDE DEF n, more
<1>8. Gist(st) = old /\ Gist(n) = more /\ InHand(n)
  BY <1>1, <1>5, <1>6, <1>7 DEF Gist, InHand
<1>9. said \in Seq(Lexicon) /\ Filled(old) \in Seq(Lexicon)
  <2> HIDE DEF old
  <2> QED BY <1>1, <1>2, SpokenIsText, FilledMade
<1> HIDE DEF said, old, one
<1> DEFINE f == Filled(old)
<1>10. (said \o f) \o one = said \o (f \o one)
  <2> HIDE DEF f
  <2> QED BY <1>4, <1>9, Grouped
<1>11. Heard(st) = said \o f /\ Heard(n) = said \o (f \o one)
  BY <1>4, <1>6, <1>8 DEF Heard, said
<1> QED BY <1>8, <1>10, <1>11 DEF ReadSoFar, n, more, old, one

LEMMA ParagraphSettled ==
  ASSUME NEW st, InHand(st), ~st.fence
  PROVE  /\ ReadSoFar(FlushParagraph(st), Heard(st)) /\ ~FlushParagraph(st).fence /\ FlushParagraph(st).para = <<>> /\ FlushParagraph(st).items = st.items
         /\ FlushParagraph(st).code = <<>>
<1> DEFINE f == FlushParagraph(st)
           a == st.para
           b == st.items
           said == Spoken(st.blocks)
<1>1. st \in ReadState /\ Kept(st.blocks, st.path) /\ st.blocks \in Seq(Block) /\ a \in Seq(Lexicon) /\ b \in Seq(Lexicon)
      /\ st.code = <<>> /\ (a = <<>> \/ b = <<>>)
  BY DEF InHand, ReadState
<1>2. Flushed(f, st, a) /\ f.para = <<>> /\ f.items = b /\ f.code = <<>>
  BY <1>1, ParagraphFlushed
<1> HIDE DEF f
<1>3. InHand(f) /\ ~f.fence /\ Spoken(f.blocks) = said \o Filled(a) /\ Gist(f) = b
  <2>1. f \in ReadState /\ Kept(f.blocks, f.path) /\ f.fence = st.fence /\ Spoken(f.blocks) = said \o Filled(a)
    BY <1>2 DEF Flushed
  <2> HIDE DEF a, b, said
  <2> QED BY <1>2, <2>1 DEF InHand, Gist
<1>4. said \in Seq(Lexicon) /\ Filled(a) \in Seq(Lexicon)
  <2>1. Lexicon \subseteq Marks
    BY DEF Marks
  <2>2. a \in Seq(Marks)
    <3> HIDE DEF a
    <3> QED BY <1>1, <2>1, SeqMonotonic
  <2> HIDE DEF a
  <2> QED BY <1>1, <2>2, SpokenIsText, FilledMade
<1>5. Heard(f) = (said \o Filled(a)) \o Filled(b)
  BY <1>3 DEF Heard
<1>6. CASE a = <<>>
  <2>1. said \o <<>> = said
    <3> HIDE DEF said
    <3> QED BY <1>4, ConcatProperties
  <2>2. Gist(st) = b
    BY <1>6 DEF Gist
  <2> HIDE DEF a, b, said
  <2>3. said \o Filled(a) = said
    BY <1>6, <2>1, FilledNone
  <2>4. Heard(st) = said \o Filled(b)
    BY <2>2 DEF Heard, said
  <2> QED BY <1>2, <1>3, <1>5, <2>3, <2>4 DEF ReadSoFar, f, b
<1>7. CASE a # <<>>
  <2>1. b = <<>> /\ Gist(st) = a
    BY <1>1, <1>7 DEF Gist
  <2> DEFINE x == said \o Filled(a)
  <2>2. Heard(st) = x
    BY <2>1 DEF Heard
  <2>3. x \in Seq(Lexicon)
    <3> HIDE DEF said, a
    <3> QED BY <1>4, ConcatProperties
  <2> HIDE DEF x
  <2>4. x \o <<>> = x
    BY <2>3, ConcatProperties
  <2>5. Heard(f) = x
    BY <1>5, <2>1, <2>4, FilledNone DEF x
  <2> QED BY <1>2, <1>3, <2>2, <2>5 DEF ReadSoFar, f, b
<1> QED BY <1>6, <1>7

LEMMA ListSettled ==
  ASSUME NEW st, InHand(st), ~st.fence
  PROVE  /\ ReadSoFar(FlushList(st), Heard(st)) /\ ~FlushList(st).fence /\ FlushList(st).items = <<>> /\ FlushList(st).para = st.para
         /\ FlushList(st).code = <<>>
<1> DEFINE f == FlushList(st)
           a == st.items
           b == st.para
           said == Spoken(st.blocks)
<1>1. st \in ReadState /\ Kept(st.blocks, st.path) /\ st.blocks \in Seq(Block) /\ a \in Seq(Lexicon) /\ b \in Seq(Lexicon)
      /\ st.code = <<>> /\ (a = <<>> \/ b = <<>>)
  BY DEF InHand, ReadState
<1>2. Flushed(f, st, a) /\ f.items = <<>> /\ f.para = b /\ f.code = <<>>
  BY <1>1, ListFlushed
<1> HIDE DEF f
<1>3. InHand(f) /\ ~f.fence /\ Spoken(f.blocks) = said \o Filled(a) /\ Gist(f) = b
  <2>1. f \in ReadState /\ Kept(f.blocks, f.path) /\ f.fence = st.fence /\ Spoken(f.blocks) = said \o Filled(a)
    BY <1>2 DEF Flushed
  <2> HIDE DEF a, b, said
  <2> QED BY <1>2, <2>1 DEF InHand, Gist
<1>4. said \in Seq(Lexicon) /\ Filled(a) \in Seq(Lexicon)
  <2>1. Lexicon \subseteq Marks
    BY DEF Marks
  <2>2. a \in Seq(Marks)
    <3> HIDE DEF a
    <3> QED BY <1>1, <2>1, SeqMonotonic
  <2> HIDE DEF a
  <2> QED BY <1>1, <2>2, SpokenIsText, FilledMade
<1>5. Heard(f) = (said \o Filled(a)) \o Filled(b)
  BY <1>3 DEF Heard
<1>6. CASE a = <<>>
  <2>1. said \o <<>> = said
    <3> HIDE DEF said
    <3> QED BY <1>4, ConcatProperties
  <2>2. Gist(st) = b
    BY <1>6 DEF Gist
  <2> HIDE DEF a, b, said
  <2>3. said \o Filled(a) = said
    BY <1>6, <2>1, FilledNone
  <2>4. Heard(st) = said \o Filled(b)
    BY <2>2 DEF Heard, said
  <2> QED BY <1>2, <1>3, <1>5, <2>3, <2>4 DEF ReadSoFar, f, b
<1>7. CASE a # <<>>
  <2>1. b = <<>> /\ Gist(st) = a
    BY <1>1, <1>7 DEF Gist
  <2> DEFINE x == said \o Filled(a)
  <2>2. Heard(st) = x
    BY <2>1 DEF Heard
  <2>3. x \in Seq(Lexicon)
    <3> HIDE DEF said, a
    <3> QED BY <1>4, ConcatProperties
  <2> HIDE DEF x
  <2>4. x \o <<>> = x
    BY <2>3, ConcatProperties
  <2>5. Heard(f) = x
    BY <1>5, <2>1, <2>4, FilledNone DEF x
  <2> QED BY <1>2, <1>3, <2>2, <2>5 DEF ReadSoFar, f, b
<1> QED BY <1>6, <1>7

LEMMA HeardIsText ==
  ASSUME NEW st, InHand(st)
  PROVE  Heard(st) \in Seq(Lexicon) /\ Heard(st) \o <<>> = Heard(st)
<1> DEFINE g == Gist(st)
           said == Spoken(st.blocks)
           f == Filled(g)
           h == Heard(st)
<1>1. st.blocks \in Seq(Block) /\ st.code \in Seq(Marks) /\ st.items \in Seq(Lexicon) /\ st.para \in Seq(Lexicon)
  BY DEF InHand, ReadState
<1>2. g \in Seq(Marks)
  <2>1. Lexicon \subseteq Marks
    BY DEF Marks
  <2>2. st.items \in Seq(Marks) /\ st.para \in Seq(Marks)
    BY <1>1, <2>1, SeqMonotonic
  <2> QED BY <1>1, <2>2 DEF Gist
<1> HIDE DEF g
<1>3. said \in Seq(Lexicon) /\ f \in Seq(Lexicon)
  BY <1>1, <1>2, SpokenIsText, FilledMade
<1> HIDE DEF said, f
<1>4. h \in Seq(Lexicon)
  <2>1. said \o f \in Seq(Lexicon)
    BY <1>3, ConcatProperties
  <2> QED BY <2>1 DEF Heard, said, f, g
<1> HIDE DEF h
<1> QED BY <1>4, ConcatProperties DEF h

\* What a line of a file says.
Told(line) == IF line.kind \in {"blank", "fence"} THEN <<>> ELSE <<line.token>>

LEMMA AllSettled ==
  ASSUME NEW st, InHand(st), ~st.fence
  PROVE  LET f == FlushList(FlushParagraph(st))
         IN  ReadSoFar(f, Heard(st)) /\ ~f.fence /\ f.para = <<>> /\ f.items = <<>> /\ f.code = <<>>
<1> DEFINE p == FlushParagraph(st)
           f == FlushList(p)
<1>1. ReadSoFar(p, Heard(st)) /\ ~p.fence /\ p.para = <<>>
  BY ParagraphSettled
<1> HIDE DEF p
<1>2. InHand(p) /\ Heard(p) = Heard(st)
  BY <1>1 DEF ReadSoFar
<1>3. ReadSoFar(f, Heard(p)) /\ ~f.fence /\ f.items = <<>> /\ f.para = p.para /\ f.code = <<>>
  BY <1>1, <1>2, ListSettled
<1> HIDE DEF f
<1> QED BY <1>1, <1>2, <1>3 DEF f, p

LEMMA FenceSettled ==
  ASSUME NEW st, InHand(st), st.fence
  PROVE  ReadSoFar(CloseFence(st), Heard(st)) /\ ~CloseFence(st).fence
<1> DEFINE f == CloseFence(st)
<1>1. st \in ReadState /\ Kept(st.blocks, st.path) /\ st.para = <<>> /\ st.items = <<>>
  BY DEF InHand
<1>2. /\ f \in ReadState /\ Kept(f.blocks, f.path) /\ Spoken(f.blocks) = Spoken(st.blocks) \o Filled(st.code)
      /\ ~f.fence /\ f.code = <<>> /\ f.para = st.para /\ f.items = st.items
  BY <1>1, FenceClosed
<1> HIDE DEF f
<1>3. InHand(f) /\ Gist(f) = <<>>
  BY <1>1, <1>2 DEF InHand, Gist
<1>4. Heard(f) = Spoken(f.blocks)
  BY <1>3, NothingHeld
<1>5. Heard(st) = Spoken(st.blocks) \o Filled(st.code)
  BY DEF Heard, Gist
<1> QED BY <1>2, <1>3, <1>4, <1>5 DEF ReadSoFar, f

LEMMA HeadingSettled ==
  ASSUME NEW st, InHand(st), ~st.fence, st.para = <<>>, st.items = <<>>, NEW level \in 1 .. 6, NEW t \in Lexicon
  PROVE  /\ ReadSoFar(Heading(st, level, t), Heard(st) \o <<t>>) /\ ~Heading(st, level, t).fence
         /\ Heading(st, level, t).para = <<>> /\ Heading(st, level, t).items = <<>>
<1> DEFINE n == Heading(st, level, t)
<1>1. st \in ReadState /\ Kept(st.blocks, st.path) /\ st.code = <<>> /\ Gist(st) = <<>>
  BY DEF InHand, Gist
<1>2. /\ n \in ReadState /\ Kept(n.blocks, n.path) /\ Spoken(n.blocks) = Spoken(st.blocks) \o <<t>>
      /\ n.para = st.para /\ n.items = st.items /\ n.code = st.code /\ n.fence = st.fence
  BY <1>1, HeadingRead
<1> HIDE DEF n
<1>3. InHand(n) /\ Gist(n) = <<>>
  BY <1>1, <1>2 DEF InHand, Gist
<1>4. Heard(st) = Spoken(st.blocks) /\ Heard(n) = Spoken(n.blocks)
  BY <1>1, <1>3, NothingHeld
<1> QED BY <1>2, <1>3, <1>4 DEF ReadSoFar, n

LEMMA ItemRead ==
  ASSUME NEW st, InHand(st), ~st.fence, NEW line, line.token \in Lexicon, line.ordered \in BOOLEAN
  PROVE  ReadSoFar(Item(st, line), Heard(st) \o <<line.token>>)
<1> DEFINE s == FlushParagraph(st)
           r == IF s.items # <<>> /\ s.ordered # line.ordered THEN FlushList(s) ELSE s
           t == line.token
           o == line.ordered
           n == [r EXCEPT !.ordered = o, !.items = Append(@, t)]
<1>1. ReadSoFar(s, Heard(st)) /\ ~s.fence /\ s.para = <<>>
  BY ParagraphSettled
<1>2. Item(st, line) = n
  BY DEF Item
<1> HIDE DEF s
<1>3. InHand(s) /\ Heard(s) = Heard(st)
  BY <1>1 DEF ReadSoFar
<1>4. InHand(r) /\ Heard(r) = Heard(st) /\ ~r.fence /\ r.para = <<>>
  <2>1. ReadSoFar(FlushList(s), Heard(s)) /\ ~FlushList(s).fence /\ FlushList(s).para = s.para
    BY <1>1, <1>3, ListSettled
  <2> QED BY <1>1, <1>3, <2>1 DEF ReadSoFar
<1>5. t \in Lexicon /\ o \in BOOLEAN
  OBVIOUS
<1> HIDE DEF r, t, o
<1>6. ReadSoFar(n, Heard(r) \o <<t>>)
  BY <1>4, <1>5, ItemGathered
<1> QED BY <1>2, <1>4, <1>6 DEF t

LEMMA MdTurn ==
  ASSUME NEW st, InHand(st), NEW line, SourceLine(line, "md")
  PROVE  ReadSoFar(MdLine(st, line), Heard(st) \o Told(line))
<1> DEFINE n == MdLine(st, line)
           f == FlushList(FlushParagraph(st))
           k == line.kind
<1>0. Heard(st) \o <<>> = Heard(st)
  BY HeardIsText
<1>1. /\ k \in {"blank", "fence", "text", "item", "heading"}
      /\ k \in {"text", "item", "heading"} => line.token \in Lexicon
      /\ k = "heading" => line.level \in 1 .. 6
      /\ k = "item" => line.ordered \in BOOLEAN
  BY DEF SourceLine
<1>2. Told(line) = IF k \in {"blank", "fence"} THEN <<>> ELSE <<line.token>>
  BY DEF Told
<1>3. CASE st.fence /\ k = "fence"
  <2>1. n = CloseFence(st)
    BY <1>3 DEF MdLine
  <2> QED BY <1>0, <1>2, <1>3, <2>1, FenceSettled
<1>4. CASE st.fence /\ k # "fence"
  <2> DEFINE t == IF k = "blank" THEN NoText ELSE line.token
             one == IF t = NoText THEN <<>> ELSE <<t>>
  <2>1. n = [st EXCEPT !.code = Append(@, t)]
    BY <1>4 DEF MdLine
  <2>2. t \in Marks /\ Told(line) = one
    <3>1. \A x \in Lexicon : x # NoText
      BY IngestAssumption
    <3> QED BY <1>1, <1>2, <1>4, <3>1 DEF Marks
  <2> HIDE DEF t, n
  <2>3. ReadSoFar([st EXCEPT !.code = Append(@, t)], Heard(st) \o one)
    BY <1>4, <2>2, CodeGathered
  <2> QED BY <2>1, <2>2, <2>3 DEF n
<1>5. ASSUME ~st.fence PROVE ReadSoFar(n, Heard(st) \o Told(line))
  <2>1. ReadSoFar(f, Heard(st)) /\ ~f.fence /\ f.para = <<>> /\ f.items = <<>> /\ f.code = <<>>
    BY <1>5, AllSettled
  <2>2. CASE k = "fence"
    <3> DEFINE g == [f EXCEPT !.fence = TRUE]
    <3>1. n = g
      BY <1>5, <2>2 DEF MdLine
    <3> HIDE DEF f
    <3>2. f \in ReadState /\ InHand(f) /\ Gist(f) = <<>> /\ Heard(f) = Heard(st)
      BY <2>1 DEF ReadSoFar, InHand, Gist
    <3>3. g \in ReadState
      BY <3>2 DEF ReadState
    <3>4. g.blocks = f.blocks /\ g.path = f.path /\ g.para = f.para /\ g.items = f.items /\ g.code = f.code /\ g.fence = TRUE
      BY <3>2 DEF ReadState
    <3> HIDE DEF g
    <3>5. InHand(g) /\ Gist(g) = <<>>
      BY <2>1, <3>2, <3>3, <3>4 DEF InHand, Gist
    <3>6. Heard(g) = Spoken(g.blocks) /\ Heard(f) = Spoken(f.blocks)
      BY <3>2, <3>5, NothingHeld
    <3>7. Heard(g) = Heard(st)
      BY <3>2, <3>4, <3>6
    <3> QED BY <1>0, <1>2, <2>2, <3>1, <3>5, <3>7 DEF ReadSoFar
  <2>3. CASE k = "heading"
    <3>1. n = Heading(f, line.level, line.token)
      BY <1>5, <2>3 DEF MdLine
    <3> HIDE DEF f, n
    <3>2. InHand(f) /\ Heard(f) = Heard(st) /\ ~f.fence /\ f.para = <<>> /\ f.items = <<>>
      BY <2>1 DEF ReadSoFar
    <3>3. line.level \in 1 .. 6 /\ line.token \in Lexicon
      BY <1>1, <2>3
    <3>4. ReadSoFar(Heading(f, line.level, line.token), Heard(f) \o <<line.token>>)
      BY <3>2, <3>3, HeadingSettled
    <3> QED BY <1>2, <2>3, <3>1, <3>2, <3>4 DEF n
  <2>4. CASE k = "item"
    <3>1. n = Item(st, line)
      BY <1>5, <2>4 DEF MdLine
    <3> HIDE DEF n, f
    <3>2. ReadSoFar(Item(st, line), Heard(st) \o <<line.token>>)
      BY <1>1, <1>5, <2>4, ItemRead
    <3> QED BY <1>2, <2>4, <3>1, <3>2 DEF n
  <2>5. CASE k = "blank"
    <3>1. n = f
      BY <1>5, <2>5 DEF MdLine
    <3> HIDE DEF f, n
    <3> QED BY <1>0, <1>2, <2>1, <2>5, <3>1 DEF n
  <2>6. CASE k = "text"
    <3> DEFINE l == FlushList(st)
               t == line.token
    <3>1. n = [l EXCEPT !.para = Append(@, t)]
      BY <1>5, <2>6 DEF MdLine
    <3>2. ReadSoFar(l, Heard(st)) /\ ~l.fence /\ l.items = <<>>
      BY <1>5, ListSettled
    <3>3. t \in Lexicon /\ Told(line) = <<t>>
      BY <1>1, <1>2, <2>6
    <3> HIDE DEF l, t, n
    <3>4. InHand(l) /\ Heard(l) = Heard(st)
      BY <3>2 DEF ReadSoFar
    <3>5. ReadSoFar([l EXCEPT !.para = Append(@, t)], Heard(l) \o <<t>>)
      BY <3>2, <3>3, <3>4, TextGathered
    <3> QED BY <3>1, <3>3, <3>4, <3>5 DEF n
  <2> QED BY <1>1, <2>2, <2>3, <2>4, <2>5, <2>6
<1> QED BY <1>3, <1>4, <1>5

LEMMA TxtTurn ==
  ASSUME NEW st, InHand(st), ~st.fence, st.items = <<>>, NEW line, SourceLine(line, "txt")
  PROVE  /\ ReadSoFar(TxtLine(st, line), Heard(st) \o Told(line))
         /\ ~TxtLine(st, line).fence /\ TxtLine(st, line).items = <<>>
<1> DEFINE n == TxtLine(st, line)
           t == line.token
<1>0. Heard(st) \o <<>> = Heard(st)
  BY HeardIsText
<1>1. line.kind = "blank" \/ (line.kind \notin {"blank", "fence"} /\ t \in Lexicon)
  BY DEF SourceLine
<1>2. CASE line.kind = "blank"
  <2> DEFINE p == FlushParagraph(st)
  <2>1. n = p /\ Told(line) = <<>>
    BY <1>2 DEF TxtLine, Told
  <2>2. ReadSoFar(p, Heard(st)) /\ ~p.fence /\ p.items = st.items
    BY ParagraphSettled
  <2> HIDE DEF p, n
  <2> QED BY <1>0, <2>1, <2>2 DEF n
<1>3. CASE line.kind \notin {"blank", "fence"} /\ t \in Lexicon
  <2> DEFINE g == [st EXCEPT !.para = Append(@, t)]
  <2>1. n = g /\ Told(line) = <<t>>
    BY <1>3 DEF TxtLine, Told
  <2>2. ReadSoFar(g, Heard(st) \o <<t>>)
    <3> HIDE DEF t
    <3> QED BY <1>3, TextGathered
  <2>3. g.fence = st.fence /\ g.items = st.items
    BY DEF InHand, ReadState
  <2> HIDE DEF g, n
  <2> QED BY <2>1, <2>2, <2>3 DEF n
<1> QED BY <1>1, <1>2, <1>3

\* What is read in all, step by step.
LEMMA HeardAll ==
  ASSUME NEW told \in Seq(Seq(Lexicon)), NEW s, Heard(s[0]) = <<>>,
         \A k \in 1 .. Len(told) : Heard(s[k]) = Heard(s[k - 1]) \o told[k]
  PROVE  Heard(s[Len(told)]) = FlattenSeq(told)
<1> DEFINE L == Len(told)
<1>1. L \in Nat
  OBVIOUS
<1>2. PICK g \in [0 .. L -> Seq(Lexicon)] : Accumulates(g, told) /\ FlattenSeq(told) = g[L]
  BY FlattenTrace
<1> DEFINE T == {k \in 0 .. L : Heard(s[k]) = g[k]}
<1>3. 0 \in T
  BY <1>1, <1>2 DEF Accumulates
<1>4. ASSUME NEW k \in 1 .. L, k - 1 \in T PROVE k \in T
  <2>1. k \in 1 .. Len(told) /\ k \in 0 .. L
    BY <1>1
  <2>2. g[k] = g[k - 1] \o told[k]
    <3>1. \A j \in 1 .. Len(told) : g[j] = g[j - 1] \o told[j]
      BY <1>2 DEF Accumulates
    <3> QED BY <2>1, <3>1
  <2>3. Heard(s[k]) = Heard(s[k - 1]) \o told[k]
    BY <2>1
  <2> QED BY <1>4, <2>1, <2>2, <2>3
<1>5. 0 .. L \subseteq T
  <2> HIDE DEF T
  <2> QED BY <1>1, <1>3, <1>4, Induct
<1>6. L \in 0 .. L
  BY <1>1
<1> QED BY <1>2, <1>5, <1>6

\* A document that passes the validation.
LEMMA FinishedDocument ==
  ASSUME NEW format, NEW blocks, NEW warnings, Raw(blocks), IsDoc(Finish(format, blocks, warnings)),
         format = "pdf" => \A i \in DOMAIN blocks : blocks[i].kind # "heading"
  PROVE  Parsed(Finish(format, blocks, warnings)) /\ Finish(format, blocks, warnings).blocks = blocks
<1> DEFINE d == Document(format, blocks, warnings, Metrics(blocks))
<1>1. Finish(format, blocks, warnings) = Validate(d)
  BY DEF Finish, Document
<1>2. d.format = format /\ d.blocks = blocks /\ d.warnings = warnings /\ d.metrics = Metrics(blocks)
  BY DEF Document
<1>3. d = Document(d.format, d.blocks, d.warnings, Tally(d.blocks, d.blocks))
  <2>1. Metrics(blocks) = Tally(blocks, blocks)
    BY MetricsTally
  <2> QED BY <1>2, <2>1
<1> HIDE DEF d
<1>4. Bounded(d.blocks) /\ Validate(d) = d
  <2> DEFINE fits == /\ Len(d.blocks) <= MaxBlocks
                     /\ \A i \in DOMAIN d.blocks : d.blocks[i].id = i /\ Len(d.blocks[i].path) <= MaxDepth
                     /\ [d.metrics EXCEPT !.input = 0] = [Metrics(d.blocks) EXCEPT !.input = 0]
  <2>1. Validate(d) = IF fits THEN d ELSE Failure("invalid_representation")
    BY DEF Validate
  <2>2. Failure("invalid_representation").error # "none"
    BY DEF Failure
  <2>3. Validate(d).error = "none"
    BY <1>1 DEF IsDoc
  <2>4. fits
    <3> HIDE DEF fits
    <3> QED BY <2>1, <2>2, <2>3
  <2>5. Bounded(d.blocks)
    BY <2>4 DEF Bounded
  <2> HIDE DEF fits
  <2> QED BY <2>1, <2>4, <2>5
<1>5. Parsed(d)
  BY <1>2, <1>3, <1>4 DEF Parsed
<1> QED BY <1>1, <1>2, <1>4, <1>5

LEMMA FailureIsNoDoc ==
  ASSUME NEW code, code # "none"
  PROVE  ~IsDoc(Failure(code))
BY DEF IsDoc, Failure

LEMMA ReadingBegins ==
  /\ InHand(Reading) /\ Heard(Reading) = <<>>
  /\ ~Reading.fence /\ Reading.items = <<>> /\ Reading.para = <<>>
<1>1. /\ Reading.blocks = <<>> /\ Reading.path = <<>> /\ Reading.para = <<>> /\ Reading.items = <<>>
      /\ ~Reading.fence /\ Reading.code = <<>>
  BY DEF Reading
<1>2. Reading \in ReadState
  <2>1. <<>> \in Seq(Block) /\ <<>> \in Seq(Lexicon) /\ <<>> \in Seq(Marks)
    OBVIOUS
  <2> QED BY <2>1 DEF Reading, ReadState
<1>3. Kept(<<>>, <<>>)
  <2>1. Len(<<>>) = 0 /\ <<>> \in Seq(Block) /\ <<>> \in Seq(Lexicon)
    OBVIOUS
  <2>2. Raw(<<>>)
    BY <2>1 DEF Raw
  <2> QED BY <2>1, <2>2 DEF Kept, Trail
<1>4. InHand(Reading) /\ Gist(Reading) = <<>>
  BY <1>1, <1>2, <1>3 DEF InHand, Gist
<1>5. Heard(Reading) = Spoken(Reading.blocks)
  BY <1>4, NothingHeld
<1> QED BY <1>1, <1>4, <1>5, SpokenNone

\* A Markdown text, line by line.
MdReads(s, base) == FoldLeft(MdLine, base, s)
MdReadsIn(A, L, s, base) ==
    base \in A /\ L \in Nat /\ DOMAIN s = 1 .. L /\ \A a \in A : \A k \in 1 .. L : MdLine(a, s[k]) \in A
MdReadsRuns(A, L, s, base) ==
    \E g \in [0 .. L -> A] : g[0] = base /\ MdReads(s, base) = g[L] /\ \A k \in 1 .. L : g[k] = MdLine(g[k - 1], s[k])

LEMMA MdTrace ==
  ASSUME NEW A, NEW base, NEW L, NEW s, MdReadsIn(A, L, s, base)
  PROVE  MdReadsRuns(A, L, s, base)
<1> DEFINE H == [p \in A \X (1 .. L) |-> MdLine(p[1], s[p[2]])]
           F(it) == [x \in SUBSET (1 .. L) |-> IF x = {} THEN base ELSE MdLine(it[x \ {Max(x)}], s[Max(x)])]
           f == CHOOSE it : it = F(it)
<1>0. base \in A /\ L \in Nat /\ DOMAIN s = 1 .. L
  BY DEF MdReadsIn
<1>1. H \in [A \X (1 .. L) -> A]
  BY <1>0 DEF MdReadsIn
<1>2. \A a \in A : \A k \in 1 .. L : H[<<a, k>>] = MdLine(a, s[k])
  OBVIOUS
<1>3. \A x \in SUBSET (1 .. L) : x # {} => Max(x) \in 1 .. L /\ x \ {Max(x)} \in SUBSET (1 .. L)
  BY <1>0, PlacesMax
<1>4. \E it : it = F(it)
  <2>1. PICK it \in [SUBSET (1 .. L) -> A] : FoldsSets(it, base, L, H)
    <3> HIDE DEF H
    <3> QED BY <1>0, <1>1, Recursion
  <2>2. it[{}] = base /\ \A x \in SUBSET (1 .. L) : x # {} => it[x] = H[<<it[x \ {Max(x)}], Max(x)>>]
    <3> HIDE DEF H
    <3> QED BY <2>1 DEF FoldsSets
  <2>3. ASSUME NEW x \in SUBSET (1 .. L), x # {} PROVE it[x] = MdLine(it[x \ {Max(x)}], s[Max(x)])
    <3> HIDE DEF H
    <3> QED BY <1>2, <1>3, <2>2, <2>3
  <2>4. it = F(it)
    <3> HIDE DEF H
    <3> QED BY <2>2, <2>3
  <2> QED BY <2>4
<1>5. f = F(f)
  <2> HIDE DEF F, H
  <2> QED BY <1>4
<1>6. MdReads(s, base) = f[1 .. L]
  BY <1>0 DEF MdReads, FoldLeft, MapThenFoldSet
<1>7. f[{}] = base /\ \A x \in SUBSET (1 .. L) : x # {} => f[x] = MdLine(f[x \ {Max(x)}], s[Max(x)])
  <2> HIDE DEF f, H
  <2> QED BY <1>5
<1> HIDE DEF f, F, H
<1>8. FoldsFrom(f, A, L, H)
  BY <1>2, <1>3, <1>7 DEF FoldsFrom
<1>9. f[{}] = base
  BY <1>7
<1>10. Unfolds(f, A, base, L, H)
  BY <1>0, <1>1, <1>8, <1>9 DEF Unfolds
<1>11. PICK g \in [0 .. L -> A] : Follows(g, base, L, H) /\ f[1 .. L] = g[L]
  BY <1>10, Unfolding DEF Unfolded
<1>12. \A k \in 1 .. L : g[k] = MdLine(g[k - 1], s[k])
  <2> SUFFICES ASSUME NEW k \in 1 .. L PROVE g[k] = MdLine(g[k - 1], s[k])
    OBVIOUS
  <2>1. g[k - 1] \in A /\ g[k] = H[<<g[k - 1], k>>]
    BY <1>0, <1>11 DEF Follows
  <2> QED BY <2>1, <1>2
<1> QED BY <1>6, <1>11, <1>12 DEF Follows, MdReadsRuns

\* A plain text, line by line.
TxtReads(s, base) == FoldLeft(TxtLine, base, s)
TxtReadsIn(A, L, s, base) ==
    base \in A /\ L \in Nat /\ DOMAIN s = 1 .. L /\ \A a \in A : \A k \in 1 .. L : TxtLine(a, s[k]) \in A
TxtReadsRuns(A, L, s, base) ==
    \E g \in [0 .. L -> A] : g[0] = base /\ TxtReads(s, base) = g[L] /\ \A k \in 1 .. L : g[k] = TxtLine(g[k - 1], s[k])

LEMMA TxtTrace ==
  ASSUME NEW A, NEW base, NEW L, NEW s, TxtReadsIn(A, L, s, base)
  PROVE  TxtReadsRuns(A, L, s, base)
<1> DEFINE H == [p \in A \X (1 .. L) |-> TxtLine(p[1], s[p[2]])]
           F(it) == [x \in SUBSET (1 .. L) |-> IF x = {} THEN base ELSE TxtLine(it[x \ {Max(x)}], s[Max(x)])]
           f == CHOOSE it : it = F(it)
<1>0. base \in A /\ L \in Nat /\ DOMAIN s = 1 .. L
  BY DEF TxtReadsIn
<1>1. H \in [A \X (1 .. L) -> A]
  BY <1>0 DEF TxtReadsIn
<1>2. \A a \in A : \A k \in 1 .. L : H[<<a, k>>] = TxtLine(a, s[k])
  OBVIOUS
<1>3. \A x \in SUBSET (1 .. L) : x # {} => Max(x) \in 1 .. L /\ x \ {Max(x)} \in SUBSET (1 .. L)
  BY <1>0, PlacesMax
<1>4. \E it : it = F(it)
  <2>1. PICK it \in [SUBSET (1 .. L) -> A] : FoldsSets(it, base, L, H)
    <3> HIDE DEF H
    <3> QED BY <1>0, <1>1, Recursion
  <2>2. it[{}] = base /\ \A x \in SUBSET (1 .. L) : x # {} => it[x] = H[<<it[x \ {Max(x)}], Max(x)>>]
    <3> HIDE DEF H
    <3> QED BY <2>1 DEF FoldsSets
  <2>3. ASSUME NEW x \in SUBSET (1 .. L), x # {} PROVE it[x] = TxtLine(it[x \ {Max(x)}], s[Max(x)])
    <3> HIDE DEF H
    <3> QED BY <1>2, <1>3, <2>2, <2>3
  <2>4. it = F(it)
    <3> HIDE DEF H
    <3> QED BY <2>2, <2>3
  <2> QED BY <2>4
<1>5. f = F(f)
  <2> HIDE DEF F, H
  <2> QED BY <1>4
<1>6. TxtReads(s, base) = f[1 .. L]
  BY <1>0 DEF TxtReads, FoldLeft, MapThenFoldSet
<1>7. f[{}] = base /\ \A x \in SUBSET (1 .. L) : x # {} => f[x] = TxtLine(f[x \ {Max(x)}], s[Max(x)])
  <2> HIDE DEF f, H
  <2> QED BY <1>5
<1> HIDE DEF f, F, H
<1>8. FoldsFrom(f, A, L, H)
  BY <1>2, <1>3, <1>7 DEF FoldsFrom
<1>9. f[{}] = base
  BY <1>7
<1>10. Unfolds(f, A, base, L, H)
  BY <1>0, <1>1, <1>8, <1>9 DEF Unfolds
<1>11. PICK g \in [0 .. L -> A] : Follows(g, base, L, H) /\ f[1 .. L] = g[L]
  BY <1>10, Unfolding DEF Unfolded
<1>12. \A k \in 1 .. L : g[k] = TxtLine(g[k - 1], s[k])
  <2> SUFFICES ASSUME NEW k \in 1 .. L PROVE g[k] = TxtLine(g[k - 1], s[k])
    OBVIOUS
  <2>1. g[k - 1] \in A /\ g[k] = H[<<g[k - 1], k>>]
    BY <1>0, <1>11 DEF Follows
  <2> QED BY <2>1, <1>2
<1> QED BY <1>6, <1>11, <1>12 DEF Follows, TxtReadsRuns

\* What the lines of a file say.
AllTold(lines) == [i \in DOMAIN lines |-> Told(lines[i])]
IsText(lines, format) == lines \in Seq(ToSet(lines)) /\ \A l \in ToSet(lines) : SourceLine(l, format)

LEMMA LinesTold ==
  ASSUME NEW lines, NEW format, IsText(lines, format)
  PROVE  /\ AllTold(lines) \in Seq(Seq(Lexicon)) /\ Len(AllTold(lines)) = Len(lines) /\ Len(lines) \in Nat
         /\ DOMAIN lines = 1 .. Len(lines)
         /\ \A i \in 1 .. Len(lines) : SourceLine(lines[i], format) /\ AllTold(lines)[i] = Told(lines[i])
<1> DEFINE L == Len(lines)
           S == Seq(Lexicon)
           told == AllTold(lines)
           E == ToSet(lines)
<1>0. lines \in Seq(E)
  BY DEF IsText
<1>1. L \in Nat /\ DOMAIN lines = 1 .. L
  <2> HIDE DEF E
  <2> QED BY <1>0
<1>2. ASSUME NEW i \in 1 .. L PROVE SourceLine(lines[i], format)
  <2>1. lines[i] \in ToSet(lines)
    BY <1>1 DEF ToSet
  <2> QED BY <2>1 DEF IsText
<1>3. ASSUME NEW l, SourceLine(l, format) PROVE Told(l) \in S
  <2>1. l.kind \in {"blank", "fence"} \/ l.token \in Lexicon
    BY <1>3 DEF SourceLine
  <2> QED BY <2>1 DEF Told
<1>4. told = [i \in 1 .. L |-> Told(lines[i])]
  BY <1>1 DEF AllTold
<1> HIDE DEF L, S, told
<1>5. told \in [1 .. L -> S]
  BY <1>2, <1>3, <1>4
<1>6. told \in Seq(S) /\ Len(told) = L
  BY <1>1, <1>5
<1> QED BY <1>1, <1>2, <1>4, <1>6 DEF told, L, S

LEMMA MarkdownRead ==
  ASSUME NEW lines, IsText(lines, "md")
  PROVE  Raw(ParseMarkdown(lines)) /\ Spoken(ParseMarkdown(lines)) = FlattenSeq(AllTold(lines))
<1> DEFINE L == Len(lines)
           A == {st \in ReadState : InHand(st)}
           told == AllTold(lines)
           st == MdReads(lines, Reading)
           e == IF st.fence THEN CloseFence(st) ELSE st
           f == FlushList(FlushParagraph(e))
<1>1. /\ told \in Seq(Seq(Lexicon)) /\ Len(told) = L /\ L \in Nat /\ DOMAIN lines = 1 .. L
      /\ \A i \in 1 .. L : SourceLine(lines[i], "md") /\ told[i] = Told(lines[i])
  BY LinesTold
<1>2. ParseMarkdown(lines) = f.blocks
  BY DEF ParseMarkdown, MdReads
<1> HIDE DEF L, told
<1>3. MdReadsIn(A, L, lines, Reading)
  <2>1. Reading \in A
    BY ReadingBegins DEF InHand
  <2>2. ASSUME NEW a \in A, NEW k \in 1 .. L PROVE MdLine(a, lines[k]) \in A
    <3>1. ReadSoFar(MdLine(a, lines[k]), Heard(a) \o Told(lines[k]))
      BY <1>1, MdTurn
    <3> QED BY <3>1 DEF ReadSoFar, InHand
  <2> HIDE DEF A
  <2> QED BY <1>1, <2>1, <2>2 DEF MdReadsIn
<1>4. MdReadsRuns(A, L, lines, Reading)
  <2> HIDE DEF A
  <2> QED BY <1>3, MdTrace
<1>5. PICK g \in [0 .. L -> A] : /\ g[0] = Reading /\ st = g[L]
                                 /\ \A k \in 1 .. L : g[k] = MdLine(g[k - 1], lines[k])
  BY <1>4 DEF MdReadsRuns
<1>6. ASSUME NEW k \in 1 .. L PROVE Heard(g[k]) = Heard(g[k - 1]) \o told[k]
  <2> DEFINE a == g[k - 1]
  <2>1. k - 1 \in 0 .. L
    BY <1>1
  <2>2. InHand(a) /\ SourceLine(lines[k], "md") /\ g[k] = MdLine(a, lines[k]) /\ told[k] = Told(lines[k])
    BY <1>1, <1>5, <2>1
  <2> HIDE DEF a
  <2>3. ReadSoFar(MdLine(a, lines[k]), Heard(a) \o Told(lines[k]))
    BY <2>2, MdTurn
  <2> QED BY <2>2, <2>3 DEF ReadSoFar, a
<1>7. Heard(st) = FlattenSeq(told) /\ InHand(st)
  <2>1. Heard(g[0]) = <<>>
    BY <1>5, ReadingBegins
  <2>2. Heard(g[Len(told)]) = FlattenSeq(told)
    BY <1>1, <1>6, <2>1, HeardAll
  <2>3. L \in 0 .. L
    BY <1>1
  <2> HIDE DEF st
  <2> QED BY <1>1, <1>5, <2>2, <2>3
<1> HIDE DEF st, A
<1>8. InHand(e) /\ ~e.fence /\ Heard(e) = Heard(st)
  <2>1. st.fence => ReadSoFar(CloseFence(st), Heard(st)) /\ ~CloseFence(st).fence
    BY <1>7, FenceSettled
  <2> QED BY <1>7, <2>1 DEF ReadSoFar
<1> HIDE DEF e
<1>9. ReadSoFar(f, Heard(e)) /\ ~f.fence /\ f.para = <<>> /\ f.items = <<>>
  BY <1>8, AllSettled
<1> HIDE DEF f
<1>10. InHand(f) /\ Gist(f) = <<>> /\ Heard(f) = Heard(st)
  BY <1>8, <1>9 DEF ReadSoFar, Gist
<1>11. Heard(f) = Spoken(f.blocks)
  BY <1>10, NothingHeld
<1>12. Raw(f.blocks)
  BY <1>10 DEF InHand, Kept
<1> QED BY <1>2, <1>7, <1>10, <1>11, <1>12 DEF told

LEMMA TextRead ==
  ASSUME NEW lines, IsText(lines, "txt")
  PROVE  Raw(ParseText(lines)) /\ Spoken(ParseText(lines)) = FlattenSeq(AllTold(lines))
<1> DEFINE L == Len(lines)
           A == {st \in ReadState : InHand(st) /\ ~st.fence /\ st.items = <<>>}
           told == AllTold(lines)
           st == TxtReads(lines, Reading)
           f == FlushParagraph(st)
<1>1. /\ told \in Seq(Seq(Lexicon)) /\ Len(told) = L /\ L \in Nat /\ DOMAIN lines = 1 .. L
      /\ \A i \in 1 .. L : SourceLine(lines[i], "txt") /\ told[i] = Told(lines[i])
  BY LinesTold
<1>2. ParseText(lines) = f.blocks
  BY DEF ParseText, TxtReads
<1> HIDE DEF L, told
<1>3. TxtReadsIn(A, L, lines, Reading)
  <2>1. Reading \in A
    BY ReadingBegins DEF InHand
  <2>2. ASSUME NEW a \in A, NEW k \in 1 .. L PROVE TxtLine(a, lines[k]) \in A
    <3> DEFINE n == TxtLine(a, lines[k])
    <3>1. ReadSoFar(n, Heard(a) \o Told(lines[k])) /\ ~n.fence /\ n.items = <<>>
      BY <1>1, TxtTurn
    <3> HIDE DEF n
    <3>2. n \in A
      BY <3>1 DEF ReadSoFar, InHand
    <3> QED BY <3>2 DEF n
  <2> HIDE DEF A
  <2> QED BY <1>1, <2>1, <2>2 DEF TxtReadsIn
<1>4. TxtReadsRuns(A, L, lines, Reading)
  <2> HIDE DEF A
  <2> QED BY <1>3, TxtTrace
<1>5. PICK g \in [0 .. L -> A] : /\ g[0] = Reading /\ st = g[L]
                                 /\ \A k \in 1 .. L : g[k] = TxtLine(g[k - 1], lines[k])
  BY <1>4 DEF TxtReadsRuns
<1>6. ASSUME NEW k \in 1 .. L PROVE Heard(g[k]) = Heard(g[k - 1]) \o told[k]
  <2> DEFINE a == g[k - 1]
  <2>1. k - 1 \in 0 .. L
    BY <1>1
  <2>2. /\ InHand(a) /\ ~a.fence /\ a.items = <<>>
        /\ SourceLine(lines[k], "txt") /\ g[k] = TxtLine(a, lines[k]) /\ told[k] = Told(lines[k])
    BY <1>1, <1>5, <2>1
  <2> HIDE DEF a
  <2>3. ReadSoFar(TxtLine(a, lines[k]), Heard(a) \o Told(lines[k]))
    BY <2>2, TxtTurn
  <2> QED BY <2>2, <2>3 DEF ReadSoFar, a
<1>7. Heard(st) = FlattenSeq(told) /\ InHand(st) /\ ~st.fence /\ st.items = <<>>
  <2>1. Heard(g[0]) = <<>>
    BY <1>5, ReadingBegins
  <2>2. Heard(g[Len(told)]) = FlattenSeq(told)
    BY <1>1, <1>6, <2>1, HeardAll
  <2>3. L \in 0 .. L
    BY <1>1
  <2> HIDE DEF st
  <2> QED BY <1>1, <1>5, <2>2, <2>3
<1> HIDE DEF st, A
<1>9. ReadSoFar(f, Heard(st)) /\ ~f.fence /\ f.para = <<>> /\ f.items = <<>>
  BY <1>7, ParagraphSettled
<1> HIDE DEF f
<1>10. InHand(f) /\ Gist(f) = <<>> /\ Heard(f) = Heard(st)
  BY <1>9 DEF ReadSoFar, Gist
<1>11. Heard(f) = Spoken(f.blocks)
  BY <1>10, NothingHeld
<1>12. Raw(f.blocks)
  BY <1>10 DEF InHand, Kept
<1> QED BY <1>2, <1>7, <1>10, <1>11, <1>12 DEF told

\* A parsed document says what its file shows.
ParsedWhole(d, src) == IsDoc(d) => Parsed(d) /\ Spoken(d.blocks) = Shown(src)

LEMMA LinesParsed ==
  ASSUME NEW src, src.format \in {"txt", "md"}, IsText(src.lines, src.format)
  PROVE  ParsedWhole(ParseLines(src), src)
<1> DEFINE d == ParseLines(src)
           blocks == IF src.format = "md" THEN ParseMarkdown(src.lines) ELSE ParseText(src.lines)
<1>1. Shown(src) = FlattenSeq(AllTold(src.lines))
  BY DEF Shown, AllTold, Told
<1>2. Raw(blocks) /\ Spoken(blocks) = FlattenSeq(AllTold(src.lines))
  <2>1. CASE src.format = "md"
    BY <2>1, MarkdownRead
  <2>2. CASE src.format = "txt"
    BY <2>2, TextRead
  <2> QED BY <2>1, <2>2
<1>3. CASE src.defect = "not_utf8"
  <2>1. d = Failure("invalid_utf8")
    BY <1>3 DEF ParseLines
  <2>2. ~IsDoc(d)
    BY <2>1, FailureIsNoDoc
  <2> QED BY <2>2 DEF ParsedWhole
<1>4. CASE src.defect # "not_utf8"
  <2>1. d = Finish(src.format, blocks, {})
    BY <1>4 DEF ParseLines
  <2> HIDE DEF d, blocks
  <2>2. src.format # "pdf"
    OBVIOUS
  <2>3. IsDoc(d) => Parsed(d) /\ d.blocks = blocks
    BY <1>2, <2>1, <2>2, FinishedDocument
  <2> QED BY <1>1, <1>2, <2>3 DEF ParsedWhole, d
<1> QED BY <1>3, <1>4

LEMMA ListGathered ==
  ASSUME NEW st, InHand(st), NEW t \in Lexicon, ~st.fence, st.para = <<>>
  PROVE  ReadSoFar([st EXCEPT !.items = Append(@, t)], Heard(st) \o <<t>>)
<1> DEFINE n == [st EXCEPT !.items = Append(@, t)]
           old == st.items
           said == Spoken(st.blocks)
           one == <<t>>
<1>1. /\ st \in ReadState /\ Kept(st.blocks, st.path) /\ st.blocks \in Seq(Block) /\ old \in Seq(Lexicon)
      /\ (st.fence => st.para = <<>> /\ st.items = <<>>) /\ (~st.fence => st.code = <<>>)
  BY DEF InHand, ReadState
<1>2. t \in Marks /\ Append(old, t) \in Seq(Lexicon) /\ old \in Seq(Marks)
  <2>1. t \in Lexicon
    BY DEF Marks
  <2>2. Lexicon \subseteq Marks
    BY DEF Marks
  <2> HIDE DEF old
  <2> QED BY <1>1, <2>1, <2>2, SeqMonotonic, AppendProperties
<1> DEFINE more == Append(old, t)
<1>3. Filled(more) = Filled(old) \o (IF t = NoText THEN <<>> ELSE <<t>>)
  <2> HIDE DEF old
  <2> QED BY <1>2, FilledAppend
<1>4. Filled(more) = Filled(old) \o one /\ one \in Seq(Lexicon)
  <2>1. t \in Lexicon => t # NoText
    BY IngestAssumption
  <2>2. one = IF t = NoText THEN <<>> ELSE <<t>>
    BY <2>1
  <2>3. one \in Seq(Lexicon)
    BY <1>2, <2>2 DEF Marks
  <2> HIDE DEF more, one, old
  <2> QED BY <1>3, <2>2, <2>3
<1>5. n \in ReadState /\ n.items = more
  BY <1>1, <1>2 DEF ReadState
<1>6. n.blocks = st.blocks /\ n.path = st.path /\ n.fence = st.fence
  BY <1>1 DEF ReadState
<1>7. n.para = <<>> /\ n.code = <<>> /\ ~n.fence
  BY <1>1 DEF ReadState
<1> HIDE DEF n, more
<1>8. Gist(st) = old /\ Gist(n) = more /\ InHand(n)
  BY <1>1, <1>5, <1>6, <1>7 DEF Gist, InHand
<1>9. said \in Seq(Lexicon) /\ Filled(old) \in Seq(Lexicon)
  <2> HIDE DEF old
  <2> QED BY <1>1, <1>2, SpokenIsText, FilledMade
<1> HIDE DEF said, old, one
<1> DEFINE f == Filled(old)
<1>10. (said \o f) \o one = said \o (f \o one)
  <2> HIDE DEF f
  <2> QED BY <1>4, <1>9, Grouped
<1>11. Heard(st) = said \o f /\ Heard(n) = said \o (f \o one)
  BY <1>4, <1>6, <1>8 DEF Heard, said
<1> QED BY <1>8, <1>10, <1>11 DEF ReadSoFar, n, more, old, one

\* A Word document is read with no paragraph and no fence held back.
InBody(st) == InHand(st) /\ ~st.fence /\ st.para = <<>>
BodySoFar(st, words) == InBody(st) /\ Heard(st) = words

LEMMA BodySettled ==
  ASSUME NEW st, InBody(st)
  PROVE  BodySoFar(FlushList(st), Heard(st)) /\ FlushList(st).items = <<>>
<1> DEFINE f == FlushList(st)
<1>1. InHand(st) /\ ~st.fence /\ st.para = <<>>
  BY DEF InBody
<1>2. ReadSoFar(f, Heard(st)) /\ ~f.fence /\ f.items = <<>> /\ f.para = st.para
  BY <1>1, ListSettled
<1> HIDE DEF f
<1> QED BY <1>1, <1>2 DEF BodySoFar, InBody, ReadSoFar, f

LEMMA BodyPushed ==
  ASSUME NEW st, InBody(st), st.items = <<>>, NEW kind \in Kinds \ {"heading"}, NEW words \in Seq(Marks)
  PROVE  /\ BodySoFar([st EXCEPT !.blocks = Push(@, st.path, kind, words)], Heard(st) \o Filled(words))
         /\ [st EXCEPT !.blocks = Push(@, st.path, kind, words)].items = <<>>
<1> DEFINE new == Push(st.blocks, st.path, kind, words)
           n == [st EXCEPT !.blocks = new]
<1>1. InHand(st) /\ ~st.fence /\ st.para = <<>> /\ st \in ReadState /\ Kept(st.blocks, st.path) /\ Gist(st) = <<>>
      /\ st.code = <<>>
  BY DEF InBody, InHand, Gist
<1>2. Kept(new, st.path) /\ new \in Seq(Block) /\ Spoken(new) = Spoken(st.blocks) \o Filled(words)
  BY <1>1, Pushed
<1>3. [st EXCEPT !.blocks = Push(@, st.path, kind, words)] = n
  OBVIOUS
<1> HIDE DEF new
<1>4. n \in ReadState
  BY <1>1, <1>2 DEF ReadState
<1>5. n.blocks = new /\ n.path = st.path /\ n.fence = st.fence /\ n.para = st.para /\ n.items = st.items /\ n.code = st.code
  BY <1>1 DEF ReadState
<1> HIDE DEF n
<1>6. InHand(n) /\ Gist(n) = <<>>
  BY <1>1, <1>2, <1>4, <1>5 DEF InHand, Gist
<1>7. Heard(n) = Spoken(n.blocks) /\ Heard(st) = Spoken(st.blocks)
  BY <1>1, <1>6, NothingHeld
<1>8. BodySoFar(n, Heard(st) \o Filled(words)) /\ n.items = <<>>
  BY <1>1, <1>2, <1>5, <1>6, <1>7 DEF BodySoFar, InBody
<1> QED BY <1>3, <1>8

LEMMA TableRead ==
  ASSUME NEW st, InBody(st), st.items = <<>>, NEW c, c.rows \in Seq(Marks), c.header \in BOOLEAN, c.merged \in BOOLEAN
  PROVE  BodySoFar(Table(st, c), Heard(st) \o Filled(c.rows))
<1> DEFINE blocks == st.blocks
           path == st.path
           base == BaseBlock(Len(blocks), path, 0)
           words == c.rows
           header == c.header
           b == [base EXCEPT !.kind = "table", !.text = words, !.header = header]
           new == Append(blocks, b)
           warned == IF c.merged THEN st.warnings \cup {[code |-> "table_vertical_merge_limited", ids |-> {Len(blocks) + 1}]}
                     ELSE st.warnings
           n == [st EXCEPT !.blocks = new, !.warnings = warned]
           W == [code : {"table_vertical_merge_limited"}, ids : SUBSET Nat]
<1>1. InHand(st) /\ ~st.fence /\ st.para = <<>> /\ st \in ReadState /\ Kept(blocks, path) /\ Gist(st) = <<>>
      /\ st.code = <<>>
  BY DEF InBody, InHand, Gist
<1>2. Table(st, c) = n
  BY DEF Table
<1>3. path \in Seq(Lexicon) /\ blocks \in Seq(Block) /\ Len(blocks) + 1 \in Nat /\ st.warnings \in SUBSET W
  <2>1. path \in Seq(Lexicon) /\ blocks \in Seq(Block)
    BY <1>1 DEF Kept, Raw
  <2>2. st.warnings \in SUBSET W
    BY <1>1 DEF ReadState
  <2> QED BY <2>1, <2>2
<1>4. warned \in SUBSET W
  <2> DEFINE k == Len(blocks) + 1
             label == "table_vertical_merge_limited"
             ids == {k}
             more == [code |-> label, ids |-> ids]
  <2>1. k \in Nat
    BY <1>3
  <2>2. warned = IF c.merged THEN st.warnings \cup {more} ELSE st.warnings
    OBVIOUS
  <2> HIDE DEF k, warned
  <2>3. more \in W
    <3>1. label \in {"table_vertical_merge_limited"}
      OBVIOUS
    <3>2. ids \in SUBSET Nat
      BY <2>1
    <3> HIDE DEF label, ids
    <3> QED BY <3>1, <3>2
  <2> HIDE DEF more, W
  <2> QED BY <1>3, <2>2, <2>3
<1>5. words \in Seq(Marks) /\ header \in BOOLEAN
  OBVIOUS
<1> HIDE DEF path, words, header, warned, blocks
<1>6. base = [id |-> Len(blocks) + 1, kind |-> "paragraph", text |-> <<>>, level |-> 0, header |-> FALSE,
              path |-> path, page |-> 0, excluded |-> FALSE, reason |-> "none"]
  BY DEF BaseBlock
<1>7. base \in Block
  <2> DEFINE k == Len(blocks) + 1
  <2>1. k \in Nat /\ "none" \in Reasons /\ "paragraph" \in Kinds /\ <<>> \in Seq(Marks)
    BY <1>3 DEF Reasons, Kinds
  <2>2. base = [id |-> k, kind |-> "paragraph", text |-> <<>>, level |-> 0, header |-> FALSE,
                path |-> path, page |-> 0, excluded |-> FALSE, reason |-> "none"]
    BY <1>6
  <2>3. 0 \in 0 .. 6 /\ 0 \in Nat
    OBVIOUS
  <2> HIDE DEF k, base
  <2> QED BY <1>3, <2>1, <2>2, <2>3 DEF Block
<1>8. base.id = Len(blocks) + 1 /\ base.path = path /\ base.excluded = FALSE /\ base.reason = "none"
  BY <1>6
<1>9. "table" \in Kinds
  BY DEF Kinds
<1> HIDE DEF base
<1>10. b \in Block
  BY <1>5, <1>7, <1>9 DEF Block
<1>11. /\ b.id = base.id /\ b.path = base.path /\ b.excluded = base.excluded /\ b.reason = base.reason
       /\ b.kind = "table" /\ b.text = words
  BY <1>7 DEF Block
<1> HIDE DEF b
<1>12. b.id = Len(blocks) + 1 /\ ~b.excluded /\ b.reason = "none" /\ b.path = path /\ b.kind # "heading"
  BY <1>8, <1>11
<1>13. Kept(new, b.path) /\ new \in Seq(Block) /\ Spoken(new) = Spoken(blocks) \o Filled(b.text)
  BY <1>1, <1>10, <1>12, BlockAdded
<1> HIDE DEF new
<1>14. n \in ReadState
  BY <1>1, <1>4, <1>13 DEF ReadState
<1>15. n.blocks = new /\ n.path = st.path /\ n.fence = st.fence /\ n.para = st.para /\ n.items = st.items /\ n.code = st.code
  BY <1>1 DEF ReadState
<1> HIDE DEF n
<1>16. InHand(n) /\ Gist(n) = <<>>
  BY <1>1, <1>12, <1>13, <1>14, <1>15 DEF InHand, Gist, path
<1>17. Heard(n) = Spoken(n.blocks) /\ Heard(st) = Spoken(blocks)
  BY <1>1, <1>16, NothingHeld DEF blocks
<1>18. BodySoFar(n, Heard(st) \o Filled(words))
  BY <1>1, <1>11, <1>13, <1>15, <1>16, <1>17 DEF BodySoFar, InBody
<1> QED BY <1>2, <1>18 DEF words

\* What a child of the body says.
ChildTold(c) == Filled(IF c.kind = "tbl" THEN c.rows ELSE <<c.token>>)

LEMMA ParagraphRead ==
  ASSUME NEW st, InBody(st), NEW c, c.list \in BOOLEAN, c.level \in 0 .. 6, c.token \in Marks
  PROVE  BodySoFar(DocxParagraph(st, c), Heard(st) \o Filled(<<c.token>>))
<1> DEFINE t == c.token
           level == c.level
           n == DocxParagraph(st, c)
           s == FlushList(st)
<1>1. n = IF c.list /\ t # NoText THEN [st EXCEPT !.items = Append(@, t)]
          ELSE CASE level > 0 /\ t # NoText -> Heading(s, level, t)
                 [] level = 0 /\ t # NoText -> [s EXCEPT !.blocks = Push(@, s.path, "paragraph", <<t>>)]
                 [] OTHER -> s
  BY DEF DocxParagraph
<1>2. t \in Marks /\ level \in 0 .. 6
  OBVIOUS
<1>3. BodySoFar(s, Heard(st)) /\ s.items = <<>>
  BY BodySettled
<1> HIDE DEF t, level, n, s
<1>4. Filled(<<t>>) = IF t = NoText THEN <<>> ELSE <<t>>
  BY <1>2, FilledOne
<1>5. InBody(s) /\ Heard(s) = Heard(st)
  BY <1>3 DEF BodySoFar
<1>6. CASE t = NoText
  <2>1. n = s
    BY <1>1, <1>2, <1>6
  <2>2. Heard(st) \o <<>> = Heard(st)
    BY HeardIsText DEF InBody
  <2> QED BY <1>3, <1>4, <1>6, <2>1, <2>2 DEF n, t
<1>7. CASE t # NoText /\ c.list
  <2>1. n = [st EXCEPT !.items = Append(@, t)]
    BY <1>1, <1>7
  <2>2. InHand(st) /\ ~st.fence /\ st.para = <<>> /\ t \in Lexicon /\ st \in ReadState
    BY <1>2, <1>7 DEF InBody, Marks, InHand
  <2>3. ReadSoFar([st EXCEPT !.items = Append(@, t)], Heard(st) \o <<t>>)
    BY <2>2, ListGathered
  <2>4. n.fence = st.fence /\ n.para = st.para
    BY <2>1, <2>2 DEF ReadState
  <2>5. BodySoFar(n, Heard(st) \o <<t>>)
    BY <2>1, <2>2, <2>3, <2>4 DEF ReadSoFar, BodySoFar, InBody
  <2> QED BY <1>4, <1>7, <2>5 DEF n, t
<1>8. CASE t # NoText /\ ~c.list /\ level > 0
  <2>1. n = Heading(s, level, t)
    BY <1>1, <1>8
  <2>2. t \in Lexicon /\ level \in 1 .. 6
    BY <1>2, <1>8 DEF Marks
  <2>3. InHand(s) /\ ~s.fence /\ s.para = <<>>
    BY <1>5 DEF InBody
  <2> DEFINE h == Heading(s, level, t)
  <2>4. ReadSoFar(h, Heard(s) \o <<t>>) /\ ~h.fence /\ h.para = <<>>
    BY <1>3, <2>2, <2>3, HeadingSettled
  <2> HIDE DEF h
  <2>5. BodySoFar(h, Heard(st) \o <<t>>)
    BY <1>5, <2>4 DEF ReadSoFar, BodySoFar, InBody
  <2> QED BY <1>4, <1>8, <2>1, <2>5 DEF n, t, h
<1>9. CASE t # NoText /\ ~c.list /\ level = 0
  <2> DEFINE words == <<t>>
  <2>1. n = [s EXCEPT !.blocks = Push(@, s.path, "paragraph", words)]
    BY <1>1, <1>9
  <2>2. words \in Seq(Marks) /\ "paragraph" \in Kinds \ {"heading"}
    BY <1>2 DEF Kinds
  <2> HIDE DEF words
  <2>3. BodySoFar([s EXCEPT !.blocks = Push(@, s.path, "paragraph", words)], Heard(s) \o Filled(words))
    BY <1>3, <1>5, <2>2, BodyPushed
  <2> QED BY <1>5, <2>1, <2>3 DEF words, n, t
<1> QED BY <1>2, <1>6, <1>7, <1>8, <1>9

LEMMA ChildTurn ==
  ASSUME NEW st, InBody(st), NEW c, SourceChild(c)
  PROVE  BodySoFar(DocxChild(st, c), Heard(st) \o ChildTold(c))
<1>1. CASE c.kind = "tbl"
  <2> DEFINE s == FlushList(st)
  <2>1. DocxChild(st, c) = Table(s, c) /\ ChildTold(c) = Filled(c.rows)
    BY <1>1 DEF DocxChild, ChildTold
  <2>2. BodySoFar(s, Heard(st)) /\ s.items = <<>>
    BY BodySettled
  <2>3. c.rows \in Seq(Marks) /\ c.header \in BOOLEAN /\ c.merged \in BOOLEAN
    BY <1>1 DEF SourceChild, Marks
  <2> HIDE DEF s
  <2>4. InBody(s) /\ Heard(s) = Heard(st)
    BY <2>2 DEF BodySoFar
  <2>5. BodySoFar(Table(s, c), Heard(s) \o Filled(c.rows))
    BY <2>2, <2>3, <2>4, TableRead
  <2> QED BY <2>1, <2>4, <2>5
<1>2. CASE c.kind # "tbl"
  <2> DEFINE s == DocxParagraph(st, c)
             f == FlushList(s)
             g == [f EXCEPT !.blocks = Push(@, f.path, "image_ref", <<>>)]
  <2>1. DocxChild(st, c) = (IF c.image THEN g ELSE s) /\ ChildTold(c) = Filled(<<c.token>>)
    BY <1>2 DEF DocxChild, ChildTold
  <2>2. c.list \in BOOLEAN /\ c.level \in 0 .. 6 /\ c.token \in Marks /\ c.image \in BOOLEAN
    BY <1>2 DEF SourceChild, Marks
  <2> DEFINE words == Heard(st) \o Filled(<<c.token>>)
  <2>3. BodySoFar(s, words)
    BY <2>2, ParagraphRead
  <2> HIDE DEF s, words
  <2>4. BodySoFar(f, Heard(s)) /\ f.items = <<>> /\ Heard(s) = words /\ InBody(s)
    BY <2>3, BodySettled DEF BodySoFar
  <2> HIDE DEF f
  <2>5. InBody(f) /\ Heard(f) = words
    BY <2>4 DEF BodySoFar
  <2>6. BodySoFar(g, Heard(f) \o Filled(<<>>))
    <3>1. "image_ref" \in Kinds \ {"heading"} /\ <<>> \in Seq(Marks)
      BY DEF Kinds
    <3> QED BY <2>4, <2>5, <3>1, BodyPushed
  <2>7. Heard(f) \o Filled(<<>>) = words
    <3>1. Heard(f) \o <<>> = Heard(f)
      BY <2>5, HeardIsText DEF InBody
    <3> QED BY <2>5, <3>1, FilledNone
  <2> HIDE DEF g
  <2> QED BY <2>1, <2>3, <2>6, <2>7 DEF words
<1> QED BY <1>1, <1>2

\* A Word document, child by child.
DocxReads(s, base) == FoldLeft(DocxChild, base, s)
DocxReadsIn(A, L, s, base) ==
    base \in A /\ L \in Nat /\ DOMAIN s = 1 .. L /\ \A a \in A : \A k \in 1 .. L : DocxChild(a, s[k]) \in A
DocxReadsRuns(A, L, s, base) ==
    \E g \in [0 .. L -> A] : g[0] = base /\ DocxReads(s, base) = g[L] /\ \A k \in 1 .. L : g[k] = DocxChild(g[k - 1], s[k])

LEMMA DocxTrace ==
  ASSUME NEW A, NEW base, NEW L, NEW s, DocxReadsIn(A, L, s, base)
  PROVE  DocxReadsRuns(A, L, s, base)
<1> DEFINE H == [p \in A \X (1 .. L) |-> DocxChild(p[1], s[p[2]])]
           F(it) == [x \in SUBSET (1 .. L) |-> IF x = {} THEN base ELSE DocxChild(it[x \ {Max(x)}], s[Max(x)])]
           f == CHOOSE it : it = F(it)
<1>0. base \in A /\ L \in Nat /\ DOMAIN s = 1 .. L
  BY DEF DocxReadsIn
<1>1. H \in [A \X (1 .. L) -> A]
  BY <1>0 DEF DocxReadsIn
<1>2. \A a \in A : \A k \in 1 .. L : H[<<a, k>>] = DocxChild(a, s[k])
  OBVIOUS
<1>3. \A x \in SUBSET (1 .. L) : x # {} => Max(x) \in 1 .. L /\ x \ {Max(x)} \in SUBSET (1 .. L)
  BY <1>0, PlacesMax
<1>4. \E it : it = F(it)
  <2>1. PICK it \in [SUBSET (1 .. L) -> A] : FoldsSets(it, base, L, H)
    <3> HIDE DEF H
    <3> QED BY <1>0, <1>1, Recursion
  <2>2. it[{}] = base /\ \A x \in SUBSET (1 .. L) : x # {} => it[x] = H[<<it[x \ {Max(x)}], Max(x)>>]
    <3> HIDE DEF H
    <3> QED BY <2>1 DEF FoldsSets
  <2>3. ASSUME NEW x \in SUBSET (1 .. L), x # {} PROVE it[x] = DocxChild(it[x \ {Max(x)}], s[Max(x)])
    <3> HIDE DEF H
    <3> QED BY <1>2, <1>3, <2>2, <2>3
  <2>4. it = F(it)
    <3> HIDE DEF H
    <3> QED BY <2>2, <2>3
  <2> QED BY <2>4
<1>5. f = F(f)
  <2> HIDE DEF F, H
  <2> QED BY <1>4
<1>6. DocxReads(s, base) = f[1 .. L]
  BY <1>0 DEF DocxReads, FoldLeft, MapThenFoldSet
<1>7. f[{}] = base /\ \A x \in SUBSET (1 .. L) : x # {} => f[x] = DocxChild(f[x \ {Max(x)}], s[Max(x)])
  <2> HIDE DEF f, H
  <2> QED BY <1>5
<1> HIDE DEF f, F, H
<1>8. FoldsFrom(f, A, L, H)
  BY <1>2, <1>3, <1>7 DEF FoldsFrom
<1>9. f[{}] = base
  BY <1>7
<1>10. Unfolds(f, A, base, L, H)
  BY <1>0, <1>1, <1>8, <1>9 DEF Unfolds
<1>11. PICK g \in [0 .. L -> A] : Follows(g, base, L, H) /\ f[1 .. L] = g[L]
  BY <1>10, Unfolding DEF Unfolded
<1>12. \A k \in 1 .. L : g[k] = DocxChild(g[k - 1], s[k])
  <2> SUFFICES ASSUME NEW k \in 1 .. L PROVE g[k] = DocxChild(g[k - 1], s[k])
    OBVIOUS
  <2>1. g[k - 1] \in A /\ g[k] = H[<<g[k - 1], k>>]
    BY <1>0, <1>11 DEF Follows
  <2> QED BY <2>1, <1>2
<1> QED BY <1>6, <1>11, <1>12 DEF Follows, DocxReadsRuns

\* What the children of the body say.
BodyTold(children) == [i \in DOMAIN children |-> ChildTold(children[i])]
IsBody(children) == children \in Seq(ToSet(children)) /\ \A c \in ToSet(children) : SourceChild(c)

LEMMA ChildrenTold ==
  ASSUME NEW children, IsBody(children)
  PROVE  /\ BodyTold(children) \in Seq(Seq(Lexicon)) /\ Len(BodyTold(children)) = Len(children) /\ Len(children) \in Nat
         /\ DOMAIN children = 1 .. Len(children)
         /\ \A i \in 1 .. Len(children) : SourceChild(children[i]) /\ BodyTold(children)[i] = ChildTold(children[i])
<1> DEFINE L == Len(children)
           S == Seq(Lexicon)
           told == BodyTold(children)
           E == ToSet(children)
<1>0. children \in Seq(E)
  BY DEF IsBody
<1>1. L \in Nat /\ DOMAIN children = 1 .. L
  <2> HIDE DEF E
  <2> QED BY <1>0
<1>2. ASSUME NEW i \in 1 .. L PROVE SourceChild(children[i])
  <2>1. children[i] \in ToSet(children)
    BY <1>1 DEF ToSet
  <2> QED BY <2>1 DEF IsBody
<1>3. ASSUME NEW c, SourceChild(c) PROVE ChildTold(c) \in S
  <2> DEFINE words == IF c.kind = "tbl" THEN c.rows ELSE <<c.token>>
  <2>1. words \in Seq(Marks)
    <3>1. CASE c.kind = "tbl"
      <4>1. c.rows \in Seq(Marks)
        BY <1>3, <3>1 DEF SourceChild, Marks
      <4> QED BY <3>1, <4>1
    <3>2. CASE c.kind # "tbl"
      <4> DEFINE t == c.token
      <4>1. t \in Marks
        BY <1>3, <3>2 DEF SourceChild, Marks
      <4> HIDE DEF t
      <4>2. <<t>> \in Seq(Marks)
        BY <4>1
      <4> QED BY <3>2, <4>2 DEF t
    <3> QED BY <3>1, <3>2
  <2> HIDE DEF words
  <2>2. Filled(words) \in S
    BY <2>1, FilledMade
  <2> QED BY <2>2 DEF ChildTold, words
<1>4. told = [i \in 1 .. L |-> ChildTold(children[i])]
  BY <1>1 DEF BodyTold
<1> HIDE DEF L, S, told
<1>5. told \in [1 .. L -> S]
  BY <1>2, <1>3, <1>4
<1>6. told \in Seq(S) /\ Len(told) = L
  BY <1>1, <1>5
<1> QED BY <1>1, <1>2, <1>4, <1>6 DEF told, L, S

LEMMA BodyRead ==
  ASSUME NEW children, IsBody(children)
  PROVE  LET st == FlushList(FoldLeft(DocxChild, Reading, children))
         IN  Raw(st.blocks) /\ Spoken(st.blocks) = FlattenSeq(BodyTold(children))
<1> DEFINE L == Len(children)
           A == {st \in ReadState : InBody(st)}
           told == BodyTold(children)
           st == DocxReads(children, Reading)
           f == FlushList(st)
<1>1. /\ told \in Seq(Seq(Lexicon)) /\ Len(told) = L /\ L \in Nat /\ DOMAIN children = 1 .. L
      /\ \A i \in 1 .. L : SourceChild(children[i]) /\ told[i] = ChildTold(children[i])
  BY ChildrenTold
<1>2. FlushList(FoldLeft(DocxChild, Reading, children)) = f
  BY DEF DocxReads
<1> HIDE DEF L, told
<1>3. DocxReadsIn(A, L, children, Reading)
  <2>1. Reading \in A
    BY ReadingBegins DEF InHand, InBody
  <2>2. ASSUME NEW a \in A, NEW k \in 1 .. L PROVE DocxChild(a, children[k]) \in A
    <3> DEFINE n == DocxChild(a, children[k])
    <3>1. BodySoFar(n, Heard(a) \o ChildTold(children[k]))
      BY <1>1, ChildTurn
    <3> HIDE DEF n
    <3>2. n \in A
      BY <3>1 DEF BodySoFar, InBody, InHand
    <3> QED BY <3>2 DEF n
  <2> HIDE DEF A
  <2> QED BY <1>1, <2>1, <2>2 DEF DocxReadsIn
<1>4. DocxReadsRuns(A, L, children, Reading)
  <2> HIDE DEF A
  <2> QED BY <1>3, DocxTrace
<1>5. PICK g \in [0 .. L -> A] : /\ g[0] = Reading /\ st = g[L]
                                 /\ \A k \in 1 .. L : g[k] = DocxChild(g[k - 1], children[k])
  BY <1>4 DEF DocxReadsRuns
<1>6. ASSUME NEW k \in 1 .. L PROVE Heard(g[k]) = Heard(g[k - 1]) \o told[k]
  <2> DEFINE a == g[k - 1]
  <2>1. k - 1 \in 0 .. L
    BY <1>1
  <2>2. InBody(a) /\ SourceChild(children[k]) /\ g[k] = DocxChild(a, children[k]) /\ told[k] = ChildTold(children[k])
    BY <1>1, <1>5, <2>1
  <2> HIDE DEF a
  <2>3. BodySoFar(DocxChild(a, children[k]), Heard(a) \o ChildTold(children[k]))
    BY <2>2, ChildTurn
  <2> QED BY <2>2, <2>3 DEF BodySoFar, a
<1>7. Heard(st) = FlattenSeq(told) /\ InBody(st)
  <2>1. Heard(g[0]) = <<>>
    BY <1>5, ReadingBegins
  <2>2. Heard(g[Len(told)]) = FlattenSeq(told)
    BY <1>1, <1>6, <2>1, HeardAll
  <2>3. L \in 0 .. L
    BY <1>1
  <2> HIDE DEF st
  <2> QED BY <1>1, <1>5, <2>2, <2>3
<1> HIDE DEF st, A
<1>9. BodySoFar(f, Heard(st)) /\ f.items = <<>>
  BY <1>7, BodySettled
<1> HIDE DEF f
<1>10. InHand(f) /\ Gist(f) = <<>> /\ Heard(f) = Heard(st)
  BY <1>9 DEF BodySoFar, InBody, Gist
<1>11. Heard(f) = Spoken(f.blocks)
  BY <1>10, NothingHeld
<1>12. Raw(f.blocks)
  BY <1>10 DEF InHand, Kept
<1> QED BY <1>2, <1>7, <1>10, <1>11, <1>12 DEF told

LEMMA DocxParsed ==
  ASSUME NEW src, src.format = "docx", SourceFile(src)
  PROVE  ParsedWhole(ParseDocx(src), src)
<1> DEFINE d == ParseDocx(src)
           st == FlushList(FoldLeft(DocxChild, Reading, src.children))
           blocks == st.blocks
           warnings == st.warnings \cup
                      IF Chars(st.blocks) = 0 /\ ImageIds(st.blocks) # {}
                      THEN {[code |-> "visual_processing_required", ids |-> ImageIds(st.blocks)]} ELSE {}
           defect == src.defect
<1>1. /\ defect \in {"none", "not_zip", "no_directory", "no_document", "entity", "bad_xml", "no_body",
                     "many_entries", "expands_too_far", "xml_too_long"}
      /\ IsBody(src.children)
  BY DEF SourceFile, IsBody
<1>2. Shown(src) = FlattenSeq(BodyTold(src.children))
  BY DEF Shown, BodyTold, ChildTold
<1>3. Raw(blocks) /\ Spoken(blocks) = FlattenSeq(BodyTold(src.children))
  BY <1>1, BodyRead
<1>4. d = IF defect # "none" THEN Failure(DocxError(defect))
          ELSE IF Chars(blocks) > MaxText THEN Failure("text_too_large") ELSE Finish("docx", blocks, warnings)
  BY DEF ParseDocx
<1> HIDE DEF d, st, warnings, defect, blocks
<1>5. CASE defect # "none"
  <2>1. DocxError(defect) # "none"
    BY <1>1, <1>5 DEF DocxError
  <2>2. ~IsDoc(d)
    BY <1>4, <1>5, <2>1, FailureIsNoDoc
  <2> QED BY <2>2 DEF ParsedWhole, d
<1>6. CASE defect = "none"
  <2>1. CASE d = Failure("text_too_large")
    <3>1. ~IsDoc(d)
      BY <2>1, FailureIsNoDoc
    <3> QED BY <3>1 DEF ParsedWhole, d
  <2>2. CASE d = Finish("docx", blocks, warnings)
    <3>1. IsDoc(d) => Parsed(d) /\ d.blocks = blocks
      BY <1>3, <2>2, FinishedDocument
    <3> QED BY <1>2, <1>3, <3>1 DEF ParsedWhole, d
  <2> QED BY <1>4, <1>6, <2>1, <2>2
<1> QED BY <1>5, <1>6

\* Lists that say one thing each, or nothing.
LEMMA FlattenSingles ==
  ASSUME NEW E, NEW s \in Seq(E)
  PROVE  FlattenSeq([i \in DOMAIN s |-> <<s[i]>>]) = s
<1> DEFINE ss == [i \in DOMAIN s |-> <<s[i]>>]
           L == Len(s)
           S == Seq(E)
<1>1. L \in Nat /\ DOMAIN s = 1 .. L
  OBVIOUS
<1>2. ASSUME NEW i \in 1 .. L PROVE ss[i] = <<s[i]>> /\ ss[i] \in S
  <2> DEFINE e == s[i]
  <2>1. e \in E /\ ss[i] = <<e>>
    BY <1>1
  <2> HIDE DEF e, ss
  <2> QED BY <2>1 DEF e
<1>3. DOMAIN ss = 1 .. L /\ ss = [i \in 1 .. L |-> ss[i]]
  BY <1>1
<1> HIDE DEF ss, S, L
<1>4. ss \in [1 .. L -> S]
  BY <1>2, <1>3
<1>5. ss \in Seq(S) /\ Len(ss) = L
  BY <1>1, <1>3, <1>4
<1>6. PICK g \in [0 .. L -> Seq(E)] : Accumulates(g, ss) /\ FlattenSeq(ss) = g[L]
  BY <1>5, FlattenTrace DEF S
<1> DEFINE T == {k \in 0 .. L : g[k] = SubSeq(s, 1, k)}
<1>7. 0 \in T
  <2>1. SubSeq(s, 1, 0) = <<>>
    BY SubSeqEmpty
  <2> QED BY <1>1, <1>6, <2>1 DEF Accumulates
<1>8. ASSUME NEW k \in 1 .. L, k - 1 \in T PROVE k \in T
  <2>1. k \in 1 .. Len(ss) /\ k \in 0 .. L /\ 1 \in 1 .. Len(s) /\ k \in 1 .. Len(s)
    BY <1>1, <1>5 DEF L
  <2>2. g[k] = g[k - 1] \o <<s[k]>>
    <3>1. \A j \in 1 .. Len(ss) : g[j] = g[j - 1] \o ss[j]
      BY <1>6 DEF Accumulates
    <3> QED BY <1>2, <2>1, <3>1
  <2>3. SubSeq(s, 1, k) = SubSeq(s, 1, k - 1) \o <<s[k]>>
    BY <2>1, SubSeqRecursiveSecond
  <2> QED BY <1>8, <2>1, <2>2, <2>3
<1>9. L \in T
  <2>1. 0 .. L \subseteq T
    <3> HIDE DEF T
    <3> QED BY <1>1, <1>7, <1>8, Induct
  <2>2. L \in 0 .. L
    BY <1>1
  <2> QED BY <2>1, <2>2
<1>10. SubSeq(s, 1, L) = s
  BY SubSeqFull DEF L
<1> QED BY <1>6, <1>9, <1>10 DEF ss

LEMMA FlattenEmpties ==
  ASSUME NEW E, NEW ss \in Seq(Seq(E)), \A i \in DOMAIN ss : ss[i] = <<>>
  PROVE  FlattenSeq(ss) = <<>>
<1> DEFINE flat == FlattenSeq(ss)
<1>1. ToSet(<<>>) = {}
  BY DEF ToSet
<1>2. ToSet(flat) = {e \in E : \E i \in DOMAIN ss : e \in ToSet(ss[i])}
  BY FlattenHolds
<1>3. ToSet(flat) = {}
  BY <1>1, <1>2
<1>4. flat \in Seq(E)
  <2>1. <<>> \in Seq(E)
    OBVIOUS
  <2> QED BY <2>1, FlattenAppend
<1> HIDE DEF flat
<1>5. flat = <<>>
  <2> SUFFICES ASSUME flat # <<>> PROVE FALSE
    OBVIOUS
  <2>1. 1 \in DOMAIN flat
    BY <1>4
  <2>2. flat[1] \in ToSet(flat)
    BY <2>1 DEF ToSet
  <2> QED BY <1>3, <2>2
<1> QED BY <1>5 DEF flat

\* The paragraphs and the pictures of pages, before they are blocks.
Found(T) == [page : Nat, text : T]

LEMMA SpokenJoin ==
  ASSUME NEW T \in SUBSET Seq(Marks), NEW a \in Seq(Found(T)), NEW b \in Seq(Found(T))
  PROVE  Spoken(a \o b) = Spoken(a) \o Spoken(b) /\ Spoken(a) \in Seq(Lexicon)
<1> DEFINE Each(u) == [i \in DOMAIN u |-> Filled(u[i].text)]
           S == Seq(Lexicon)
           F == Found(T)
           c == a \o b
           K == Len(a)
           L == Len(b)
<1>1. ASSUME NEW f \in F PROVE Filled(f.text) \in S
  <2>1. f.text \in Seq(Marks)
    BY DEF Found
  <2> QED BY <2>1, FilledMade
<1>2. a \in Seq(F) /\ b \in Seq(F)
  OBVIOUS
<1> HIDE DEF F, S
<1>3. /\ c \in Seq(F) /\ Len(c) = K + L /\ K \in Nat /\ L \in Nat
      /\ DOMAIN a = 1 .. K /\ DOMAIN b = 1 .. L /\ DOMAIN c = 1 .. K + L
      /\ \A i \in 1 .. K + L : c[i] = IF i <= K THEN a[i] ELSE b[i - K]
  BY <1>2, ConcatProperties
<1> HIDE DEF c, K, L
<1>4. ASSUME NEW u \in Seq(F) PROVE Each(u) \in Seq(S) /\ Len(Each(u)) = Len(u) /\ DOMAIN Each(u) = 1 .. Len(u)
  <2> DEFINE n == Len(u)
             e == Each(u)
  <2>1. n \in Nat /\ DOMAIN u = 1 .. n /\ \A i \in 1 .. n : u[i] \in F
    OBVIOUS
  <2>2. e \in [1 .. n -> S]
    BY <1>1, <2>1
  <2> HIDE DEF e, Each, n
  <2>3. e \in Seq(S) /\ Len(e) = n /\ DOMAIN e = 1 .. n
    BY <2>1, <2>2
  <2> QED BY <2>3 DEF e, n
<1> DEFINE ea == Each(a)
           eb == Each(b)
           ec == Each(c)
           all == ea \o eb
<1>5. /\ ea \in Seq(S) /\ eb \in Seq(S) /\ Len(ea) = K /\ Len(eb) = L /\ DOMAIN ec = 1 .. K + L
      /\ \A i \in 1 .. K : ea[i] = Filled(a[i].text)
      /\ \A i \in 1 .. L : eb[i] = Filled(b[i].text)
      /\ \A i \in 1 .. K + L : ec[i] = Filled(c[i].text)
      /\ ec = [i \in 1 .. K + L |-> ec[i]]
  <2>1. ea \in Seq(S) /\ eb \in Seq(S) /\ Len(ea) = K /\ Len(eb) = L
    BY <1>2, <1>4 DEF K, L
  <2> QED BY <1>3, <2>1
<1>6. Spoken(a) = FlattenSeq(ea) /\ Spoken(b) = FlattenSeq(eb) /\ Spoken(c) = FlattenSeq(ec)
  BY DEF Spoken
<1> HIDE DEF ea, eb, ec
<1>7. /\ all \in Seq(S) /\ Len(all) = K + L
      /\ \A i \in 1 .. K + L : all[i] = IF i <= K THEN ea[i] ELSE eb[i - K]
  BY <1>5, ConcatProperties
<1> HIDE DEF all
<1>8. ec = all
  <2>1. ASSUME NEW i \in 1 .. K + L PROVE ec[i] = all[i]
    <3>1. CASE i <= K
      <4>1. i \in 1 .. K
        BY <1>3, <3>1
      <4>2. c[i] = a[i] /\ all[i] = ea[i]
        BY <1>3, <1>7, <3>1
      <4>3. ec[i] = Filled(c[i].text) /\ ea[i] = Filled(a[i].text)
        BY <1>5, <4>1
      <4> QED BY <4>2, <4>3
    <3>2. CASE ~(i <= K)
      <4> DEFINE j == i - K
      <4>1. j \in 1 .. L
        BY <1>3, <3>2
      <4>2. c[i] = b[j] /\ all[i] = eb[j]
        BY <1>3, <1>7, <3>2
      <4> HIDE DEF j
      <4>3. ec[i] = Filled(c[i].text) /\ eb[j] = Filled(b[j].text)
        BY <1>5, <4>1
      <4> QED BY <4>2, <4>3
    <3> QED BY <3>1, <3>2
  <2>2. DOMAIN all = 1 .. K + L
    BY <1>3, <1>7
  <2>3. all = [i \in 1 .. K + L |-> all[i]]
    BY <1>7, <2>2
  <2> QED BY <1>5, <2>1, <2>3
<1>9. FlattenSeq(ea \o eb) = FlattenSeq(ea) \o FlattenSeq(eb) /\ FlattenSeq(ea) \in S
  BY <1>5, FlattenConcat DEF S
<1> QED BY <1>6, <1>8, <1>9 DEF all, c, S

LEMMA SpokenPages ==
  ASSUME NEW T \in SUBSET Seq(Marks), NEW u \in Seq(Seq(Found(T)))
  PROVE  Spoken(FlattenSeq(u)) = FlattenSeq([p \in DOMAIN u |-> Spoken(u[p])]) /\ FlattenSeq(u) \in Seq(Found(T))
<1> DEFINE F == Found(T)
           S == Seq(Lexicon)
           e == [p \in DOMAIN u |-> Spoken(u[p])]
           L == Len(u)
           G == Seq(F)
<1>1. u \in Seq(G)
  OBVIOUS
<1> HIDE DEF G
<1>2. L \in Nat /\ DOMAIN u = 1 .. L /\ \A p \in 1 .. L : u[p] \in G
  BY <1>1
<1>3. ASSUME NEW x \in G, NEW y \in G PROVE Spoken(x \o y) = Spoken(x) \o Spoken(y) /\ Spoken(x) \in S
  BY SpokenJoin DEF G, F, S
<1> HIDE DEF F, S, L
<1>4. e \in [1 .. L -> S]
  BY <1>2, <1>3
<1>5. \A p \in 1 .. L : e[p] = Spoken(u[p])
  BY <1>2
<1> HIDE DEF e
<1>6. e \in Seq(S) /\ Len(e) = L
  BY <1>2, <1>4
<1>7. PICK g \in [0 .. L -> G] : Accumulates(g, u) /\ FlattenSeq(u) = g[L]
  BY <1>1, FlattenTrace DEF G, L
<1>8. PICK h \in [0 .. L -> S] : Accumulates(h, e) /\ FlattenSeq(e) = h[L]
  BY <1>6, FlattenTrace DEF S
<1> DEFINE P == {k \in 0 .. L : Spoken(g[k]) = h[k]}
<1>9. 0 \in P
  BY <1>2, <1>7, <1>8, SpokenNone DEF Accumulates
<1>10. ASSUME NEW k \in 1 .. L, k - 1 \in P PROVE k \in P
  <2>1. k - 1 \in 0 .. L /\ k \in 0 .. L /\ k \in 1 .. Len(u) /\ k \in 1 .. Len(e)
    BY <1>2, <1>6 DEF L
  <2>2. g[k] = g[k - 1] \o u[k]
    <3>1. \A j \in 1 .. Len(u) : g[j] = g[j - 1] \o u[j]
      BY <1>7 DEF Accumulates
    <3> QED BY <2>1, <3>1
  <2>3. h[k] = h[k - 1] \o e[k]
    <3>1. \A j \in 1 .. Len(e) : h[j] = h[j - 1] \o e[j]
      BY <1>8 DEF Accumulates
    <3> QED BY <2>1, <3>1
  <2>4. g[k - 1] \in G /\ u[k] \in G
    BY <1>2, <1>7, <2>1
  <2>5. Spoken(g[k - 1] \o u[k]) = Spoken(g[k - 1]) \o Spoken(u[k])
    BY <1>3, <2>4
  <2>6. Spoken(g[k - 1]) = h[k - 1] /\ e[k] = Spoken(u[k])
    BY <1>5, <1>10
  <2> QED BY <2>1, <2>2, <2>3, <2>5, <2>6
<1>11. L \in P
  <2>1. 0 .. L \subseteq P
    <3> HIDE DEF P
    <3> QED BY <1>2, <1>9, <1>10, Induct
  <2>2. L \in 0 .. L
    BY <1>2
  <2> QED BY <2>1, <2>2
<1>12. FlattenSeq(u) \in G
  BY <1>2, <1>7
<1> QED BY <1>7, <1>8, <1>11, <1>12 DEF e, G, F

LEMMA CharsIsNat ==
  ASSUME NEW blocks \in Seq(Block)
  PROVE  Chars(blocks) \in Nat
<1> DEFINE sizes == [i \in DOMAIN blocks |-> TextSize(blocks[i])]
           L == Len(blocks)
<1>1. L \in Nat /\ DOMAIN blocks = 1 .. L /\ \A i \in 1 .. L : blocks[i] \in Block
  OBVIOUS
<1>2. ASSUME NEW b \in Block PROVE TextSize(b) \in Nat
  <2> DEFINE words == b.text
             rows == [i \in DOMAIN words |-> Size(words[i])]
             n == Len(words)
             total == Sum(rows)
  <2>1. words \in Seq(Marks)
    BY DEF Block
  <2>2. TextSize(b) = IF b.kind = "image_ref" \/ words = <<>> THEN 0 ELSE total + n - 1
    BY DEF TextSize
  <2> HIDE DEF words
  <2>3. n \in Nat /\ DOMAIN words = 1 .. n /\ \A i \in 1 .. n : words[i] \in Marks
    BY <2>1
  <2>4. rows \in [1 .. n -> Nat]
    BY <2>3, SizeIsNat
  <2>5. words # <<>> => n # 0
    BY <2>1
  <2> HIDE DEF rows, n
  <2>6. rows \in Seq(Nat)
    BY <2>3, <2>4
  <2>7. total \in Nat
    BY <2>6, SumAppend
  <2> HIDE DEF total
  <2>8. words # <<>> => total + n - 1 \in Nat
    BY <2>3, <2>5, <2>7
  <2> QED BY <2>2, <2>8
<1> HIDE DEF L
<1>3. sizes \in [1 .. L -> Nat]
  BY <1>1, <1>2
<1> HIDE DEF sizes
<1>4. sizes \in Seq(Nat)
  BY <1>1, <1>3
<1>5. Sum(sizes) \in Nat
  BY <1>4, SumAppend
<1> QED BY <1>5 DEF Chars, sizes

\* What the pages of a PDF are made of.
PagesOf(src, kind) == [p \in DOMAIN src.pages |-> PdfPage(src, p, kind)]
IsPdf(src) == src.pages \in Seq(ToSet(src.pages)) /\ \A p \in ToSet(src.pages) : SourcePage(p)

LEMMA PdfBlocksMade ==
  ASSUME NEW src, NEW kind \in {"paragraph", "image_ref"}, NEW T \in SUBSET Seq(Marks),
         PagesOf(src, kind) \in Seq(Seq(Found(T)))
  PROVE  /\ Raw(PdfBlocks(src, kind)) /\ \A i \in DOMAIN PdfBlocks(src, kind) : PdfBlocks(src, kind)[i].kind # "heading"
         /\ Spoken(PdfBlocks(src, kind)) = FlattenSeq([p \in DOMAIN PagesOf(src, kind) |-> Spoken(PagesOf(src, kind)[p])])
<1> DEFINE pages == PagesOf(src, kind)
           found == FlattenSeq(pages)
           bs == PdfBlocks(src, kind)
           L == Len(found)
<1>1. bs = [i \in DOMAIN found |-> [BaseBlock(i - 1, <<>>, found[i].page) EXCEPT !.kind = kind, !.text = found[i].text]]
  BY DEF PdfBlocks, PagesOf
<1>2. found \in Seq(Found(T)) /\ Spoken(found) = FlattenSeq([p \in DOMAIN pages |-> Spoken(pages[p])])
  <2> HIDE DEF pages
  <2> QED BY SpokenPages DEF pages
<1> HIDE DEF found, pages, bs
<1>3. L \in Nat /\ DOMAIN found = 1 .. L /\ \A i \in 1 .. L : found[i] \in Found(T)
  BY <1>2
<1>4. kind \in Kinds /\ kind # "heading" /\ "paragraph" \in Kinds /\ "none" \in Reasons
  BY DEF Kinds, Reasons
<1> HIDE DEF L
<1>5. ASSUME NEW i \in 1 .. L
      PROVE  /\ bs[i] \in Block /\ bs[i].id = i /\ bs[i].path = <<>> /\ ~bs[i].excluded /\ bs[i].reason = "none"
             /\ bs[i].kind = kind /\ bs[i].text = found[i].text
  <2> DEFINE page == found[i].page
             words == found[i].text
             base == BaseBlock(i - 1, <<>>, page)
             b == [base EXCEPT !.kind = kind, !.text = words]
  <2>1. bs[i] = b
    BY <1>1, <1>3
  <2>2. page \in Nat /\ words \in Seq(Marks)
    BY <1>3 DEF Found
  <2> HIDE DEF page, words
  <2>3. base = [id |-> i, kind |-> "paragraph", text |-> <<>>, level |-> 0, header |-> FALSE,
                path |-> <<>>, page |-> page, excluded |-> FALSE, reason |-> "none"]
    <3>1. i - 1 + 1 = i
      BY <1>3
    <3> QED BY <3>1 DEF BaseBlock
  <2>4. base \in Block
    <3>1. i \in Nat /\ <<>> \in Seq(Marks) /\ <<>> \in Seq(Lexicon) /\ 0 \in 0 .. 6
      BY <1>3
    <3> HIDE DEF base
    <3> QED BY <1>4, <2>2, <2>3, <3>1 DEF Block
  <2>5. base.id = i /\ base.path = <<>> /\ base.excluded = FALSE /\ base.reason = "none"
    BY <2>3
  <2> HIDE DEF base
  <2>6. b \in Block
    BY <1>4, <2>2, <2>4 DEF Block
  <2>7. /\ b.id = base.id /\ b.path = base.path /\ b.excluded = base.excluded /\ b.reason = base.reason
        /\ b.kind = kind /\ b.text = words
    BY <2>4 DEF Block
  <2> HIDE DEF b
  <2> QED BY <2>1, <2>5, <2>6, <2>7 DEF words
<1>6. bs \in Seq(Block) /\ Len(bs) = L /\ DOMAIN bs = 1 .. L
  <2>1. DOMAIN bs = 1 .. L /\ bs = [i \in 1 .. L |-> bs[i]]
    BY <1>1, <1>3
  <2>2. bs \in [1 .. L -> Block]
    BY <1>5, <2>1
  <2> QED BY <1>3, <2>1, <2>2
<1>7. ASSUME NEW i \in 1 .. L PROVE RawAt(bs, i)
  <2>1. Trail(bs, i - 1) = <<>>
    <3>1. CASE i = 1
      <4>1. i - 1 = 0
        BY <3>1
      <4> QED BY <4>1 DEF Trail
    <3>2. CASE i # 1
      <4>1. i - 1 \in 1 .. L /\ i - 1 # 0
        BY <1>3, <3>2
      <4> QED BY <1>5, <4>1 DEF Trail
    <3> QED BY <3>1, <3>2
  <2> QED BY <1>4, <1>5, <2>1 DEF RawAt
<1>8. Raw(bs)
  BY <1>6, <1>7 DEF Raw
<1>9. Spoken(bs) = Spoken(found)
  <2>1. [i \in DOMAIN bs |-> Filled(bs[i].text)] = [i \in DOMAIN found |-> Filled(found[i].text)]
    BY <1>3, <1>5, <1>6
  <2> QED BY <2>1 DEF Spoken
<1>10. \A i \in DOMAIN bs : bs[i].kind # "heading"
  BY <1>4, <1>5, <1>6
<1> QED BY <1>2, <1>8, <1>9, <1>10 DEF bs, pages

LEMMA PagesMade ==
  ASSUME NEW src, IsPdf(src)
  PROVE  /\ PagesOf(src, "paragraph") \in Seq(Seq(Found(Seq(Marks))))
         /\ PagesOf(src, "image_ref") \in Seq(Seq(Found({<<>>})))
         /\ [p \in DOMAIN PagesOf(src, "paragraph") |-> Spoken(PagesOf(src, "paragraph")[p])]
              = [p \in DOMAIN src.pages |-> src.pages[p].texts]
         /\ \A p \in DOMAIN PagesOf(src, "image_ref") : Spoken(PagesOf(src, "image_ref")[p]) = <<>>
<1> DEFINE pages == src.pages
           L == Len(pages)
           a == PagesOf(src, "paragraph")
           b == PagesOf(src, "image_ref")
           E == ToSet(pages)
           SA == Seq(Found(Seq(Marks)))
           SB == Seq(Found({<<>>}))
<1>0. pages \in Seq(E)
  BY DEF IsPdf
<1>1. L \in Nat /\ DOMAIN pages = 1 .. L
  <2> HIDE DEF E
  <2> QED BY <1>0
<1>2. ASSUME NEW p \in 1 .. L PROVE pages[p].texts \in Seq(Lexicon) /\ pages[p].images \in Nat
  <2>1. pages[p] \in ToSet(pages)
    BY <1>1 DEF ToSet
  <2>2. SourcePage(pages[p])
    BY <2>1 DEF IsPdf
  <2> QED BY <2>2 DEF SourcePage
<1>3. ASSUME NEW p \in 1 .. L
      PROVE  PdfPage(src, p, "paragraph") \in SA /\ Spoken(PdfPage(src, p, "paragraph")) = pages[p].texts
  <2> DEFINE mine == pages[p].texts
             n == Len(mine)
             page == [i \in 1 .. n |-> [page |-> p, text |-> <<mine[i]>>]]
  <2>1. mine \in Seq(Lexicon)
    BY <1>2
  <2>2. PdfPage(src, p, "paragraph") = [i \in DOMAIN mine |-> [page |-> p, text |-> <<mine[i]>>]]
    BY DEF PdfPage
  <2> HIDE DEF mine
  <2>3. n \in Nat /\ DOMAIN mine = 1 .. n /\ \A i \in 1 .. n : mine[i] \in Lexicon
    BY <2>1
  <2>4. ASSUME NEW t \in Lexicon PROVE <<t>> \in Seq(Marks) /\ Filled(<<t>>) = <<t>> /\ [page |-> p, text |-> <<t>>] \in Found(Seq(Marks))
    <3>1. t # NoText /\ t \in Marks
      BY IngestAssumption DEF Marks
    <3>2. <<t>> \in Seq(Marks) /\ p \in Nat
      BY <1>1, <3>1
    <3>3. Filled(<<t>>) = <<t>>
      BY <3>1, FilledOne
    <3> DEFINE w == <<t>>
    <3> HIDE DEF w
    <3>4. [page |-> p, text |-> w] \in Found(Seq(Marks))
      BY <3>2 DEF Found, w
    <3> QED BY <3>2, <3>3, <3>4 DEF w
  <2>5. \A i \in 1 .. n : [page |-> p, text |-> <<mine[i]>>] \in Found(Seq(Marks))
    BY <2>3, <2>4
  <2> DEFINE F == Found(Seq(Marks))
  <2>6. page \in [1 .. n -> F]
    BY <2>5
  <2>7. [i \in DOMAIN page |-> Filled(page[i].text)] = [i \in DOMAIN mine |-> <<mine[i]>>]
    BY <2>3, <2>4
  <2>8. PdfPage(src, p, "paragraph") = page
    BY <2>2, <2>3
  <2> HIDE DEF page, n, F
  <2>9. page \in Seq(F)
    BY <2>3, <2>6
  <2>10. Spoken(page) = mine
    BY <2>1, <2>7, FlattenSingles DEF Spoken
  <2> QED BY <2>8, <2>9, <2>10 DEF F, mine
<1>4. ASSUME NEW p \in 1 .. L
      PROVE  PdfPage(src, p, "image_ref") \in SB /\ Spoken(PdfPage(src, p, "image_ref")) = <<>>
  <2> DEFINE n == pages[p].images
             F == Found({<<>>})
             page == [i \in 1 .. n |-> [page |-> p, text |-> <<>>]]
  <2>1. n \in Nat /\ p \in Nat
    BY <1>1, <1>2
  <2>2. PdfPage(src, p, "image_ref") = page
    BY DEF PdfPage
  <2>3. [page |-> p, text |-> <<>>] \in F
    BY <2>1 DEF Found
  <2>4. page \in [1 .. n -> F]
    <3> HIDE DEF F
    <3> QED BY <2>3
  <2> DEFINE told == [i \in DOMAIN page |-> Filled(page[i].text)]
  <2>5. told = [i \in 1 .. n |-> <<>>]
    <3>1. \A i \in 1 .. n : Filled(page[i].text) = <<>>
      BY FilledNone
    <3> QED BY <3>1
  <2> HIDE DEF page, n, F
  <2>6. page \in Seq(F)
    BY <2>1, <2>4
  <2> HIDE DEF told
  <2>7. told \in Seq(Seq(Lexicon)) /\ \A i \in DOMAIN told : told[i] = <<>>
    <3>1. <<>> \in Seq(Lexicon)
      OBVIOUS
    <3> DEFINE S == Seq(Lexicon)
    <3> HIDE DEF S
    <3>2. told \in [1 .. n -> S]
      BY <2>5, <3>1 DEF S
    <3> QED BY <2>1, <2>5, <3>2 DEF S
  <2>8. FlattenSeq(told) = <<>>
    BY <2>7, FlattenEmpties
  <2> QED BY <2>2, <2>6, <2>8 DEF Spoken, F, told
<1>5. a = [p \in 1 .. L |-> PdfPage(src, p, "paragraph")] /\ b = [p \in 1 .. L |-> PdfPage(src, p, "image_ref")]
  BY <1>1 DEF PagesOf
<1> HIDE DEF a, b, SA, SB, L
<1>6. a \in [1 .. L -> SA] /\ b \in [1 .. L -> SB]
  BY <1>3, <1>4, <1>5
<1>7. a \in Seq(SA) /\ b \in Seq(SB) /\ DOMAIN a = 1 .. L /\ DOMAIN b = 1 .. L
  BY <1>1, <1>6
<1>8. ASSUME NEW p \in 1 .. L PROVE Spoken(a[p]) = pages[p].texts /\ Spoken(b[p]) = <<>>
  BY <1>3, <1>4, <1>5
<1>9. [p \in DOMAIN a |-> Spoken(a[p])] = [p \in DOMAIN pages |-> pages[p].texts]
  BY <1>1, <1>7, <1>8
<1> QED BY <1>7, <1>8, <1>9 DEF a, b, SA, SB

LEMMA PdfParsed ==
  ASSUME NEW src, src.format = "pdf", SourceFile(src)
  PROVE  ParsedWhole(ParsePdf(src), src)
<1> DEFINE d == ParsePdf(src)
           paras == PdfBlocks(src, "paragraph")
           images == PdfBlocks(src, "image_ref")
           defect == src.defect
           a == PagesOf(src, "paragraph")
           b == PagesOf(src, "image_ref")
           warnings == IF images = <<>> THEN {} ELSE {[code |-> "ocr_required", ids |-> ImageIds(images)]}
<1>1. defect \in {"none", "long", "encrypted", "not_pdf", "broken", "many_pages"} /\ IsPdf(src)
  BY DEF SourceFile, IsPdf
<1>2. /\ a \in Seq(Seq(Found(Seq(Marks)))) /\ b \in Seq(Seq(Found({<<>>})))
      /\ [p \in DOMAIN a |-> Spoken(a[p])] = [p \in DOMAIN src.pages |-> src.pages[p].texts]
      /\ \A p \in DOMAIN b : Spoken(b[p]) = <<>>
  BY <1>1, PagesMade
<1>3. Shown(src) = FlattenSeq([p \in DOMAIN src.pages |-> src.pages[p].texts])
  BY DEF Shown
<1>4. /\ Raw(paras) /\ \A i \in DOMAIN paras : paras[i].kind # "heading"
      /\ Spoken(paras) = Shown(src)
  <2> DEFINE T == Seq(Marks)
  <2>1. T \in SUBSET Seq(Marks) /\ a \in Seq(Seq(Found(T)))
    BY <1>2
  <2> HIDE DEF T, paras, a
  <2>2. /\ Raw(paras) /\ \A i \in DOMAIN paras : paras[i].kind # "heading"
        /\ Spoken(paras) = FlattenSeq([p \in DOMAIN a |-> Spoken(a[p])])
    BY <2>1, PdfBlocksMade DEF paras, a
  <2> QED BY <1>2, <1>3, <2>2
<1>5. /\ Raw(images) /\ \A i \in DOMAIN images : images[i].kind # "heading"
      /\ Spoken(images) = <<>>
  <2> DEFINE T == {<<>>}
  <2>1. T \in SUBSET Seq(Marks) /\ b \in Seq(Seq(Found(T)))
    BY <1>2
  <2> HIDE DEF T, images, b
  <2>2. /\ Raw(images) /\ \A i \in DOMAIN images : images[i].kind # "heading"
        /\ Spoken(images) = FlattenSeq([p \in DOMAIN b |-> Spoken(b[p])])
    BY <2>1, PdfBlocksMade DEF images, b
  <2> DEFINE each == [p \in DOMAIN b |-> Spoken(b[p])]
             n == Len(b)
             S == Seq(Lexicon)
             F == Seq(Found(T))
  <2>3. each = [p \in DOMAIN b |-> <<>>]
    BY <1>2
  <2> HIDE DEF each
  <2>4. <<>> \in S /\ b \in Seq(F)
    BY <2>1
  <2> HIDE DEF S, F
  <2>5. n \in Nat /\ DOMAIN b = 1 .. n
    BY <2>4
  <2> HIDE DEF n
  <2>6. each \in [1 .. n -> S] /\ \A i \in DOMAIN each : each[i] = <<>>
    BY <2>3, <2>4, <2>5
  <2>7. each \in Seq(S)
    BY <2>5, <2>6
  <2>8. FlattenSeq(each) = <<>>
    BY <2>6, <2>7, FlattenEmpties DEF S
  <2> QED BY <2>2, <2>8 DEF each
<1>6. Chars(paras) \in Nat /\ Len(paras) \in Nat
  <2>1. paras \in Seq(Block)
    BY <1>4 DEF Raw
  <2> HIDE DEF paras
  <2> QED BY <2>1, CharsIsNat
<1>7. \/ \E code : d = Failure(code) /\ code # "none"
      \/ d = Finish("pdf", paras, {})
      \/ paras = <<>> /\ d = Finish("pdf", images, warnings)
  <2> DEFINE chars == Chars(paras)
             n == Len(paras)
             none == paras = <<>>
             w == warnings
  <2>1. d = CASE defect \notin {"none", "long"} -> Failure(PdfError(defect))
              [] OTHER ->
                 CASE chars > MaxText -> Failure("text_too_large")
                   [] chars <= MaxText /\ n > MaxBlocks -> Failure("too_many_units")
                   [] chars <= MaxText /\ n <= MaxBlocks /\ ~none -> Finish("pdf", paras, {})
                   [] none /\ defect = "long" -> Failure("pdf_visual_inspection_limit")
                   [] none /\ defect = "none" /\ Len(images) > MaxBlocks -> Failure("too_many_units")
                   [] OTHER -> Finish("pdf", images, w)
    BY DEF ParsePdf
  <2>2. defect \notin {"none", "long"} => PdfError(defect) # "none"
    BY <1>1 DEF PdfError
  <2>3. chars \in Nat /\ n \in Nat /\ MaxText \in Nat /\ MaxBlocks \in Nat
    BY <1>6, IngestAssumption
  <2> DEFINE big == chars > MaxText
             long == n > MaxBlocks
  <2>4. (chars <= MaxText <=> ~big) /\ (n <= MaxBlocks <=> ~long)
    BY <2>3
  <2>5. CASE defect \notin {"none", "long"}
    BY <2>1, <2>2, <2>5
  <2>6. CASE defect \in {"none", "long"}
    <3>1. d = CASE big -> Failure("text_too_large")
                [] ~big /\ long -> Failure("too_many_units")
                [] ~big /\ ~long /\ ~none -> Finish("pdf", paras, {})
                [] none /\ defect = "long" -> Failure("pdf_visual_inspection_limit")
                [] none /\ defect = "none" /\ Len(images) > MaxBlocks -> Failure("too_many_units")
                [] OTHER -> Finish("pdf", images, w)
      BY <2>1, <2>4, <2>6
    <3> DEFINE many == Len(images) > MaxBlocks
    <3> HIDE DEF d, big, long, none, w, many
    <3>2. \/ d = Failure("text_too_large") \/ d = Failure("too_many_units") \/ d = Finish("pdf", paras, {})
          \/ d = Failure("pdf_visual_inspection_limit") \/ (none /\ d = Finish("pdf", images, w))
      BY <3>1 DEF many
    <3> QED BY <3>2 DEF none, w
  <2> QED BY <2>5, <2>6
<1> HIDE DEF d, paras, images, warnings
<1>8. CASE \E code : d = Failure(code) /\ code # "none"
  <2>1. ~IsDoc(d)
    BY <1>8, FailureIsNoDoc
  <2> QED BY <2>1 DEF ParsedWhole, d
<1>9. CASE d = Finish("pdf", paras, {})
  <2>1. IsDoc(d) => Parsed(d) /\ d.blocks = paras
    BY <1>4, <1>9, FinishedDocument
  <2> QED BY <1>4, <2>1 DEF ParsedWhole, d
<1>10. CASE paras = <<>> /\ d = Finish("pdf", images, warnings)
  <2>1. IsDoc(d) => Parsed(d) /\ d.blocks = images
    BY <1>5, <1>10, FinishedDocument
  <2>2. Shown(src) = <<>>
    BY <1>4, <1>10, SpokenNone
  <2> QED BY <1>5, <2>1, <2>2 DEF ParsedWhole, d
<1> QED BY <1>7, <1>8, <1>9, <1>10

\* Whatever the file, a parsed document holds it whole.
LEMMA DocumentParsed ==
  ASSUME NEW src, SourceFile(src)
  PROVE  ParsedWhole(ParseDocument(src), src)
<1> DEFINE d == ParseDocument(src)
           f == src.format
<1>1. f \in {"txt", "md", "docx", "pdf"}
  BY DEF SourceFile
<1>2. d = CASE f \in {"txt", "md"} -> ParseLines(src)
            [] f = "docx" -> ParseDocx(src)
            [] f = "pdf" -> ParsePdf(src)
  BY DEF ParseDocument
<1> HIDE DEF d
<1>3. CASE f \in {"txt", "md"}
  <2>1. d = ParseLines(src)
    BY <1>2, <1>3
  <2>2. IsText(src.lines, f)
    BY <1>3 DEF SourceFile, IsText
  <2>3. src.format \in {"txt", "md"}
    BY <1>3
  <2>4. ParsedWhole(ParseLines(src), src)
    BY <2>2, <2>3, LinesParsed
  <2> QED BY <2>1, <2>4 DEF d
<1>4. CASE f = "docx"
  <2>1. d = ParseDocx(src)
    BY <1>2, <1>4
  <2> QED BY <1>4, <2>1, DocxParsed DEF d
<1>5. CASE f = "pdf"
  <2>1. d = ParsePdf(src)
    BY <1>2, <1>5
  <2> QED BY <1>5, <2>1, PdfParsed DEF d
<1> QED BY <1>1, <1>3, <1>4, <1>5

-----------------------------------------------------------------------------
(* The pipeline (DocumentChunks).                                           *)

\* A file that was read fails for another reason than its own blocks.
FailedWell(d, src) ==
    d.error # "none" /\ (IsDoc(ParseDocument(src)) => d.error # "invalid_representation")

CleanWell(d) == Tidy(d.blocks) /\ Unhidden(d.blocks)
GroupWell(us, gs) == gs \in Seq(Group(us, Len(us))) /\ FlattenSeq(gs) = UpTo(Len(us))

\* What each stage hands over to the next one.
IngestInv ==
    /\ phase # "none" => SourceFile(source)
    /\ phase = "clean" => structured = ParseDocument(source) /\ IsDoc(structured)
    /\ phase \in {"unit", "refused", "embed", "merge", "done"} => CleanWell(structured)
    /\ phase = "failed" => FailedWell(structured, source)
    /\ phase \notin {"embed", "merge", "done", "failed"} => units = <<>>
    /\ phase \in {"embed", "merge", "done"} => CutFrom(SemanticUnits(structured), units)
    /\ phase = "merge" => GroupWell(units, groups)
    /\ phase = "done" => ChunksHold(units, Len(units), chunks)
    /\ mergeIndex \in Nat \ {0}

LEMMA IngestStarts == ASSUME IngestInit PROVE IngestInv
<1>1. phase = "parse" /\ source \in Sources /\ units = <<>> /\ mergeIndex = 1
  BY DEF IngestInit
<1>2. SourceFile(source)
  BY <1>1, IngestAssumption
<1> QED BY <1>1, <1>2 DEF IngestInv

LEMMA ParseKeeps == ASSUME IngestInv, Parse PROVE IngestInv'
<1>1. /\ phase = "parse" /\ structured' = ParseDocument(source) /\ phase' = (IF IsDoc(structured') THEN "clean" ELSE "failed")
      /\ UNCHANGED <<source, units, dist, groups, mergeIndex, chunks>>
  BY DEF Parse
<1>2. SourceFile(source) /\ units = <<>> /\ mergeIndex \in Nat \ {0}
  BY <1>1 DEF IngestInv
<1>3. ~IsDoc(structured') => FailedWell(structured', source')
  <2>1. ~IsDoc(structured') => structured'.error # "none" /\ ~IsDoc(ParseDocument(source'))
    BY <1>1 DEF IsDoc
  <2> QED BY <2>1 DEF FailedWell
<1>4. source' = source /\ units' = units /\ mergeIndex' = mergeIndex
  BY <1>1
<1>5. CASE IsDoc(structured')
  BY <1>1, <1>2, <1>4, <1>5 DEF IngestInv
<1>6. CASE ~IsDoc(structured')
  BY <1>1, <1>2, <1>3, <1>4, <1>6 DEF IngestInv
<1> QED BY <1>5, <1>6

LEMMA CleanKeeps == ASSUME IngestInv, CleanParsed PROVE IngestInv'
<1> DEFINE n == Normalize(structured)
<1>1. /\ phase = "clean" /\ structured' = (IF IsDoc(n) THEN CleanDocument(n) ELSE n)
      /\ phase' = CASE ~IsDoc(structured') -> "failed"
                    [] IsDoc(structured') /\ Quality(structured') = "ready" -> "unit"
                    [] OTHER -> "refused"
      /\ source' = source /\ units' = units /\ mergeIndex' = mergeIndex
  BY DEF CleanParsed
<1>2. SourceFile(source) /\ structured = ParseDocument(source) /\ IsDoc(structured) /\ units = <<>> /\ mergeIndex \in Nat \ {0}
  BY <1>1 DEF IngestInv
<1>3. Parsed(structured)
  BY <1>2, DocumentParsed DEF ParsedWhole
<1>4. IsDoc(n) /\ IsDoc(CleanDocument(n)) /\ CleanDocument(n).blocks = CleanOf(structured)
  BY <1>3, DocumentCleaned
<1>5. IsDoc(structured') /\ CleanWell(structured')
  <2>1. Tidy(CleanOf(structured)) /\ Unhidden(CleanOf(structured))
    BY <1>3, CleanIsTidy, CleanHidesLittle
  <2>2. structured' = CleanDocument(n)
    BY <1>1, <1>4
  <2>3. IsDoc(structured') /\ structured'.blocks = CleanOf(structured)
    BY <1>4, <2>2
  <2> QED BY <2>1, <2>3 DEF CleanWell
<1>6. phase' \in {"unit", "refused"}
  BY <1>1, <1>5
<1> QED BY <1>1, <1>2, <1>5, <1>6 DEF IngestInv

LEMMA UnitsKeep == ASSUME IngestInv, MakeUnits PROVE IngestInv'
<1> DEFINE us == SemanticUnits(structured)
           cut == FlattenSeq([i \in DOMAIN us |-> SplitLongUnit(us[i])])
<1>1. phase = "unit" /\ source' = source /\ mergeIndex' = mergeIndex
  BY DEF MakeUnits
<1>2. SourceFile(source) /\ CleanWell(structured) /\ units = <<>> /\ mergeIndex \in Nat \ {0}
  BY <1>1 DEF IngestInv
<1>3. \/ structured' = Failure("structural_unit_too_large") /\ phase' = "failed" /\ units' = units
      \/ ~Refused(us) /\ units' = cut /\ phase' = "embed" /\ structured' = structured
  BY DEF MakeUnits, FailWith
<1>4. CASE structured' = Failure("structural_unit_too_large") /\ phase' = "failed" /\ units' = units
  <2>1. structured'.error = "structural_unit_too_large"
    BY <1>4 DEF Failure
  <2>2. FailedWell(structured', source')
    BY <2>1 DEF FailedWell
  <2> QED BY <1>1, <1>2, <1>4, <2>2 DEF IngestInv
<1>5. CASE ~Refused(us) /\ units' = cut /\ phase' = "embed" /\ structured' = structured
  <2>1. us \in Seq(Whole)
    BY <1>2, UnitsGathered DEF CleanWell, UnitsFit
  <2>2. MaxChunk \in Nat \ {0} /\ Overlap \in Nat
    BY IngestAssumption
  <2>3. CutFrom(SemanticUnits(structured'), units')
    <3> HIDE DEF us
    <3>1. CutFrom(us, cut)
      BY <1>5, <2>1, <2>2, UnitsSplit
    <3> QED BY <1>5, <3>1 DEF us
  <2>4. CleanWell(structured')
    BY <1>2, <1>5
  <2> QED BY <1>1, <1>2, <1>5, <2>3, <2>4 DEF IngestInv
<1> QED BY <1>3, <1>4, <1>5

\* The units that are cut have a size the chunker can add up.
LEMMA CutUnits ==
  ASSUME NEW us, NEW out, CutFrom(us, out)
  PROVE  /\ Len(out) \in Nat /\ DOMAIN out = 1 .. Len(out) /\ Sized(out, Len(out))
         /\ \A i \in 1 .. Len(out) : out[i].size <= MaxChunk /\ out[i] \in Unit
<1>1. out \in Seq(Unit)
  BY DEF CutFrom
<1>2. Len(out) \in Nat /\ DOMAIN out = 1 .. Len(out) /\ \A i \in 1 .. Len(out) : out[i] \in Unit
  <2> HIDE DEF Unit
  <2> QED BY <1>1
<1>3. ASSUME NEW i \in 1 .. Len(out) PROVE out[i].size \in Nat /\ out[i].size <= MaxChunk
  <2>1. out[i] \in ToSet(out)
    BY <1>2 DEF ToSet
  <2>2. PICK u \in ToSet(us) : out[i] \in PartOf(u)
    BY <2>1 DEF CutFrom
  <2>3. out[i].size <= MaxChunk /\ out[i] \in Unit
    BY <2>2 DEF PartOf
  <2> QED BY <2>3 DEF Unit
<1> QED BY <1>2, <1>3 DEF Sized

LEMMA EmbedKeeps == ASSUME IngestInv, EmbedUnits PROVE IngestInv'
<1>1. phase = "embed" /\ source' = source /\ units' = units /\ mergeIndex' = mergeIndex
  BY DEF EmbedUnits
<1>2. SourceFile(source) /\ CleanWell(structured) /\ CutFrom(SemanticUnits(structured), units) /\ mergeIndex \in Nat \ {0}
  BY <1>1 DEF IngestInv
<1>3. \/ structured' = Failure("embedding_failed") /\ phase' = "failed"
      \/ groups' = NaturalGroups(units, dist') /\ phase' = "merge" /\ structured' = structured
  BY DEF EmbedUnits, FailWith
<1>4. CASE structured' = Failure("embedding_failed") /\ phase' = "failed"
  <2>1. structured'.error = "embedding_failed"
    BY <1>4 DEF Failure
  <2>2. FailedWell(structured', source')
    BY <2>1 DEF FailedWell
  <2> QED BY <1>1, <1>2, <1>4, <2>2 DEF IngestInv
<1>5. CASE groups' = NaturalGroups(units, dist') /\ phase' = "merge" /\ structured' = structured
  <2>1. Len(units) \in Nat /\ DOMAIN units = 1 .. Len(units)
    BY <1>2, CutUnits
  <2>2. GroupsUpTo(units, Len(units), NaturalGroups(units, dist'), Len(units))
    BY <2>1, GroupsMade
  <2>3. GroupWell(units', groups')
    BY <1>1, <1>5, <2>2 DEF GroupsUpTo, GroupWell
  <2>4. CleanWell(structured') /\ CutFrom(SemanticUnits(structured'), units')
    BY <1>1, <1>2, <1>5
  <2> QED BY <1>1, <1>2, <1>5, <2>3, <2>4 DEF IngestInv
<1> QED BY <1>3, <1>4, <1>5

LEMMA MergeKeeps == ASSUME IngestInv, MergeShort PROVE IngestInv'
<1> DEFINE t == Target(groups, dist, mergeIndex)
           a == IF t < mergeIndex THEN t ELSE mergeIndex
<1>1. phase = "merge" /\ phase' = "merge" /\ source' = source /\ units' = units /\ structured' = structured /\ mergeIndex <= Len(groups)
  BY DEF MergeShort
<1>2. /\ SourceFile(source) /\ CleanWell(structured) /\ CutFrom(SemanticUnits(structured), units)
      /\ GroupWell(units, groups) /\ mergeIndex \in Nat \ {0}
  BY <1>1 DEF IngestInv
<1>3. SourceFile(source') /\ CleanWell(structured') /\ CutFrom(SemanticUnits(structured'), units')
  BY <1>1, <1>2
<1>4. IF Mergeable(units, groups, dist, mergeIndex)
      THEN groups' = Merged(groups, mergeIndex, t) /\ mergeIndex' = (IF a > 1 THEN a - 1 ELSE 1)
      ELSE groups' = groups /\ mergeIndex' = mergeIndex + 1
  BY DEF MergeShort
<1>5. Len(units) \in Nat /\ groups \in Seq(Group(units, Len(units))) /\ FlattenSeq(groups) = UpTo(Len(units))
  BY <1>2, CutUnits DEF GroupWell
<1>6. Len(groups) \in Nat /\ DOMAIN groups = 1 .. Len(groups) /\ mergeIndex \in 1 .. Len(groups)
  <2> DEFINE G == Group(units, Len(units))
  <2>1. groups \in Seq(G)
    BY <1>5
  <2> HIDE DEF G
  <2> QED BY <1>1, <1>2, <2>1
<1>7. CASE Mergeable(units, groups, dist, mergeIndex)
  <2>1. /\ Merged(groups, mergeIndex, t) \in Seq(Group(units, Len(units)))
        /\ FlattenSeq(Merged(groups, mergeIndex, t)) = FlattenSeq(groups)
    BY <1>5, <1>6, <1>7, GroupsMerged
  <2>2. t \in DOMAIN groups
    BY <1>7 DEF Mergeable
  <2> HIDE DEF t
  <2>3. mergeIndex' \in Nat \ {0}
    BY <1>4, <1>6, <1>7, <2>2
  <2>4. GroupWell(units', groups')
    BY <1>1, <1>4, <1>5, <1>7, <2>1 DEF GroupWell
  <2> QED BY <1>1, <1>3, <2>3, <2>4 DEF IngestInv
<1>8. CASE ~Mergeable(units, groups, dist, mergeIndex)
  <2>1. GroupWell(units', groups') /\ mergeIndex' \in Nat \ {0}
    BY <1>1, <1>2, <1>4, <1>8
  <2> QED BY <1>1, <1>3, <2>1 DEF IngestInv
<1> QED BY <1>7, <1>8

LEMMA CutKeeps == ASSUME IngestInv, CutChunks PROVE IngestInv'
<1>1. /\ phase = "merge" /\ phase' = "done" /\ chunks' = Chunks(units, groups)
      /\ source' = source /\ units' = units /\ structured' = structured /\ mergeIndex' = mergeIndex
  BY DEF CutChunks
<1>2. /\ SourceFile(source) /\ CleanWell(structured) /\ CutFrom(SemanticUnits(structured), units)
      /\ GroupWell(units, groups) /\ mergeIndex \in Nat \ {0}
  BY <1>1 DEF IngestInv
<1>3. SourceFile(source') /\ CleanWell(structured') /\ CutFrom(SemanticUnits(structured'), units')
  BY <1>1, <1>2
<1>4. /\ Len(units) \in Nat /\ Sized(units, Len(units)) /\ \A i \in 1 .. Len(units) : units[i].size <= MaxChunk
      /\ groups \in Seq(Group(units, Len(units))) /\ FlattenSeq(groups) = UpTo(Len(units))
  BY <1>2, CutUnits DEF GroupWell
<1>5. MaxChunk \in Nat
  BY IngestAssumption
<1>6. ChunksHold(units, Len(units), Chunks(units, groups))
  BY <1>4, <1>5, ChunksMade
<1> QED BY <1>1, <1>2, <1>3, <1>6 DEF IngestInv

LEMMA IngestStep == ASSUME IngestInv, [IngestNext]_ingestVars PROVE IngestInv'
<1>1. CASE UNCHANGED ingestVars
  BY <1>1 DEF ingestVars, IngestInv
<1>2. CASE IngestNext
  BY <1>2, ParseKeeps, CleanKeeps, UnitsKeep, EmbedKeeps, MergeKeeps, CutKeeps DEF IngestNext
<1> QED BY <1>1, <1>2

\* What the units are cut from: the blocks that are kept, all of them.
LEMMA UnitsTellAll ==
  ASSUME NEW d, NEW us, Tidy(d.blocks), CutFrom(SemanticUnits(d), us)
  PROVE  /\ {us[i].block : i \in DOMAIN us} = {b.id : b \in {x \in ToSet(d.blocks) : ~x.excluded /\ x.kind # "image_ref"}}
         /\ \A u \in ToSet(us) : Cited(d.blocks, u) /\ u \in Unit
<1> DEFINE from == SemanticUnits(d)
           L == Len(d.blocks)
<1>1. UnitsFit(d.blocks, from)
  BY UnitsGathered
<1> HIDE DEF from
<1>2. CutFrom(from, us)
  BY DEF from
<1>3. \A u \in ToSet(us) : u \in Unit
  <2>1. us \in Seq(Unit)
    BY <1>2 DEF CutFrom
  <2> HIDE DEF Unit
  <2> QED BY <2>1 DEF ToSet
<1>4. ASSUME NEW v \in ToSet(us) PROVE Cited(d.blocks, v) /\ \E u \in ToSet(from) : v.block = u.block
  <2>1. PICK u \in ToSet(from) : v \in PartOf(u)
    BY <1>2 DEF CutFrom
  <2>2. v.block = u.block /\ v.path = u.path /\ v.cites = u.cites
    BY <2>1 DEF PartOf
  <2>3. Cited(d.blocks, u)
    BY <1>1 DEF UnitsFit
  <2> QED BY <2>2, <2>3 DEF Cited
<1>5. ASSUME NEW u \in ToSet(from) PROVE \E v \in ToSet(us) : v.block = u.block
  <2>1. PICK v \in ToSet(us) : v \in PartOf(u)
    BY <1>2 DEF CutFrom
  <2> QED BY <2>1 DEF PartOf
<1>6. {v.block : v \in ToSet(us)} = {u.block : u \in ToSet(from)}
  BY <1>4, <1>5
<1>7. {us[i].block : i \in DOMAIN us} = {v.block : v \in ToSet(us)}
  BY DEF ToSet
<1>8. {u.block : u \in ToSet(from)} = Telling(d.blocks, L)
  BY <1>1 DEF UnitsFit
<1>9. Telling(d.blocks, L) = {b.id : b \in {x \in ToSet(d.blocks) : ~x.excluded /\ x.kind # "image_ref"}}
  <2>1. d.blocks \in Seq(Block) /\ \A i \in 1 .. L : d.blocks[i].id = i
    BY DEF Tidy, TidyAt
  <2>2. DOMAIN d.blocks = 1 .. L
    <3> HIDE DEF Block
    <3> QED BY <2>1
  <2> HIDE DEF L
  <2> QED BY <2>1, <2>2 DEF Telling, ToSet
<1> QED BY <1>3, <1>4, <1>6, <1>7, <1>8, <1>9

LEMMA LinesAreKept == ASSUME IngestInv PROVE KeepsLines
<1> SUFFICES ASSUME phase = "clean" PROVE Spoken(structured.blocks) = Shown(source)
  BY DEF KeepsLines, Spoken
<1>1. SourceFile(source) /\ structured = ParseDocument(source) /\ IsDoc(structured)
  BY DEF IngestInv
<1> QED BY <1>1, DocumentParsed DEF ParsedWhole

LEMMA CleaningWasSafe == ASSUME IngestInv PROVE CleaningIsSafe
<1>1. phase \in {"unit", "refused"} => Unhidden(structured.blocks)
  BY DEF IngestInv, CleanWell
<1>2. phase = "failed" /\ IsDoc(ParseDocument(source)) => structured.error # "invalid_representation"
  BY DEF IngestInv, FailedWell
<1>3. Unhidden(structured.blocks) => \A i \in DOMAIN structured.blocks :
        LET same == {j \in DOMAIN structured.blocks : structured.blocks[j].text = structured.blocks[i].text}
        IN  structured.blocks[i].reason \in {"repeated_header", "repeated_footer"}
              => Cardinality({structured.blocks[j].page : j \in same}) >= 3
  BY DEF Unhidden, OnThree
<1> QED BY <1>1, <1>2, <1>3 DEF CleaningIsSafe

LEMMA PathsAreCited == ASSUME IngestInv PROVE CitesItsPath
<1>1. CASE phase \notin {"embed", "merge", "done", "failed"}
  <2>1. ToSet(units) = {}
    BY <1>1 DEF IngestInv, ToSet
  <2> QED BY <2>1 DEF CitesItsPath
<1>2. CASE phase = "failed"
  BY <1>2 DEF IngestInv, FailedWell, CitesItsPath
<1>3. CASE phase \in {"embed", "merge", "done"}
  <2>1. Tidy(structured.blocks) /\ CutFrom(SemanticUnits(structured), units)
    BY <1>3 DEF IngestInv, CleanWell
  <2>2. \A u \in ToSet(units) : Cited(structured.blocks, u)
    BY <2>1, UnitsTellAll
  <2> QED BY <2>2 DEF CitesItsPath, Cited, Names
<1> QED BY <1>1, <1>2, <1>3

LEMMA NothingWasLost == ASSUME IngestInv PROVE NothingLost /\ ChunksBounded
<1> SUFFICES ASSUME phase = "done" PROVE NothingLost /\ ChunksBounded
  BY DEF NothingLost, ChunksBounded
<1>1. Tidy(structured.blocks) /\ CutFrom(SemanticUnits(structured), units) /\ ChunksHold(units, Len(units), chunks)
  BY DEF IngestInv, CleanWell
<1>2. /\ FlattenSeq(chunks) = [i \in 1 .. Len(units) |-> i]
      /\ \A c \in ToSet(chunks) : GroupSize(units, c) <= MaxChunk /\ (HasStructural(units, c) => Len(c) = 1)
  BY <1>1 DEF ChunksHold, UpTo
<1>3. /\ {units[i].block : i \in DOMAIN units} = {b.id : b \in {x \in ToSet(structured.blocks) : ~x.excluded /\ x.kind # "image_ref"}}
      /\ \A u \in ToSet(units) : u \in Unit
  BY <1>1, UnitsTellAll
<1>4. ASSUME NEW u \in ToSet(units), NEW i \in DOMAIN u.parts, u.parts[i] > 0
      PROVE  PiecesCover(u.parts[i], u.breaks)
  <2> DEFINE n == u.parts[i]
             at == u.breaks
  <2>1. u.parts \in Seq(Nat) /\ at \in SUBSET Nat
    BY <1>3 DEF Unit
  <2>2. n \in Nat /\ n # 0
    BY <1>4, <2>1
  <2>3. MaxChunk \in Nat \ {0} /\ Overlap \in Nat
    BY IngestAssumption
  <2> HIDE DEF n, at
  <2>4. PiecesCover(n, at)
    BY <2>1, <2>2, <2>3, SplitCovers
  <2> QED BY <2>4 DEF n, at
<1>5. NothingLost
  BY <1>2, <1>3, <1>4 DEF NothingLost
<1>6. ChunksBounded
  BY <1>2 DEF ChunksBounded
<1> QED BY <1>5, <1>6

\* Whatever the file and the limits, no line of it is lost between the parser
\* and the chunks: the blocks hold its lines in their order, cleaning hides no
\* text but what three pages repeat and leaves a valid document, every unit
\* cites headings its path names, and the chunks hold every unit once and in
\* order, each within the limit and a list or table by itself (parseMarkdown,
\* parseTxt, parseDocx, parsePdf, cleanNormalizedStructuredDocument,
\* structuredDocumentToSemanticUnits, semanticChunkPlan).
THEOREM IngestTheorem == IngestInit /\ [][IngestNext]_ingestVars => []IngestKeepsText
<1>1. IngestInit => IngestInv
  BY IngestStarts
<1>2. IngestInv /\ [IngestNext]_ingestVars => IngestInv'
  BY IngestStep
<1>3. IngestInv => IngestKeepsText
  BY LinesAreKept, CleaningWasSafe, PathsAreCited, NothingWasLost DEF IngestKeepsText
<1> QED
  BY <1>1, <1>2, <1>3, PTL

=============================================================================
