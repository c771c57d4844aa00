--------------------------- MODULE RetrievalIndex ---------------------------
(***************************************************************************)
(* The index job service as a whole: the worker, the administrators'       *)
(* requests, knowledge edits, crashes and Qdrant, and what must be true of *)
(* them together.                                                          *)
(***************************************************************************)
EXTENDS IndexBuild, IndexAlias

Edit       == \E i \in Items : EditItem(i) \/ ToggleItem(i)
WorkerStep == Drain \/ Build
Request(o) == \E j \in Jobs, exp \in Collections :
                 \/ \E good \in BOOLEAN : StartActivate(o, j, exp, good)
                 \/ StartRollback(o, j, exp)
Proceed(o) == \/ \E good \in BOOLEAN : GotReconcile(o, good) \/ GotApplied(o, good)
              \/ GotCurrent(o) \/ GotSwitch(o) \/ OpFails(o)
Qdrant(o)  == ReadAlias(o) \/ UpdateAlias(o)

Next ==
    \/ Edit
    \/ CreateJob
    \/ \E j \in Jobs : GetJob(j) \/ LoseCollection(j)
    \/ WorkerStep
    \/ \E o \in AliasOps : Request(o) \/ Proceed(o) \/ Qdrant(o)
    \/ Crash
    \/ Boot

\* The container restarts a dead process, the worker's requests are answered
\* or time out.  Nothing obliges an administrator.
Fairness == WF_vars(Boot) /\ WF_vars(WorkerStep)

Spec == Init /\ [][Next]_vars /\ Fairness

-----------------------------------------------------------------------------
\* At most one job is active (completeActivation, completeRollback), however
\* many requests interleave.
OneActive == \A i, j \in Jobs :
    jobs[i].status = "active" /\ jobs[j].status = "active" => i = j

\* At most one intent is stored (requireNoOtherIntent), so the pending one
\* that findPendingIntent returns is the only one.
OneIntent == \A i, j \in Jobs :
    jobs[i].intent # "none" /\ jobs[j].intent # "none" => i = j

\* Customers are only served from a collection whose build was verified:
\* active, formerly active, or ready with its activation under way; never one
\* that is being built, failed or went stale (activate, getJob).
ServedIsVerified == alias # NoCollection => Verified(jobs, alias)

\* Nor can a switch under way, or a rollback offered later, lead to a
\* collection that is not (activate, rollback, reconcilePendingIntent): an
\* activation that has not stored its intent is the only exception.
TargetsVerified ==
    /\ \A j \in Jobs : jobs[j].prev # NoCollection => Verified(jobs, jobs[j].prev)
    /\ \A o \in AliasOps :
          /\ ops[o].seen # NoCollection => Verified(jobs, ops[o].seen)
          /\ \/ ops[o].to = NoCollection
             \/ Verified(jobs, ops[o].to)
             \/ /\ ops[o].pc \in {"askCurrent", "gotCurrent"}
                /\ ops[o].intent = "activate" /\ ops[o].to = ops[o].src

\* An intent belongs to a job in the state that it starts from, until the
\* transaction that completes it: no other statement moves that job
\* (markStale, completeActivation, completeRollback).
IntentMatchesStatus == \A j \in Jobs :
    /\ jobs[j].intent = "activate" => jobs[j].status = "ready"
    /\ jobs[j].intent = "rollback" => jobs[j].status = "active"
                                      /\ jobs[j].prev # NoCollection

\* A stored intent is never refused for the alias: it is where the switch starts
\* or where it ends, so reconcilePendingIntent will not throw for it and block
\* every later activation and rollback (a lost target it can still meet).
IntentReconcilable == \A j \in WithIntent(jobs) :
    alias \in {jobs[j].expected, IntentTarget(jobs, j)}

\* With no intent stored, SQLite's active job is the one the alias names.
RecordIsLive == WithIntent(jobs) = {} =>
    WithStatus(jobs, {"active"}) = {alias} \ {NoCollection}

\* A ready collection holds exactly the items and revisions of the snapshot
\* its job was created for, unless Qdrant lost it since (createJob,
\* processNext).
ReadyMatches == \A j \in WithStatus(jobs, {"ready"}) \cap collections :
    points[j] = jobs[j].fp

\* The checkpoint never runs ahead of Qdrant: while the snapshot is current,
\* the rows a resumed build skips were written (saveCheckpoint, cursorAt), or
\* the collection is gone with them, and processNext notices that.
CheckpointWritten == \A j \in WithStatus(jobs, {"running", "interrupted"}) :
    jobs[j].fp = Current /\ j \in collections =>
        \A i \in First(Present(jobs[j].fp), jobs[j].checkpoint) :
            points[j][i] = jobs[j].fp[i]

\* Whatever is switched off and on meanwhile, there are as many points as rows
\* in the snapshot, and none is of another revision of its row.
ReadyIsFresh == \A j \in WithStatus(jobs, {"ready"}) \cap collections :
    LET of == points[j] IN
    /\ Count(of) = Count(jobs[j].fp)
    /\ \A i \in Present(of) \cap Present(jobs[j].fp) : of[i] = jobs[j].fp[i]

\* No row can be active for part of a build only and leave the fingerprint as
\* it was, but the last document: its reading ends every build (an entry needs
\* four revisions to be switched off, on and off).
NothingReturns == Toggleable \subseteq {NumFaqs + NumDocs} /\ MaxRev <= 3

\* However often a build is interrupted, resumed or repeated beside edits, its
\* collection becomes ready as the snapshot or not at all.  A row that is active
\* only while a build reads it is counted in place of another, while the
\* fingerprint is the old one again: the code leaves that open.
ReadyIsSnapshot ==
    /\ ReadyIsFresh
    /\ NothingReturns => ReadyMatches /\ CheckpointWritten

\* A job that waits to be built is eventually decided, across crashes and
\* restarts (start, drain, processNext).
BuildsResolve == \A j \in Jobs :
    jobs[j].status \in {"queued", "running", "interrupted"}
        ~> jobs[j].status \notin {"queued", "running", "interrupted"}

\* One operation at a time implements LiveIndex.
Live == INSTANCE LiveIndex WITH
    Collection <- Jobs,
    Nothing    <- NoCollection,
    live       <- alias,
    recorded   <- IF WithStatus(jobs, {"active"}) = {} THEN NoCollection
                  ELSE First1(WithStatus(jobs, {"active"})),
    goal       <- IF WithIntent(jobs) = {} THEN NoCollection
                  ELSE IntentTarget(jobs, First1(WithIntent(jobs)))

LiveSpec == Live!Spec
=============================================================================
