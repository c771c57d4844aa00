----------------------------- MODULE IndexBuild -----------------------------
(***************************************************************************)
(* Jobs and their builds: createJob, getJob, drain and processNext, with   *)
(* the knowledge edits they race with and the crashes they survive.        *)
(***************************************************************************)
EXTENDS IndexState

(* Knowledge edits, by the FAQ and document services. *)

SetItem(i, on, rev) ==
    /\ Free
    /\ knowledge' = [knowledge EXCEPT ![i] = [on |-> on, rev |-> rev]]
    /\ NeverEmpty => \E x \in Items : knowledge'[x].on
    /\ UNCHANGED <<jobs, qdrant, up, worker, ops, crashes>>

\* A FAQ edit, (de)activation or embedding, or a replaced chunk: new revision.
EditItem(i) ==
    /\ knowledge[i].rev < MaxRev
    /\ \E on \in BOOLEAN : SetItem(i, on, knowledge[i].rev + 1)

\* Switching a document off or on leaves created_at of its chunks alone.
ToggleItem(i) ==
    /\ i \in Toggleable
    /\ SetItem(i, ~knowledge[i].on, knowledge[i].rev)

-----------------------------------------------------------------------------
(* Jobs. *)

\* createJob.  The number of the new job is its place in creation order.
CreateJob ==
    /\ Free
    /\ Present(Current) # {}
    /\ Reusable(jobs, Current) = {}
    /\ \E j \in Jobs \ Existing(jobs) :
          /\ Existing(jobs) = 1 .. (j - 1)
          /\ jobs' = Create(jobs, j, Current)
    /\ worker' = IF worker.pc = "off" THEN WorkerAt("loop") ELSE worker
    /\ UNCHANGED <<knowledge, qdrant, up, ops, crashes>>

GetJob(j) ==
    /\ Free
    /\ Noticed(jobs, j) # jobs
    /\ jobs' = Noticed(jobs, j)
    /\ UNCHANGED <<knowledge, qdrant, up, worker, ops, crashes>>

-----------------------------------------------------------------------------
(* The worker: drain and processNext. *)

\* One turn of drain's loop up to the first await of processNext.
DrainStop ==
    /\ Pending(jobs) = {}
    /\ worker' = WorkerAt("off")
    /\ UNCHANGED <<knowledge, jobs, qdrant, up, ops, crashes>>

\* readSnapshotMetadata throws outside the try of processNext; nothing
\* catches the rejection of drain(), which ends the process.
DrainThrows ==
    /\ Pending(jobs) # {}
    /\ Present(Current) = {}
    /\ Die
    /\ UNCHANGED <<knowledge, jobs, qdrant, crashes>>

DrainStale ==
    /\ Pending(jobs) # {}
    /\ Present(Current) # {}
    /\ LET j == NextPending(jobs) IN
          /\ jobs[j].fp # Current
          /\ jobs' = MarkStale(jobs, j)
    /\ UNCHANGED <<knowledge, qdrant, up, worker, ops, crashes>>

DrainBuild ==
    /\ Pending(jobs) # {}
    /\ Present(Current) # {}
    /\ LET j == NextPending(jobs) IN
          /\ jobs[j].fp = Current
          /\ jobs' = MarkRunning(jobs, j)
          /\ worker' = [WorkerAt("info") EXCEPT !.job = j,
                                               !.done = jobs[j].checkpoint]
    /\ UNCHANGED <<knowledge, qdrant, up, ops, crashes>>

Drain == up /\ worker.pc = "loop" /\ (DrainStop \/ DrainThrows \/ DrainStale \/ DrainBuild)

\* A request whose answer is never seen took effect, or did not.
Lands ==
    \/ UNCHANGED <<collections, points>>
    \/ /\ worker.pc = "create"
       /\ collections' = collections \cup {worker.job}
       /\ UNCHANGED points
    \/ /\ worker.pc = "upsert"
       /\ worker.job \in collections
       /\ points' = [points EXCEPT ![worker.job] = Upsert(@, worker.records)]
       /\ UNCHANGED collections

\* The process is killed, in the middle of anything.
Crash ==
    /\ up
    /\ crashes < MaxCrashes
    /\ Lands
    /\ Die
    /\ crashes' = crashes + 1
    /\ UNCHANGED <<knowledge, jobs, alias>>

\* The catch of processNext; drain then looks for the next job.
Abandon ==
    /\ jobs' = MarkFailed(jobs, worker.job)
    /\ worker' = WorkerAt("loop")

BuildFails ==
    /\ worker.pc \in {"info", "create", "upsert", "verify"}
    /\ Abandon
    /\ Lands
    /\ UNCHANGED <<knowledge, alias, up, ops, crashes>>

\* The head of the page loop, from a checkpoint and a cursor in table t.
NextPage(t, done, cursor) ==
    LET job  == worker.job
        page == ReadPage(Current, cursor, PageSize)
    IN  IF done >= Count(t[job].fp)
        THEN /\ worker' = [worker EXCEPT !.pc = "verify", !.done = done,
                              !.cursor = cursor, !.records = EmptyContent]
             /\ jobs' = t
        ELSE IF page = {}
        THEN /\ worker' = WorkerAt("loop")
             /\ jobs' = MarkFailed(t, job)
        ELSE /\ worker' = [worker EXCEPT !.pc = "upsert", !.done = done,
                              !.cursor = NextCursor(page, cursor),
                              !.records = Records(Current, page)]
             /\ jobs' = t

EnterPages ==
    IF CheckpointInRange(Current, worker.done)
    THEN NextPage(jobs, worker.done, CursorAt(Current, worker.done))
    ELSE Abandon

GotInfo ==
    /\ worker.pc = "info"
    /\ \/ /\ worker.job \notin collections
          /\ worker.done > 0
          /\ Abandon
       \/ /\ worker.job \notin collections
          /\ worker.done = 0
          /\ worker' = [worker EXCEPT !.pc = "create"]
          /\ UNCHANGED jobs
       \/ /\ worker.job \in collections
          /\ EnterPages
    /\ UNCHANGED <<knowledge, qdrant, up, ops, crashes>>

GotCreated ==
    /\ worker.pc = "create"
    /\ collections' = collections \cup {worker.job}
    /\ EnterPages
    /\ UNCHANGED <<knowledge, points, alias, up, ops, crashes>>

\* The batch is written; the checkpoint follows in SQLite.
GotUpserted ==
    LET job  == worker.job
        done == worker.done + Count(worker.records)
    IN  /\ worker.pc = "upsert"
        /\ job \in collections
        /\ points' = [points EXCEPT ![job] = Upsert(@, worker.records)]
        /\ NextPage(SaveCheckpoint(jobs, job, done), done, worker.cursor)
        /\ UNCHANGED <<knowledge, collections, alias, up, ops, crashes>>

\* Mutant: the fingerprint is not compared again.
GotVerifiedOnce ==
    LET job == worker.job IN
    /\ worker.pc = "verify"
    /\ jobs' = IF job \notin collections \/ Count(points[job]) # Count(jobs[job].fp)
               THEN MarkFailed(jobs, job) ELSE MarkReady(jobs, job)
    /\ worker' = WorkerAt("loop")
    /\ UNCHANGED <<knowledge, qdrant, up, ops, crashes>>

\* Dimensions are those of the snapshot; the count must be, too.
GotVerified ==
    LET job == worker.job IN
    /\ worker.pc = "verify"
    /\ jobs' = IF job \notin collections \/ Count(points[job]) # Count(jobs[job].fp)
               THEN MarkFailed(jobs, job)
               ELSE IF Current # jobs[job].fp THEN MarkStale(jobs, job)
               ELSE MarkReady(jobs, job)
    /\ worker' = WorkerAt("loop")
    /\ UNCHANGED <<knowledge, qdrant, up, ops, crashes>>

Build == GotInfo \/ GotCreated \/ GotUpserted \/ GotVerified \/ BuildFails

\* Qdrant loses a collection that is not being served.
LoseCollection(j) ==
    /\ MayLose
    /\ j \in collections /\ alias # j
    /\ collections' = collections \ {j}
    /\ points' = [points EXCEPT ![j] = EmptyContent]
    /\ UNCHANGED <<knowledge, jobs, alias, up, worker, ops, crashes>>
=============================================================================
