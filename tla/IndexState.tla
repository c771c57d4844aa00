----------------------------- MODULE IndexState -----------------------------
(***************************************************************************)
(* The state of RetrievalIndexJobService.  One worker builds versioned     *)
(* Qdrant collections from the knowledge in SQLite (IndexBuild), and       *)
(* administrators move the Qdrant alias between the collections that were  *)
(* verified (IndexAlias).                                                  *)
(*                                                                         *)
(* A step is what Node runs between two awaits.  Requests to Qdrant are    *)
(* explicit: a handler that waits for one is at a pc of its own, and what  *)
(* Qdrant does is a step of its own.  Every request may also fail, before  *)
(* or after it took effect.  A crash loses the handlers and keeps SQLite   *)
(* and Qdrant.                                                             *)
(***************************************************************************)
EXTENDS IndexJobRepo

CONSTANTS PageSize,         \* INDEX_BATCH_SIZE
          AliasOps,         \* requests (or the startup task) that may be
                            \* working on the alias at the same time
          BootOp,           \* the one of them that startup uses
          Toggleable,       \* items whose document may be switched off and on
          NeverEmpty,       \* TRUE: some knowledge always stays active
          MayLose,          \* TRUE: Qdrant may lose a collection
          MaxCrashes        \* bound on the crashes

ASSUME RetrievalAssumption ==
    /\ PageSize \in Nat \ {0}
    /\ BootOp \in AliasOps
    /\ Toggleable \subseteq Items
    /\ NeverEmpty \in BOOLEAN /\ MayLose \in BOOLEAN
    /\ MaxCrashes \in Nat

VARIABLES
    knowledge,     \* faq_entries and document_chunks
    jobs,          \* retrieval_index_jobs
    collections,   \* Qdrant: the versioned collections that exist
    points,        \* Qdrant: what a build wrote into them
    alias,         \* Qdrant: the collection the alias names
    up,            \* the process runs
    worker,        \* drain() and the build it is in
    ops,           \* activate, rollback and startup reconciliation in progress
    crashes

vars == <<knowledge, jobs, collections, points, alias, up, worker, ops, crashes>>

qdrant == <<collections, points, alias>>

WorkerPcs == {"off", "loop", "info", "create", "upsert", "verify"}
Worker == [pc : WorkerPcs, job : Collections, done : Nat,
           cursor : Items \cup {NoCursor}, records : Content]
WorkerAt(pc) == [pc |-> pc, job |-> NoCollection, done |-> 0,
                 cursor |-> NoCursor, records |-> EmptyContent]

\* An alias operation: the switch it carries out (the intent of job src, from
\* -> to), the alias it last saw, and, while an activate request reconciles
\* another's intent first, its own parameters job and exp.
OpPcs == {"idle", "askReconcile", "gotReconcile", "askCurrent", "gotCurrent",
          "askSwitch", "gotSwitch", "sent", "applied"}
Op == [pc : OpPcs, intent : Intents, src : Collections, from : Collections,
       to : Collections, seen : Collections, job : Collections, exp : Collections]
IdleOp == [pc |-> "idle", intent |-> "none", src |-> NoCollection,
           from |-> NoCollection, to |-> NoCollection, seen |-> NoCollection,
           job |-> NoCollection, exp |-> NoCollection]

Current == Fingerprint(knowledge)

\* Microtasks run before the process turns to any other event: a pending
\* drain() iteration comes first.
Free == up /\ worker.pc # "loop"

TypeOK ==
    /\ knowledge \in KnowledgeRows
    /\ jobs \in JobTable
    /\ collections \subseteq Jobs
    /\ points \in [Jobs -> Content]
    /\ alias \in Collections
    /\ up \in BOOLEAN
    /\ worker \in Worker /\ (worker.pc \notin {"off", "loop"} => worker.job \in Jobs)
    /\ ops \in [AliasOps -> Op]
    /\ crashes \in 0 .. MaxCrashes

Init ==
    /\ knowledge = [i \in Items |-> [on |-> TRUE, rev |-> 1]]
    /\ jobs = [j \in Jobs |-> NoRow]
    /\ collections = {} /\ points = [j \in Jobs |-> EmptyContent]
    /\ alias = NoCollection
    /\ up = TRUE
    /\ worker = WorkerAt("off")
    /\ ops = [o \in AliasOps |-> IdleOp]
    /\ crashes = 0

\* Mutant: a pending intent does not protect the job.
NoticedAnyway(t, j) ==
    IF t[j].status \in {"queued", "interrupted", "ready"} /\ t[j].fp # Current
    THEN MarkStale(t, j) ELSE t

\* getJob: reading a job notices that its knowledge has changed.
Noticed(t, j) ==
    IF /\ t[j].status \in {"queued", "interrupted", "ready"}
       /\ t[j].intent = "none"
       /\ t[j].fp # Current
    THEN MarkStale(t, j) ELSE t

\* The process ends: its handlers are gone.
Die ==
    /\ up' = FALSE
    /\ worker' = WorkerAt("off")
    /\ ops' = [o \in AliasOps |-> IdleOp]
=============================================================================
