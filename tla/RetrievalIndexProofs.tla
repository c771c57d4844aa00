------------------------ MODULE RetrievalIndexProofs ------------------------
(***************************************************************************)
(* Theorems about RetrievalIndex for every number of jobs, items, crashes  *)
(* and overlapping alias operations.                                       *)
(***************************************************************************)
EXTENDS RetrievalIndex, KnowledgeScan, FiniteSetTheorems, TLAPS

-----------------------------------------------------------------------------
(* Facts about contents and the job table. *)

LEMMA ItemsFinite == ASSUME NEW S \in SUBSET Items
                     PROVE  IsFiniteSet(S) /\ Cardinality(S) \in Nat
  <1>1. NumFaqs + NumDocs \in Int  BY KnowledgeAssumption
  <1>2. IsFiniteSet(Items)  BY <1>1, FS_Interval DEF Items
  <1>3. QED  BY <1>2, FS_Subset, FS_CardinalityType

LEMMA ItemsAreNumbers == Items \subseteq Nat /\ NoCursor \notin Items
  BY KnowledgeAssumption DEF Items, NoCursor

\* A nonempty set of jobs has a first one: First1 returns a member.
LEMMA FirstJob == ASSUME NEW S \in SUBSET Jobs, S # {}
                  PROVE  First1(S) \in S /\ First1(S) \in Jobs
  <1>1. PICK x \in S : \A y \in S : x <= y
    <2>1. S \subseteq Nat  BY MaxJobsAssumption DEF Jobs
    <2>2. PICK x \in S : \A y \in S : ~ (<<y, x>> \in OpToRel(<, Nat))
      BY <2>1, NatLessThanWellFounded, WFMin
    <2>3. ASSUME NEW y \in S PROVE x <= y
      <3>1. x \in Nat /\ y \in Nat  BY <2>1
      <3>2. ~ (y < x)  BY <2>2, <3>1 DEF OpToRel
      <3>3. QED  BY <3>1, <3>2
    <2>4. QED  BY <2>3
  <1>2. QED  BY <1>1 DEF First1

LEMMA ContentTypes ==
  /\ EmptyContent \in Content
  /\ \A k \in KnowledgeRows : Fingerprint(k) \in Content
  /\ \A c \in Content : \A page : Records(c, page) \in Content
  /\ \A c, r \in Content : Upsert(c, r) \in Content
  <1>1. 0 \in 0 .. MaxRev /\ 1 .. MaxRev \subseteq 0 .. MaxRev
    BY KnowledgeAssumption
  <1>2. QED
    BY <1>1 DEF EmptyContent, Content, KnowledgeRows, Fingerprint, Records, Upsert

LEMMA CountType == ASSUME NEW c \in Content PROVE Count(c) \in Nat
  BY ItemsFinite DEF Count, Present

LEMMA PagesAreItems ==
    ASSUME NEW c \in Content, NEW cur, NEW n
    PROVE  ReadPage(c, cur, n) \in SUBSET Items
  BY DEF ReadPage, FaqRows, DocRows, First, After, Present

LEMMA CursorTypes ==
    ASSUME NEW c \in Content
    PROVE  /\ \A page \in SUBSET Items, cur \in Items \cup {NoCursor} :
                 NextCursor(page, cur) \in Items \cup {NoCursor}
           /\ \A n \in Nat : CheckpointInRange(c, n) =>
                 CursorAt(c, n) \in Items \cup {NoCursor}
  <1>1. \A n : RowsAt(c, n) \subseteq Items
    BY DEF RowsAt, AtOffset, Present
  <1>2. ASSUME NEW n \in Nat, CheckpointInRange(c, n)
        PROVE  CursorAt(c, n) \in Items \cup {NoCursor}
    BY <1>1, <1>2 DEF CheckpointInRange, CursorAt
  <1>3. QED  BY <1>2 DEF NextCursor

LEMMA InitialTypes ==
  /\ NoRow \in Row
  /\ IdleOp \in Op
  /\ \A pc \in WorkerPcs : WorkerAt(pc) \in Worker
  BY ContentTypes DEF NoRow, Row, Statuses, Intents, Collections, NoCollection,
     IdleOp, Op, OpPcs, WorkerAt, Worker

\* Every statement of the repository keeps the table well typed.
LEMMA TableTypes ==
    ASSUME NEW t \in JobTable, NEW j \in Jobs
    PROVE  /\ \A c \in Content : Create(t, j, c) \in JobTable
           /\ MarkRunning(t, j) \in JobTable
           /\ MarkStale(t, j) \in JobTable
           /\ InterruptRunning(t) \in JobTable
           /\ \A c \in Collections : PrepareActivation(t, j, c) \in JobTable
           /\ PrepareRollback(t, j) \in JobTable
  <1>1. ASSUME NEW c \in Content PROVE Create(t, j, c) \in JobTable
    <2>1. [NoRow EXCEPT !.status = "queued", !.fp = c] \in Row
      BY InitialTypes DEF Row, Statuses
    <2>2. QED  BY <2>1 DEF JobTable, Create
  <1>2. MarkRunning(t, j) \in JobTable /\ MarkStale(t, j) \in JobTable
    BY DEF JobTable, Row, MarkRunning, MarkStale, SetStatus, Statuses
  <1>3. InterruptRunning(t) \in JobTable
    BY DEF JobTable, Row, InterruptRunning, Statuses
  <1>4. ASSUME NEW c \in Collections PROVE PrepareActivation(t, j, c) \in JobTable
    BY DEF JobTable, Row, PrepareActivation, Intents
  <1>5. PrepareRollback(t, j) \in JobTable
    BY DEF JobTable, Row, PrepareRollback, Intents, Collections
  <1>6. QED  BY <1>1, <1>2, <1>3, <1>4, <1>5

LEMMA WorkerTableTypes ==
    ASSUME NEW t \in JobTable, NEW j
    PROVE  /\ MarkFailed(t, j) \in JobTable
           /\ MarkStale(t, j) \in JobTable
           /\ MarkReady(t, j) \in JobTable
           /\ \A n \in Nat : SaveCheckpoint(t, j, n) \in JobTable
  BY ZenonT(60) DEF JobTable, Row, MarkFailed, MarkStale, MarkReady, SetStatus, SaveCheckpoint,
     Statuses

LEMMA StatusType ==
    ASSUME NEW t \in JobTable, NEW k, NEW status \in Statuses
    PROVE  [t EXCEPT ![k].status = status] \in JobTable
  <1> DEFINE u == [t EXCEPT ![k].status = status]
  <1>1. DOMAIN u = Jobs  BY DEF JobTable
  <1>2. ASSUME NEW j \in Jobs PROVE u[j] \in Row
    <2>1. t[j] \in Row  BY DEF JobTable
    <2>2. u[j] = IF j = k THEN [t[j] EXCEPT !.status = status] ELSE t[j]
      BY DEF JobTable
    <2>3. [t[j] EXCEPT !.status = status] \in Row  BY <2>1 DEF Row
    <2>4. QED  BY <2>1, <2>2, <2>3
  <1>3. u = [j \in Jobs |-> u[j]]  BY <1>1 DEF JobTable
  <1>4. QED  BY <1>2, <1>3 DEF JobTable

LEMMA OutcomeTypes ==
    ASSUME NEW t \in JobTable, NEW j, NEW k
    PROVE  /\ CompleteActivation(t, j) \in JobTable
           /\ CompleteRollback(t, j, k) \in JobTable
  <1>1. CompleteActivation(t, j) \in JobTable
    BY DEF JobTable, Row, CompleteActivation, Statuses, Intents, Collections, NoCollection
  <1>2. CompleteRollback(t, j, k) \in JobTable
    <2> DEFINE ended == [t EXCEPT ![j] = [t[j] EXCEPT !.status = "rolled_back",
                                   !.intent = "none", !.expected = NoCollection]]
    <2>1. ended \in JobTable
      BY DEF JobTable, Row, Statuses, Intents, Collections, NoCollection
    <2>2. CompleteRollback(t, j, k) = [ended EXCEPT ![k].status = "active"]
      BY DEF CompleteRollback, JobTable, Row
    <2>3. "active" \in Statuses  BY DEF Statuses
    <2> HIDE DEF ended
    <2>4. [ended EXCEPT ![k].status = "active"] \in JobTable
      BY <2>1, <2>3, StatusType
    <2>5. QED  BY <2>2, <2>4
  <1>3. QED  BY <1>1, <1>2

-----------------------------------------------------------------------------
(* Typing.  One lemma per group of actions. *)

LEMMA EditTypes == TypeOK /\ Edit => TypeOK'
  <1> SUFFICES ASSUME TypeOK, NEW i \in Items, EditItem(i) \/ ToggleItem(i)
               PROVE  TypeOK'
    BY DEF Edit
  <1>1. ASSUME NEW on \in BOOLEAN, NEW rev \in 1 .. MaxRev, SetItem(i, on, rev)
        PROVE  TypeOK'
    BY <1>1 DEF SetItem, TypeOK, KnowledgeRows, qdrant
  <1>2. CASE EditItem(i)
    <2>1. knowledge[i].rev + 1 \in 1 .. MaxRev
      BY <1>2, KnowledgeAssumption DEF EditItem, TypeOK, KnowledgeRows
    <2>2. QED  BY <1>1, <1>2, <2>1 DEF EditItem
  <1>3. CASE ToggleItem(i)
    <2>1. knowledge[i].rev \in 1 .. MaxRev
      BY DEF TypeOK, KnowledgeRows
    <2>2. (~knowledge[i].on) \in BOOLEAN
      OBVIOUS
    <2>3. QED  BY <1>1, <1>3, <2>1, <2>2 DEF ToggleItem
  <1>4. QED  BY <1>2, <1>3

LEMMA CurrentType == TypeOK => Current \in Content
  BY ContentTypes DEF TypeOK, Current

LEMMA NoticedType == ASSUME NEW t \in JobTable, NEW j \in Jobs
                     PROVE  Noticed(t, j) \in JobTable
  BY TableTypes DEF Noticed

LEMMA JobTypes ==
    ASSUME TypeOK, CreateJob \/ \E j \in Jobs : GetJob(j) \/ LoseCollection(j)
    PROVE  TypeOK'
  <1>1. CASE CreateJob
    <2>1. PICK j \in Jobs : jobs' = Create(jobs, j, Current)
      BY <1>1 DEF CreateJob
    <2>2. jobs' \in JobTable
      BY <2>1, CurrentType, TableTypes DEF TypeOK
    <2>3. worker' \in Worker /\ (worker'.pc \notin {"off", "loop"} => worker'.job \in Jobs)
      BY <1>1, InitialTypes DEF CreateJob, TypeOK, WorkerPcs, WorkerAt
    <2>4. QED  BY <1>1, <2>2, <2>3 DEF CreateJob, TypeOK, qdrant
  <1>2. ASSUME NEW j \in Jobs, GetJob(j) PROVE TypeOK'
    BY <1>2, NoticedType DEF GetJob, TypeOK, qdrant
  <1>3. ASSUME NEW j \in Jobs, LoseCollection(j) PROVE TypeOK'
    BY <1>3, ContentTypes DEF LoseCollection, TypeOK
  <1>4. QED  BY <1>1, <1>2, <1>3

LEMMA DieTypes == ASSUME TypeOK, Die
                  PROVE  /\ up' \in BOOLEAN
                         /\ worker' \in Worker /\ worker'.pc = "off"
                         /\ ops' \in [AliasOps -> Op]
  BY InitialTypes DEF Die, WorkerPcs, WorkerAt

LEMMA LandsTypes == ASSUME TypeOK, Lands
                    PROVE  collections' \subseteq Jobs /\ points' \in [Jobs -> Content]
  <1>1. CASE worker.pc = "create"
    BY <1>1 DEF Lands, TypeOK, Worker, WorkerPcs, Collections
  <1>2. worker.records \in Content  BY DEF TypeOK, Worker
  <1>3. CASE worker.pc = "upsert"
    <2>1. Upsert(points[worker.job], worker.records) \in Content
      BY <1>2, <1>3, ContentTypes DEF TypeOK
    <2>2. QED  BY <1>3, <2>1 DEF Lands, TypeOK
  <1>4. QED  BY <1>1, <1>3 DEF Lands, TypeOK

LEMMA ProcessTypes == TypeOK /\ (Crash \/ Drain) => TypeOK'
  <1> SUFFICES ASSUME TypeOK, Crash \/ Drain PROVE TypeOK'
    OBVIOUS
  <1>1. CASE Crash
    <2>1. crashes' \in 0 .. MaxCrashes
      BY <1>1, RetrievalAssumption DEF Crash, TypeOK
    <2>2. QED  BY <1>1, <2>1, DieTypes, LandsTypes DEF Crash, TypeOK
  <1>2. CASE DrainStop
    BY <1>2, InitialTypes DEF DrainStop, TypeOK, qdrant, WorkerPcs, WorkerAt
  <1>3. CASE DrainThrows
    BY <1>3, DieTypes DEF DrainThrows, TypeOK, qdrant
  <1>4. ASSUME Pending(jobs) # {} PROVE NextPending(jobs) \in Pending(jobs) \cap Jobs
    BY <1>4, FirstJob DEF NextPending, Pending, WithStatus
  <1>5. CASE DrainStale
    <2>1. jobs' \in JobTable
      BY <1>4, <1>5, WorkerTableTypes DEF DrainStale, TypeOK
    <2>2. QED  BY <1>5, <2>1 DEF DrainStale, TypeOK, qdrant
  <1>6. CASE DrainBuild
    <2> DEFINE j == NextPending(jobs)
    <2>1. j \in Jobs /\ jobs[j].checkpoint \in Nat
      BY <1>4, <1>6 DEF DrainBuild, TypeOK, JobTable, Row
    <2>2. jobs' \in JobTable
      BY <1>6, <2>1, TableTypes DEF DrainBuild, TypeOK
    <2>3. worker' = [WorkerAt("info") EXCEPT !.job = j, !.done = jobs[j].checkpoint]
      BY <1>6 DEF DrainBuild
    <2>4. worker' \in Worker /\ worker'.job \in Jobs
      BY <2>1, <2>3, InitialTypes DEF WorkerPcs, Worker, WorkerAt, Collections
    <2>5. QED  BY <1>6, <2>2, <2>4 DEF DrainBuild, TypeOK, qdrant
  <1>7. QED  BY <1>1, <1>2, <1>3, <1>5, <1>6 DEF Drain

\* What the page loop does to the worker and the table.
LEMMA NextPageTypes ==
    ASSUME TypeOK, worker.job \in Jobs,
           NEW t \in JobTable, NEW n \in Nat, NEW cur \in Items \cup {NoCursor},
           NextPage(t, n, cur)
    PROVE  /\ jobs' \in JobTable
           /\ worker' \in Worker
           /\ worker'.pc \notin {"off", "loop"} => worker'.job \in Jobs
  <1> DEFINE page == ReadPage(Current, cur, PageSize)
  <1>1. page \in SUBSET Items
    BY CurrentType, PagesAreItems
  <1>2. NextCursor(page, cur) \in Items \cup {NoCursor}
    BY <1>1, CurrentType, CursorTypes
  <1>3. Records(Current, page) \in Content /\ EmptyContent \in Content
    BY CurrentType, ContentTypes
  <1>4. WorkerAt("loop") \in Worker /\ WorkerAt("loop").pc = "loop"
    BY InitialTypes DEF WorkerPcs, WorkerAt
  <1>5. MarkFailed(t, worker.job) \in JobTable
    BY WorkerTableTypes
  <1>6. CASE n >= Count(t[worker.job].fp)
    BY <1>3, <1>6 DEF NextPage, TypeOK, Worker, WorkerPcs
  <1>7. CASE ~(n >= Count(t[worker.job].fp)) /\ page = {}
    BY <1>4, <1>5, <1>7 DEF NextPage
  <1>8. CASE ~(n >= Count(t[worker.job].fp)) /\ page # {}
    BY <1>2, <1>3, <1>8 DEF NextPage, TypeOK, Worker, WorkerPcs
  <1>9. QED  BY <1>6, <1>7, <1>8

LEMMA AbandonTypes == ASSUME TypeOK, Abandon
                      PROVE  jobs' \in JobTable /\ worker' \in Worker /\ worker'.pc = "loop"
  BY InitialTypes, WorkerTableTypes DEF Abandon, TypeOK, WorkerPcs, WorkerAt

LEMMA EnterPagesTypes ==
    ASSUME TypeOK, worker.job \in Jobs, EnterPages
    PROVE  /\ jobs' \in JobTable
           /\ worker' \in Worker
           /\ worker'.pc \notin {"off", "loop"} => worker'.job \in Jobs
  <1>1. CASE CheckpointInRange(Current, worker.done)
    <2>1. worker.done \in Nat  BY DEF TypeOK, Worker
    <2>2. CursorAt(Current, worker.done) \in Items \cup {NoCursor}
      BY <1>1, <2>1, CurrentType, CursorTypes
    <2>3. jobs \in JobTable  BY DEF TypeOK
    <2>4. QED  BY <1>1, <2>1, <2>2, <2>3, NextPageTypes DEF EnterPages
  <1>2. CASE ~CheckpointInRange(Current, worker.done)
    BY <1>2, AbandonTypes DEF EnterPages
  <1>3. QED  BY <1>1, <1>2

LEMMA BuildTypes == ASSUME TypeOK, Build PROVE TypeOK'
  <1>1. worker.pc \in {"info", "create", "upsert", "verify"} /\ worker.job \in Jobs
    BY DEF Build, GotInfo, GotCreated, GotUpserted, GotVerified, BuildFails, TypeOK
  <1>2. CASE GotInfo
    <2>1. CASE EnterPages
      BY <1>1, <1>2, <2>1, EnterPagesTypes DEF GotInfo, TypeOK, qdrant
    <2>2. CASE Abandon
      BY <1>2, <2>2, AbandonTypes DEF GotInfo, TypeOK, qdrant
    <2>3. CASE worker' = [worker EXCEPT !.pc = "create"] /\ UNCHANGED jobs
      BY <1>1, <1>2, <2>3 DEF GotInfo, TypeOK, qdrant, Worker, WorkerPcs
    <2>4. QED  BY <1>2, <2>1, <2>2, <2>3 DEF GotInfo
  <1>3. CASE GotCreated
    BY <1>1, <1>3, EnterPagesTypes DEF GotCreated, TypeOK
  <1>4. CASE GotUpserted
    <2> DEFINE sum == worker.done + Count(worker.records)
               table == SaveCheckpoint(jobs, worker.job, sum)
    <2>1. worker.records \in Content /\ worker.done \in Nat
          /\ worker.cursor \in Items \cup {NoCursor} /\ jobs \in JobTable
      BY DEF TypeOK, Worker
    <2>2. sum \in Nat  BY <2>1, CountType
    <2>3. table \in JobTable  BY <2>1, <2>2, WorkerTableTypes
    <2>4. Upsert(points[worker.job], worker.records) \in Content
      BY <1>1, <2>1, ContentTypes DEF TypeOK
    <2>5. NextPage(table, sum, worker.cursor)
      BY <1>4 DEF GotUpserted
    <2>6. /\ jobs' \in JobTable
          /\ worker' \in Worker
          /\ worker'.pc \notin {"off", "loop"} => worker'.job \in Jobs
      BY <1>1, <2>1, <2>2, <2>3, <2>5, NextPageTypes
    <2>7. points' \in [Jobs -> Content]
      BY <1>4, <2>4 DEF GotUpserted, TypeOK
    <2>8. QED  BY <1>4, <2>6, <2>7 DEF GotUpserted, TypeOK
  <1>5. CASE GotVerified
    <2>1. jobs' \in JobTable
      BY <1>5, WorkerTableTypes DEF GotVerified, TypeOK
    <2>2. QED
      BY <1>5, <2>1, InitialTypes DEF GotVerified, TypeOK, qdrant, WorkerPcs, WorkerAt
  <1>6. CASE BuildFails
    BY <1>6, AbandonTypes, LandsTypes DEF BuildFails, TypeOK
  <1>7. QED  BY <1>2, <1>3, <1>4, <1>5, <1>6 DEF Build

LEMMA SetOpType == ASSUME TypeOK, NEW o \in AliasOps, NEW r \in Op, SetOp(o, r)
                   PROVE  ops' \in [AliasOps -> Op]
  BY DEF SetOp, TypeOK

LEMMA SwitchingType ==
    ASSUME NEW pc \in OpPcs, NEW intent \in Intents, NEW src \in Collections,
           NEW from \in Collections, NEW to \in Collections
    PROVE  Switching(pc, intent, src, from, to) \in Op
  BY InitialTypes DEF Switching, Op

LEMMA ReconcilingType ==
    ASSUME NEW t \in JobTable, WithIntent(t) # {}, NEW job \in Collections,
           NEW exp \in Collections
    PROVE  Reconciling(t, job, exp) \in Op
  <1> DEFINE p == First1(WithIntent(t))
             r == Switching("askReconcile", t[p].intent, p, t[p].expected,
                            IntentTarget(t, p))
  <1>1. p \in Jobs  BY FirstJob DEF WithIntent
  <1>2. t[p] \in Row /\ p \in Collections
    BY <1>1 DEF JobTable, Collections
  <1>3. IntentTarget(t, p) \in Collections
    BY <1>2 DEF IntentTarget, Row
  <1>4. r \in Op
    BY <1>2, <1>3, SwitchingType DEF Row, OpPcs
  <1>5. Reconciling(t, job, exp) = [r EXCEPT !.job = job, !.exp = exp]
    BY DEF Reconciling
  <1>6. QED  BY <1>4, <1>5 DEF Op

LEMMA ActivatingTypes ==
    ASSUME TypeOK, NEW o \in AliasOps, NEW t \in JobTable, NEW job \in Jobs,
           NEW exp \in Collections, NEW good, Activating(o, t, job, exp, good)
    PROVE  jobs' \in JobTable /\ ops' \in [AliasOps -> Op]
  <1>1. jobs' \in JobTable
    BY NoticedType DEF Activating
  <1>2. Switching("askCurrent", "activate", job, exp, job) \in Op
    BY SwitchingType DEF OpPcs, Intents, Collections
  <1>3. ops' \in [AliasOps -> Op]
    <2>1. CASE SetOp(o, IdleOp)
      BY <2>1, InitialTypes, SetOpType
    <2>2. CASE SetOp(o, Switching("askCurrent", "activate", job, exp, job))
      BY <1>2, <2>2, SetOpType
    <2>3. QED  BY <2>1, <2>2 DEF Activating
  <1>4. QED  BY <1>1, <1>3

LEMMA RequestTypes == ASSUME TypeOK, NEW o \in AliasOps, Request(o) PROVE TypeOK'
  <1>1. jobs \in JobTable /\ NoCollection \in Collections /\ Jobs \subseteq Collections
    BY DEF TypeOK, Collections
  <1>2. ASSUME NEW j \in Jobs, NEW exp \in Collections, NEW good \in BOOLEAN,
               StartActivate(o, j, exp, good)
        PROVE  TypeOK'
    <2>1. CASE WithIntent(jobs) # {}
      <3>1. Reconciling(jobs, j, exp) \in Op  BY <1>1, <2>1, ReconcilingType
      <3>2. ops' \in [AliasOps -> Op]
        BY <1>2, <2>1, <3>1, SetOpType DEF StartActivate
      <3>3. QED  BY <1>2, <2>1, <3>2 DEF StartActivate, TypeOK, qdrant
    <2>2. CASE WithIntent(jobs) = {}
      <3>1. jobs' \in JobTable /\ ops' \in [AliasOps -> Op]
        BY <1>1, <1>2, <2>2, ActivatingTypes DEF StartActivate
      <3>2. QED  BY <1>2, <3>1 DEF StartActivate, TypeOK, qdrant
    <2>3. QED  BY <2>1, <2>2
  <1>3. ASSUME NEW j \in Jobs, NEW exp \in Collections, StartRollback(o, j, exp)
        PROVE  TypeOK'
    <2>1. CASE WithIntent(jobs) # {}
      <3>1. Reconciling(jobs, NoCollection, NoCollection) \in Op
        BY <1>1, <2>1, ReconcilingType
      <3>2. ops' \in [AliasOps -> Op]
        BY <1>3, <2>1, <3>1, SetOpType DEF StartRollback
      <3>3. QED  BY <1>3, <3>2 DEF StartRollback, TypeOK, qdrant
    <2>2. CASE WithIntent(jobs) = {}
      <3>1. jobs[j].prev \in Collections  BY <1>1 DEF JobTable, Row
      <3>2. Switching("askCurrent", "rollback", j, j, jobs[j].prev) \in Op
        BY <1>1, <3>1, SwitchingType DEF OpPcs, Intents
      <3>3. ops' \in [AliasOps -> Op]
        BY <1>3, <2>2, <3>2, SetOpType DEF StartRollback
      <3>4. QED  BY <1>3, <3>3 DEF StartRollback, TypeOK, qdrant
    <2>3. QED  BY <2>1, <2>2
  <1>4. QED  BY <1>2, <1>3 DEF Request

LEMMA BootTypes == ASSUME TypeOK, Boot PROVE TypeOK'
  <1> DEFINE t == InterruptRunning(jobs)
  <1>1. t \in JobTable
    BY DEF TypeOK, InterruptRunning, JobTable, Row, Statuses
  <1>2. WithIntent(t) # {} => Reconciling(t, NoCollection, NoCollection) \in Op
    BY <1>1, ReconcilingType DEF Collections
  <1>3. ops' \in [AliasOps -> Op]
    BY <1>2, InitialTypes DEF Boot
  <1>4. worker' \in Worker /\ worker'.pc = "loop"
    BY InitialTypes DEF Boot, WorkerPcs, WorkerAt
  <1>5. QED  BY <1>1, <1>3, <1>4 DEF Boot, TypeOK, qdrant

LEMMA QdrantTypes == ASSUME TypeOK, NEW o \in AliasOps, Qdrant(o) PROVE TypeOK'
  <1>1. ops[o] \in Op /\ alias \in Collections  BY DEF TypeOK
  <1>2. CASE ReadAlias(o)
    <2>1. Answer[ops[o].pc] \in OpPcs
      BY <1>2 DEF ReadAlias, Answer, OpPcs
    <2>2. [ops[o] EXCEPT !.pc = Answer[@], !.seen = alias] \in Op
      BY <1>1, <2>1 DEF Op
    <2>3. ops' \in [AliasOps -> Op]
      BY <1>2, <2>2, SetOpType DEF ReadAlias
    <2>4. QED  BY <1>2, <2>3 DEF ReadAlias, TypeOK, qdrant
  <1>3. CASE UpdateAlias(o)
    <2>1. [ops[o] EXCEPT !.pc = "applied"] \in Op
      BY <1>1 DEF Op, OpPcs
    <2>2. ops' \in [AliasOps -> Op]
      BY <1>3, <2>1, SetOpType DEF UpdateAlias
    <2>3. alias' \in Collections
      BY <1>1, <1>3 DEF UpdateAlias, Op
    <2>4. QED  BY <1>3, <2>2, <2>3 DEF UpdateAlias, TypeOK
  <1>4. QED  BY <1>2, <1>3 DEF Qdrant

LEMMA CompleteTypes ==
    ASSUME TypeOK, NEW o \in AliasOps, NEW good, Complete(o, good)
    PROVE  jobs' \in JobTable /\ ops' \in [AliasOps -> Op]
  <1>1. Completed(ops[o]) \in JobTable
    BY OutcomeTypes DEF Completed, TypeOK
  <1>2. CASE ops[o].job \notin {NoCollection, ops[o].to}
    <2>1. ops[o].job \in Jobs /\ ops[o].exp \in Collections
      BY <1>2 DEF TypeOK, Op, Collections
    <2>2. Activating(o, Completed(ops[o]), ops[o].job, ops[o].exp, good)
      BY <1>2 DEF Complete
    <2>3. QED  BY <1>1, <2>1, <2>2, ActivatingTypes
  <1>3. CASE ~(ops[o].job \notin {NoCollection, ops[o].to})
    BY <1>1, <1>3, InitialTypes, SetOpType DEF Complete, EndOp
  <1>4. QED  BY <1>2, <1>3

LEMMA ProceedTypes == ASSUME TypeOK, NEW o \in AliasOps, Proceed(o) PROVE TypeOK'
  <1>1. ops[o] \in Op /\ jobs \in JobTable  BY DEF TypeOK
  <1>2. [ops[o] EXCEPT !.pc = "askSwitch", !.seen = NoCollection] \in Op
    BY <1>1 DEF Op, OpPcs, Collections
  <1>3. ASSUME NEW good \in BOOLEAN, GotReconcile(o, good) PROVE TypeOK'
    <2>1. jobs' \in JobTable /\ ops' \in [AliasOps -> Op]
      BY <1>1, <1>2, <1>3, CompleteTypes, SetOpType DEF GotReconcile
    <2>2. QED  BY <1>3, <2>1 DEF GotReconcile, TypeOK, qdrant
  <1>4. ASSUME NEW good \in BOOLEAN, GotApplied(o, good) PROVE TypeOK'
    <2>1. jobs' \in JobTable /\ ops' \in [AliasOps -> Op]
      BY <1>4, CompleteTypes DEF GotApplied
    <2>2. QED  BY <1>4, <2>1 DEF GotApplied, TypeOK, qdrant
  <1>5. CASE GotCurrent(o)
    <2>1. ops' \in [AliasOps -> Op]
      BY <1>2, <1>5, SetOpType DEF GotCurrent
    <2>2. ops[o].src \in Collections /\ ops[o].seen \in Collections
      BY <1>1 DEF Op
    <2>3. jobs' \in JobTable
      BY <1>1, <1>5, <2>2 DEF GotCurrent, PrepareActivation, PrepareRollback,
         JobTable, Row, Intents, Collections
    <2>4. QED  BY <1>5, <2>1, <2>3 DEF GotCurrent, TypeOK, qdrant
  <1>6. CASE GotSwitch(o)
    <2>1. [ops[o] EXCEPT !.pc = "sent", !.seen = NoCollection] \in Op
      BY <1>1 DEF Op, OpPcs, Collections
    <2>2. QED  BY <1>6, <2>1, SetOpType DEF GotSwitch, TypeOK, qdrant
  <1>7. CASE OpFails(o)
    BY <1>7, InitialTypes, SetOpType DEF OpFails, EndOp, TypeOK, qdrant
  <1>8. QED  BY <1>3, <1>4, <1>5, <1>6, <1>7 DEF Proceed

-----------------------------------------------------------------------------
(* Safety.  What the statements of the repository keep true of the table,  *)
(* and what they never undo.                                               *)

IntentMatches(t) == \A j \in Jobs :
    /\ t[j].intent = "activate" => t[j].status = "ready"
    /\ t[j].intent = "rollback" => t[j].status = "active" /\ t[j].prev # NoCollection
ActiveUnique(t) == \A i, j \in Jobs :
    t[i].status = "active" /\ t[j].status = "active" => i = j
IntentUnique(t) == \A i, j \in Jobs :
    t[i].intent # "none" /\ t[j].intent # "none" => i = j
PrevVerified(t) == \A j \in Jobs : t[j].prev # NoCollection => Verified(t, t[j].prev)

TableOK(t) == IntentMatches(t) /\ ActiveUnique(t) /\ IntentUnique(t) /\ PrevVerified(t)

\* From table t to table u: verified collections stay verified, final jobs final.
Keeps(t, u) ==
    /\ \A j \in Jobs : Verified(t, j) => Verified(u, j)
    /\ \A j \in Jobs : t[j].status \in {"failed", "stale"} => u[j].status = t[j].status

\* A statement that moves one job without an intent, and not out of a verified
\* or final status, keeps everything.
LEMMA MoveKeeps ==
    ASSUME NEW t \in JobTable, NEW j, NEW from, NEW to,
           from \subseteq {"queued", "running", "interrupted", "ready"},
           to \in Statuses \ {"active"},
           j \in Jobs /\ t[j].status \in from => t[j].intent = "none",
           TableOK(t)
    PROVE  TableOK(SetStatus(t, j, from, to)) /\ Keeps(t, SetStatus(t, j, from, to))
  <1> DEFINE u == SetStatus(t, j, from, to)
  <1>1. \A i \in Jobs : /\ u[i].intent = t[i].intent
                        /\ u[i].prev = t[i].prev
                        /\ i # j => u[i].status = t[i].status
                        /\ u[i].status # t[i].status =>
                              t[i].status \in from /\ u[i].status = to
    BY DEF SetStatus, JobTable, Row
  <1>2. \A i \in Jobs : Verified(t, i) => Verified(u, i)
    BY <1>1 DEF Verified
  <1>3. \A i \in Jobs : t[i].prev # NoCollection => t[i].prev \in Jobs
    BY DEF JobTable, Row, Collections
  <1>4. PrevVerified(u)
    BY <1>1, <1>2, <1>3 DEF TableOK, PrevVerified
  <1>5. IntentMatches(u) /\ ActiveUnique(u) /\ IntentUnique(u)
    BY <1>1 DEF TableOK, IntentMatches, ActiveUnique, IntentUnique
  <1>6. \A i \in Jobs : t[i].status \in {"failed", "stale"} => u[i].status = t[i].status
    BY <1>1
  <1>7. QED  BY <1>2, <1>4, <1>5, <1>6 DEF TableOK, Keeps

LEMMA IntentValues == ASSUME NEW t \in JobTable, NEW j \in Jobs
                      PROVE  /\ t[j].intent \in {"none", "activate", "rollback"}
                             /\ t[j].prev \in Jobs \cup {NoCollection}
                             /\ t[j].status \in Statuses
  BY DEF JobTable, Row, Intents, Collections

LEMMA WorkerKeeps ==
    ASSUME NEW t \in JobTable, TableOK(t), NEW j
    PROVE  /\ TableOK(MarkFailed(t, j)) /\ Keeps(t, MarkFailed(t, j))
           /\ TableOK(MarkReady(t, j)) /\ Keeps(t, MarkReady(t, j))
           /\ TableOK(MarkRunning(t, j)) /\ Keeps(t, MarkRunning(t, j))
           /\ (j \in Jobs /\ t[j].status = "ready" => t[j].intent = "none") =>
                 TableOK(MarkStale(t, j)) /\ Keeps(t, MarkStale(t, j))
  <1>1. ASSUME j \in Jobs, t[j].status \in {"queued", "running", "interrupted"}
        PROVE  t[j].intent = "none"
    BY <1>1, IntentValues DEF TableOK, IntentMatches
  <1>2. TableOK(MarkFailed(t, j)) /\ Keeps(t, MarkFailed(t, j))
    BY <1>1, MoveKeeps DEF MarkFailed, Statuses
  <1>3. TableOK(MarkReady(t, j)) /\ Keeps(t, MarkReady(t, j))
    BY <1>1, MoveKeeps DEF MarkReady, Statuses
  <1>4. TableOK(MarkRunning(t, j)) /\ Keeps(t, MarkRunning(t, j))
    BY <1>1, MoveKeeps DEF MarkRunning, Statuses
  <1>5. ASSUME j \in Jobs /\ t[j].status = "ready" => t[j].intent = "none"
        PROVE  TableOK(MarkStale(t, j)) /\ Keeps(t, MarkStale(t, j))
    BY <1>1, <1>5, MoveKeeps DEF MarkStale, Statuses
  <1>6. QED  BY <1>2, <1>3, <1>4, <1>5

LEMMA NoticedKeeps ==
    ASSUME NEW t \in JobTable, TableOK(t), NEW j \in Jobs
    PROVE  TableOK(Noticed(t, j)) /\ Keeps(t, Noticed(t, j))
  <1>1. CASE t[j].intent = "none"
    BY <1>1, WorkerKeeps DEF Noticed, Keeps
  <1>2. CASE t[j].intent # "none"
    BY <1>2 DEF Noticed, Keeps
  <1>3. QED  BY <1>1, <1>2

\* A table that differs from t in columns that do not matter here, or only in
\* rows that change from one status of a build to another.
LEMMA SameKeeps ==
    ASSUME NEW t \in JobTable, TableOK(t), NEW u \in JobTable,
           \A i \in Jobs : /\ u[i].intent = t[i].intent
                           /\ u[i].prev = t[i].prev
                           /\ \/ u[i].status = t[i].status
                              \/ /\ t[i].status \in {"none", "running"}
                                 /\ u[i].status \in {"queued", "interrupted"}
    PROVE  TableOK(u) /\ Keeps(t, u)
  <1>1. \A i \in Jobs : Verified(t, i) => Verified(u, i)
    BY DEF Verified
  <1>2. PrevVerified(u)
    BY <1>1, IntentValues DEF TableOK, PrevVerified
  <1>3. IntentMatches(u)
    BY DEF TableOK, IntentMatches
  <1>4. ActiveUnique(u) /\ IntentUnique(u)
    BY DEF TableOK, ActiveUnique, IntentUnique
  <1>5. QED  BY <1>1, <1>2, <1>3, <1>4 DEF TableOK, Keeps

LEMMA CheckpointKeeps ==
    ASSUME NEW t \in JobTable, TableOK(t), NEW j, NEW n \in Nat
    PROVE  TableOK(SaveCheckpoint(t, j, n)) /\ Keeps(t, SaveCheckpoint(t, j, n))
  <1>1. SaveCheckpoint(t, j, n) \in JobTable
    BY WorkerTableTypes
  <1>2. \A i \in Jobs : /\ SaveCheckpoint(t, j, n)[i].intent = t[i].intent
                        /\ SaveCheckpoint(t, j, n)[i].prev = t[i].prev
                        /\ SaveCheckpoint(t, j, n)[i].status = t[i].status
    BY DEF SaveCheckpoint, JobTable, Row
  <1>3. QED  BY <1>1, <1>2, SameKeeps

LEMMA InterruptKeeps ==
    ASSUME NEW t \in JobTable, TableOK(t)
    PROVE  TableOK(InterruptRunning(t)) /\ Keeps(t, InterruptRunning(t))
  <1>1. InterruptRunning(t) \in JobTable
    BY DEF InterruptRunning, JobTable, Row, Statuses
  <1>2. \A i \in Jobs : /\ InterruptRunning(t)[i].intent = t[i].intent
                        /\ InterruptRunning(t)[i].prev = t[i].prev
                        /\ \/ InterruptRunning(t)[i].status = t[i].status
                           \/ /\ t[i].status = "running"
                              /\ InterruptRunning(t)[i].status = "interrupted"
    BY DEF InterruptRunning, JobTable, Row
  <1>3. QED  BY <1>1, <1>2, SameKeeps

\* A new row: "none" rows carry no intent, and nothing points at them.
LEMMA CreateKeeps ==
    ASSUME NEW t \in JobTable, TableOK(t), NEW j \in Jobs, t[j].status = "none",
           NEW c \in Content
    PROVE  TableOK(Create(t, j, c)) /\ Keeps(t, Create(t, j, c))
  <1> DEFINE u == Create(t, j, c)
  <1>1. /\ u[j].status = "queued" /\ u[j].intent = "none" /\ u[j].prev = NoCollection
        /\ \A i \in Jobs : i # j => u[i] = t[i]
    BY DEF Create, NoRow, JobTable
  <1>2. \A i \in Jobs : Verified(t, i) => Verified(u, i)
    BY <1>1 DEF Verified
  <1>3. PrevVerified(u)
    BY <1>1, <1>2, IntentValues DEF TableOK, PrevVerified
  <1>4. IntentMatches(u)
    BY <1>1 DEF TableOK, IntentMatches
  <1>5. ActiveUnique(u) /\ IntentUnique(u)
    BY <1>1 DEF TableOK, ActiveUnique, IntentUnique
  <1>6. \A i \in Jobs : t[i].status \in {"failed", "stale"} => u[i].status = t[i].status
    BY <1>1
  <1>7. QED  BY <1>2, <1>3, <1>4, <1>5, <1>6 DEF TableOK, Keeps

LEMMA PrepareActivationKeeps ==
    ASSUME NEW t \in JobTable, TableOK(t), NEW j \in Jobs, NEW c \in Collections,
           CanPrepareActivation(t, j), c # NoCollection => Verified(t, c)
    PROVE  LET u == PrepareActivation(t, j, c)
           IN  TableOK(u) /\ Keeps(t, u) /\ Verified(u, j)
  <1> DEFINE u == PrepareActivation(t, j, c)
  <1>1. /\ u[j].status = "ready" /\ u[j].intent = "activate" /\ u[j].prev = c
        /\ \A i \in Jobs : i # j => u[i] = t[i]
        /\ \A i \in Jobs : i # j => t[i].intent = "none"
    BY DEF PrepareActivation, CanPrepareActivation, NoOtherIntent, WithIntent,
       JobTable, Row
  <1>2. \A i \in Jobs : Verified(t, i) => Verified(u, i)
    BY <1>1 DEF Verified
  <1>3. c # NoCollection => c \in Jobs
    BY DEF Collections
  <1>4. PrevVerified(u)
    BY <1>1, <1>2, <1>3, IntentValues DEF TableOK, PrevVerified
  <1>5. IntentMatches(u)
    BY <1>1 DEF TableOK, IntentMatches
  <1>6. ActiveUnique(u) /\ IntentUnique(u)
    BY <1>1 DEF TableOK, ActiveUnique, IntentUnique
  <1>7. \A i \in Jobs : t[i].status \in {"failed", "stale"} => u[i].status = t[i].status
    BY <1>1 DEF CanPrepareActivation
  <1>8. Verified(u, j)
    BY <1>1 DEF Verified
  <1>9. QED  BY <1>2, <1>4, <1>5, <1>6, <1>7, <1>8 DEF TableOK, Keeps

LEMMA PrepareRollbackKeeps ==
    ASSUME NEW t \in JobTable, TableOK(t), NEW j \in Jobs, CanPrepareRollback(t, j)
    PROVE  TableOK(PrepareRollback(t, j)) /\ Keeps(t, PrepareRollback(t, j))
  <1> DEFINE u == PrepareRollback(t, j)
  <1>1. /\ u[j].status = "active" /\ u[j].intent = "rollback"
        /\ u[j].prev = t[j].prev /\ u[j].prev # NoCollection
        /\ \A i \in Jobs : i # j => u[i] = t[i]
        /\ \A i \in Jobs : i # j => t[i].intent = "none"
    BY DEF PrepareRollback, CanPrepareRollback, NoOtherIntent, WithIntent, JobTable, Row
  <1>2. t[j].status = "active"  BY DEF CanPrepareRollback
  <1>3. \A i \in Jobs : Verified(t, i) => Verified(u, i)
    BY <1>1, <1>2 DEF Verified
  <1>4. PrevVerified(u)
    BY <1>1, <1>3, IntentValues DEF TableOK, PrevVerified
  <1>5. IntentMatches(u)
    BY <1>1 DEF TableOK, IntentMatches
  <1>6. ActiveUnique(u) /\ IntentUnique(u)
    BY <1>1, <1>2 DEF TableOK, ActiveUnique, IntentUnique
  <1>7. \A i \in Jobs : t[i].status \in {"failed", "stale"} => u[i].status = t[i].status
    BY <1>1, <1>2
  <1>8. QED  BY <1>3, <1>4, <1>5, <1>6, <1>7 DEF TableOK, Keeps

\* The activated job becomes the only active one.  Its intent was the only one,
\* so no job that is demoted had a rollback pending.
LEMMA CompleteActivationKeeps ==
    ASSUME NEW t \in JobTable, TableOK(t), NEW j \in Jobs, CanCompleteActivation(t, j)
    PROVE  TableOK(CompleteActivation(t, j)) /\ Keeps(t, CompleteActivation(t, j))
  <1> DEFINE u == CompleteActivation(t, j)
  <1>1. t[j].status = "ready" /\ t[j].intent = "activate"
    BY DEF CanCompleteActivation, TableOK, IntentMatches
  <1>2. \A i \in Jobs : i # j => t[i].intent = "none"
    BY <1>1, IntentValues DEF TableOK, IntentUnique
  <1>3. /\ u[j].status = "active" /\ u[j].intent = "none" /\ u[j].prev = t[j].prev
        /\ \A i \in Jobs : i # j =>
              /\ u[i].intent = t[i].intent
              /\ u[i].prev = t[i].prev
              /\ t[i].status # "active" => u[i].status = t[i].status
              /\ t[i].status = "active" => u[i].status = "rolled_back"
    BY DEF CompleteActivation, JobTable, Row
  <1>4. \A i \in Jobs : Verified(t, i) => Verified(u, i)
    BY <1>3 DEF Verified
  <1>5. PrevVerified(u)
    BY <1>3, <1>4, IntentValues DEF TableOK, PrevVerified
  <1>6. IntentMatches(u) /\ IntentUnique(u)
    BY <1>2, <1>3 DEF IntentMatches, IntentUnique
  <1>7. ActiveUnique(u)
    BY <1>3 DEF ActiveUnique
  <1>8. \A i \in Jobs : t[i].status \in {"failed", "stale"} => u[i].status = t[i].status
    BY <1>1, <1>3
  <1>9. QED  BY <1>4, <1>5, <1>6, <1>7, <1>8 DEF TableOK, Keeps

\* The two rows that completeRollback writes may be one.
LEMMA RollbackRows ==
    ASSUME NEW t \in JobTable, NEW j \in Jobs, NEW k \in Jobs, NEW u, u = CompleteRollback(t, j, k)
    PROVE  /\ u[k].status = "active" /\ u[j].intent = "none"
           /\ j # k => u[j].status = "rolled_back"
           /\ \A i \in Jobs : /\ i # j => u[i].intent = t[i].intent
                              /\ u[i].prev = t[i].prev
                              /\ i \notin {j, k} => u[i].status = t[i].status
  <1> DEFINE row == [t[j] EXCEPT !.status = "rolled_back", !.intent = "none",
                                 !.expected = NoCollection]
             ended == [t EXCEPT ![j] = row]
  <1>1. row \in Row /\ row.status = "rolled_back" /\ row.intent = "none"
        /\ row.prev = t[j].prev
    BY DEF JobTable, Row, Statuses, Intents, Collections, NoCollection
  <1>2. ended \in JobTable /\ ended[j] = row /\ \A i \in Jobs : i # j => ended[i] = t[i]
    BY <1>1 DEF JobTable
  <1>3. u = [ended EXCEPT ![k] = [ended[k] EXCEPT !.status = "active"]]
    BY DEF CompleteRollback, JobTable, Row
  <1>4. /\ u[k] = [ended[k] EXCEPT !.status = "active"]
        /\ \A i \in Jobs : i # k => u[i] = ended[i]
    BY <1>2, <1>3 DEF JobTable
  <1>5. /\ u[k].status = "active" /\ u[k].intent = ended[k].intent
        /\ u[k].prev = ended[k].prev
    BY <1>2, <1>4 DEF JobTable, Row
  <1> HIDE DEF row, ended
  <1>6. QED  BY <1>1, <1>2, <1>4, <1>5

LEMMA CompleteRollbackKeeps ==
    ASSUME NEW t \in JobTable, TableOK(t), NEW j \in Jobs, NEW k \in Jobs,
           CanCompleteRollback(t, j, k)
    PROVE  TableOK(CompleteRollback(t, j, k)) /\ Keeps(t, CompleteRollback(t, j, k))
  <1> DEFINE u == CompleteRollback(t, j, k)
  <1>1. /\ t[j].status = "active" /\ t[j].intent = "rollback"
        /\ k # j => t[k].status = "rolled_back"
    BY DEF CanCompleteRollback
  <1>2. \A i \in Jobs : i # j => t[i].intent = "none" /\ t[i].status # "active"
    BY <1>1, IntentValues DEF TableOK, IntentUnique, ActiveUnique
  <1>3. /\ u[k].status = "active" /\ u[j].intent = "none"
        /\ j # k => u[j].status = "rolled_back"
        /\ \A i \in Jobs : /\ i # j => u[i].intent = t[i].intent
                           /\ u[i].prev = t[i].prev
                           /\ i \notin {j, k} => u[i].status = t[i].status
    BY RollbackRows
  <1>4. \A i \in Jobs : Verified(t, i) => Verified(u, i)
    BY <1>3 DEF Verified
  <1>5. PrevVerified(u)
    BY <1>3, <1>4, IntentValues DEF TableOK, PrevVerified
  <1>6. IntentMatches(u) /\ IntentUnique(u)
    BY <1>2, <1>3 DEF IntentMatches, IntentUnique
  <1>7. ActiveUnique(u)
    BY <1>2, <1>3 DEF ActiveUnique
  <1>8. \A i \in Jobs : t[i].status \in {"failed", "stale"} => u[i].status = t[i].status
    BY <1>1, <1>3
  <1>9. QED  BY <1>4, <1>5, <1>6, <1>7, <1>8 DEF TableOK, Keeps

\* No statement but the worker's own ends a build of a live process.
RunningStays(t, u) == \A j \in Jobs : t[j].status = "running" => u[j].status = "running"

LEMMA OthersLeaveRunning ==
    ASSUME NEW t \in JobTable, NEW j \in Jobs, NEW k \in Jobs
    PROVE  /\ t[j].status = "none" => \A c : RunningStays(t, Create(t, j, c))
           /\ RunningStays(t, Noticed(t, j))
           /\ t[j].status = "ready" => \A c : RunningStays(t, PrepareActivation(t, j, c))
           /\ RunningStays(t, PrepareRollback(t, j))
           /\ t[j].status = "ready" => RunningStays(t, CompleteActivation(t, j))
           /\ CanCompleteRollback(t, j, k) => RunningStays(t, CompleteRollback(t, j, k))
  <1>1. t[j].status = "none" => \A c : RunningStays(t, Create(t, j, c))
    BY DEF RunningStays, Create, JobTable
  <1>2. RunningStays(t, Noticed(t, j))
    BY DEF RunningStays, Noticed, MarkStale, SetStatus, JobTable
  <1>3. t[j].status = "ready" => \A c : RunningStays(t, PrepareActivation(t, j, c))
    BY DEF RunningStays, PrepareActivation, JobTable, Row
  <1>4. RunningStays(t, PrepareRollback(t, j))
    BY DEF RunningStays, PrepareRollback, JobTable, Row
  <1>5. t[j].status = "ready" => RunningStays(t, CompleteActivation(t, j))
    BY DEF RunningStays, CompleteActivation, JobTable, Row
  <1>6. CanCompleteRollback(t, j, k) => RunningStays(t, CompleteRollback(t, j, k))
    BY DEF RunningStays, CompleteRollback, CanCompleteRollback, JobTable, Row
  <1>7. QED  BY <1>1, <1>2, <1>3, <1>4, <1>5, <1>6

-----------------------------------------------------------------------------
(* The inductive invariant. *)

\* What an operation in progress is entitled to.
OpOK(t, op) ==
    /\ op.seen # NoCollection => Verified(t, op.seen)
    /\ op.pc = "idle" => op = IdleOp
    /\ op.pc # "idle" =>
          /\ op.src \in Jobs /\ op.to \in Jobs
          /\ op.intent \in {"activate", "rollback"}
          /\ op.intent = "activate" => op.to = op.src
          /\ \/ Verified(t, op.to)
             \/ op.pc \in {"askCurrent", "gotCurrent"} /\ op.intent = "activate"

OpsOK    == \A o \in AliasOps : OpOK(jobs, ops[o])
Building == worker.pc \notin {"off", "loop"} => jobs[worker.job].status = "running"

IInv == TypeOK /\ TableOK(jobs) /\ ServedIsVerified /\ OpsOK /\ Building

\* The parts of IInv that look at the table survive every change that keeps
\* verified collections verified.
LEMMA OpOKKept ==
    ASSUME NEW t, NEW u, Keeps(t, u), NEW op \in Op, OpOK(t, op)
    PROVE  OpOK(u, op)
  BY DEF OpOK, Keeps, Op, Collections

LEMMA ServedKept ==
    ASSUME TypeOK, ServedIsVerified, Keeps(jobs, jobs'), alias' = alias
    PROVE  ServedIsVerified'
  BY DEF TypeOK, Collections, ServedIsVerified, Keeps

LEMMA OpsKept ==
    ASSUME TypeOK, OpsOK, Keeps(jobs, jobs'),
           \A o \in AliasOps : ops'[o] = ops[o] \/ OpOK(jobs', ops'[o])
    PROVE  OpsOK'
  BY OpOKKept DEF TypeOK, OpsOK

LEMMA IdleOK == ASSUME NEW t PROVE OpOK(t, IdleOp)
  BY DEF OpOK, IdleOp

LEMMA KeepsReflexive == ASSUME NEW t PROVE Keeps(t, t)
  BY DEF Keeps

\* A step that changes neither the table nor the operations.
LEMMA QuietStep ==
    ASSUME IInv, TypeOK', UNCHANGED <<jobs, alias, ops>>,
           worker'.pc \notin {"off", "loop"} =>
               worker'.job = worker.job /\ worker.pc \notin {"off", "loop"}
    PROVE  IInv'
  <1>1. TableOK(jobs') /\ ServedIsVerified' /\ OpsOK'
    BY DEF IInv, ServedIsVerified, OpsOK
  <1>2. Building'
    BY DEF IInv, Building
  <1>3. QED  BY <1>1, <1>2 DEF IInv

\* A step of the worker or of a reader, which leaves the operations alone or
\* ends them all.
LEMMA TableStep ==
    ASSUME IInv, TypeOK', alias' = alias,
           TableOK(jobs'), Keeps(jobs, jobs'), Building',
           ops' = ops \/ ops' = [o \in AliasOps |-> IdleOp]
    PROVE  IInv'
  <1>1. ServedIsVerified'
    BY ServedKept DEF IInv
  <1>2. \A o \in AliasOps : ops'[o] = ops[o] \/ OpOK(jobs', ops'[o])
    BY IdleOK
  <1>3. OpsOK'
    BY <1>2, OpsKept DEF IInv
  <1>4. QED  BY <1>1, <1>3 DEF IInv

LEMMA EditSafe == ASSUME IInv, TypeOK', Edit PROVE IInv'
  BY QuietStep DEF Edit, EditItem, ToggleItem, SetItem, qdrant

LEMMA JobsSafe ==
    ASSUME IInv, TypeOK', CreateJob \/ \E j \in Jobs : GetJob(j) \/ LoseCollection(j)
    PROVE  IInv'
  <1>1. jobs \in JobTable /\ TableOK(jobs)
    BY DEF IInv, TypeOK
  <1>2. CASE CreateJob
    <2>1. PICK j \in Jobs : jobs[j].status = "none" /\ jobs' = Create(jobs, j, Current)
      BY <1>2 DEF CreateJob, Existing
    <2>2. Current \in Content  BY CurrentType DEF IInv
    <2>3. TableOK(jobs') /\ Keeps(jobs, jobs')
      BY <1>1, <2>1, <2>2, CreateKeeps
    <2>4. RunningStays(jobs, jobs')
      BY <1>1, <2>1, OthersLeaveRunning
    <2>5. Building'
      BY <1>2, <2>4 DEF CreateJob, IInv, TypeOK, Building, RunningStays, WorkerAt
    <2>6. QED  BY <1>2, <2>3, <2>5, TableStep DEF CreateJob, qdrant
  <1>3. ASSUME NEW j \in Jobs, GetJob(j) PROVE IInv'
    <2>1. TableOK(jobs') /\ Keeps(jobs, jobs')
      BY <1>1, <1>3, NoticedKeeps DEF GetJob
    <2>2. RunningStays(jobs, jobs')
      BY <1>1, <1>3, OthersLeaveRunning DEF GetJob
    <2>3. Building'
      BY <1>3, <2>2 DEF GetJob, IInv, TypeOK, Building, RunningStays
    <2>4. QED  BY <1>3, <2>1, <2>3, TableStep DEF GetJob, qdrant
  <1>4. ASSUME NEW j \in Jobs, LoseCollection(j) PROVE IInv'
    BY <1>4, QuietStep DEF LoseCollection
  <1>5. QED  BY <1>2, <1>3, <1>4

LEMMA ProcessSafe == ASSUME IInv, TypeOK', Crash \/ Drain PROVE IInv'
  <1>1. jobs \in JobTable /\ TableOK(jobs)
    BY DEF IInv, TypeOK
  <1>2. ASSUME Die, jobs' = jobs, alias' = alias PROVE IInv'
    <2>1. Building'  BY <1>2 DEF Die, Building, WorkerAt
    <2>2. QED  BY <1>1, <1>2, <2>1, TableStep, KeepsReflexive DEF Die
  <1>3. CASE Crash
    BY <1>2, <1>3 DEF Crash
  <1>4. CASE DrainThrows
    BY <1>2, <1>4 DEF DrainThrows, qdrant
  <1>5. CASE DrainStop
    BY <1>5, QuietStep DEF DrainStop, qdrant, WorkerAt
  <1>6. ASSUME Pending(jobs) # {}
        PROVE  /\ NextPending(jobs) \in Jobs
               /\ jobs[NextPending(jobs)].status \in {"queued", "interrupted"}
    BY <1>6, FirstJob DEF NextPending, Pending, WithStatus
  <1>7. CASE worker.pc = "loop" /\ DrainStale
    <2>1. TableOK(jobs') /\ Keeps(jobs, jobs')
      BY <1>1, <1>6, <1>7, WorkerKeeps DEF DrainStale
    <2>2. Building'  BY <1>7 DEF DrainStale, Building
    <2>3. QED  BY <1>7, <2>1, <2>2, TableStep DEF DrainStale, qdrant
  <1>8. CASE DrainBuild
    <2> DEFINE j == NextPending(jobs)
    <2>1. j \in Jobs /\ jobs[j].status \in {"queued", "interrupted"}
      BY <1>6, <1>8 DEF DrainBuild
    <2>2. jobs' = MarkRunning(jobs, j) /\ worker'.job = j
      BY <1>8 DEF DrainBuild, WorkerAt
    <2>3. TableOK(jobs') /\ Keeps(jobs, jobs')
      BY <1>1, <2>2, WorkerKeeps
    <2>4. Building'
      BY <1>1, <2>1, <2>2 DEF MarkRunning, SetStatus, JobTable, Row, Building
    <2>5. QED  BY <1>8, <2>3, <2>4, TableStep DEF DrainBuild, qdrant
  <1>9. QED  BY <1>3, <1>4, <1>5, <1>7, <1>8 DEF Drain

LEMMA KeepsTransitive == ASSUME NEW t, NEW u, NEW v, Keeps(t, u), Keeps(u, v)
                         PROVE  Keeps(t, v)
  BY DEF Keeps

LEMMA NextPageSafe ==
    ASSUME worker \in Worker, worker.job \in Jobs, NEW t \in JobTable, TableOK(t), Keeps(jobs, t),
           t[worker.job].status = "running", NEW n, NEW cur, NextPage(t, n, cur)
    PROVE  TableOK(jobs') /\ Keeps(jobs, jobs') /\ Building'
  <1>1. TableOK(MarkFailed(t, worker.job)) /\ Keeps(t, MarkFailed(t, worker.job))
    BY WorkerKeeps
  <1>2. CASE jobs' = t /\ worker'.job = worker.job
    BY <1>2 DEF Building
  <1>3. CASE jobs' = MarkFailed(t, worker.job) /\ worker' = WorkerAt("loop")
    BY <1>1, <1>3, KeepsTransitive DEF Building, WorkerAt
  <1>4. CASE n >= Count(t[worker.job].fp)
    BY <1>2, <1>4 DEF NextPage, Worker
  <1>5. CASE ~(n >= Count(t[worker.job].fp))
    BY <1>2, <1>3, <1>5 DEF NextPage, Worker
  <1>6. QED  BY <1>4, <1>5

LEMMA BuildSafe == ASSUME IInv, TypeOK', Build PROVE IInv'
  <1>1. jobs \in JobTable /\ TableOK(jobs) /\ Keeps(jobs, jobs)
    BY KeepsReflexive DEF IInv, TypeOK
  <1>2. /\ worker.pc \in {"info", "create", "upsert", "verify"} /\ worker \in Worker
        /\ worker.job \in Jobs /\ jobs[worker.job].status = "running"
    BY DEF Build, GotInfo, GotCreated, GotUpserted, GotVerified, BuildFails,
       IInv, TypeOK, Building
  <1>3. alias' = alias /\ ops' = ops
    BY DEF Build, GotInfo, GotCreated, GotUpserted, GotVerified, BuildFails, qdrant
  <1>4. SUFFICES TableOK(jobs') /\ Keeps(jobs, jobs') /\ Building'
    BY <1>3, TableStep
  <1>5. ASSUME Abandon PROVE TableOK(jobs') /\ Keeps(jobs, jobs') /\ Building'
    BY <1>1, <1>5, WorkerKeeps DEF Abandon, Building, WorkerAt
  <1>6. ASSUME EnterPages PROVE TableOK(jobs') /\ Keeps(jobs, jobs') /\ Building'
    BY <1>1, <1>2, <1>5, <1>6, NextPageSafe DEF EnterPages
  <1>7. CASE GotInfo
    <2>1. CASE worker' = [worker EXCEPT !.pc = "create"] /\ UNCHANGED jobs
      <3>1. worker'.job = worker.job  BY <2>1 DEF IInv, TypeOK, Worker
      <3>2. QED  BY <1>1, <1>2, <2>1, <3>1 DEF Building
    <2>2. QED  BY <1>5, <1>6, <1>7, <2>1 DEF GotInfo
  <1>8. CASE GotCreated
    BY <1>6, <1>8 DEF GotCreated
  <1>9. CASE GotUpserted
    <2> DEFINE sum == worker.done + Count(worker.records)
               table == SaveCheckpoint(jobs, worker.job, sum)
    <2>1. worker.records \in Content /\ worker.done \in Nat
      BY DEF IInv, TypeOK, Worker
    <2>2. sum \in Nat  BY <2>1, CountType
    <2>3. table \in JobTable /\ TableOK(table) /\ Keeps(jobs, table)
      BY <1>1, <2>2, CheckpointKeeps, WorkerTableTypes
    <2>4. table[worker.job].status = "running"
      BY <1>1, <1>2 DEF SaveCheckpoint, JobTable, Row
    <2>5. NextPage(table, sum, worker.cursor)
      BY <1>9 DEF GotUpserted
    <2>6. QED  BY <1>2, <2>3, <2>4, <2>5, NextPageSafe
  <1>10. CASE GotVerified
    <2>1. jobs[worker.job].status # "ready"  BY <1>2
    <2>2. Building'  BY <1>10 DEF GotVerified, Building, WorkerAt
    <2>3. QED  BY <1>1, <1>10, <2>1, <2>2, WorkerKeeps DEF GotVerified
  <1>11. CASE BuildFails
    BY <1>5, <1>11 DEF BuildFails
  <1>12. QED  BY <1>7, <1>8, <1>9, <1>10, <1>11 DEF Build

LEMMA ReconcilingOK ==
    ASSUME NEW t \in JobTable, TableOK(t), WithIntent(t) # {},
           NEW job \in Collections, NEW exp \in Collections
    PROVE  OpOK(t, Reconciling(t, job, exp))
  <1> DEFINE p == First1(WithIntent(t))
  <1>1. p \in Jobs /\ t[p].intent \in {"activate", "rollback"}
    BY FirstJob, IntentValues DEF WithIntent
  <1>2. IntentTarget(t, p) \in Jobs /\ Verified(t, IntentTarget(t, p))
    BY <1>1, IntentValues DEF IntentTarget, TableOK, IntentMatches, PrevVerified, Verified
  <1>3. t[p].intent = "activate" => IntentTarget(t, p) = p
    BY DEF IntentTarget
  <1>4. /\ Reconciling(t, job, exp).pc = "askReconcile"
        /\ Reconciling(t, job, exp).intent = t[p].intent
        /\ Reconciling(t, job, exp).src = p
        /\ Reconciling(t, job, exp).to = IntentTarget(t, p)
        /\ Reconciling(t, job, exp).seen = NoCollection
    BY DEF Reconciling, Switching, IdleOp
  <1>5. QED  BY <1>1, <1>2, <1>3, <1>4 DEF OpOK

LEMMA BootSafe == ASSUME IInv, TypeOK', Boot PROVE IInv'
  <1> DEFINE t == InterruptRunning(jobs)
  <1>1. TableOK(t) /\ Keeps(jobs, t) /\ jobs' = t /\ t \in JobTable
    BY InterruptKeeps DEF IInv, TypeOK, Boot
  <1>2. NoCollection \in Collections  BY DEF Collections
  <1>3. \A o \in AliasOps : OpOK(jobs', ops'[o])
    BY <1>1, <1>2, ReconcilingOK, IdleOK DEF Boot
  <1>4. OpsOK' /\ ServedIsVerified' /\ Building'
    BY <1>1, <1>3, OpsKept, ServedKept DEF Boot, qdrant, IInv, Building, WorkerAt
  <1>5. QED  BY <1>1, <1>4 DEF IInv

\* A step of operation o: what has to be shown of it.
LEMMA OpStep ==
    ASSUME IInv, TypeOK', NEW o \in AliasOps, NEW r, SetOp(o, r),
           TableOK(jobs'), Keeps(jobs, jobs'), RunningStays(jobs, jobs'),
           OpOK(jobs', r), UNCHANGED <<alias, worker>>
    PROVE  IInv'
  <1>1. \A x \in AliasOps : ops'[x] = ops[x] \/ OpOK(jobs', ops'[x])
    BY DEF SetOp, IInv, TypeOK
  <1>2. OpsOK' /\ ServedIsVerified'
    BY <1>1, OpsKept, ServedKept DEF IInv
  <1>3. Building'
    BY DEF IInv, TypeOK, Building, RunningStays
  <1>4. QED  BY <1>2, <1>3 DEF IInv

LEMMA ActivatingSafe ==
    ASSUME IInv, TypeOK', NEW o \in AliasOps, NEW t \in JobTable, NEW job \in Jobs,
           NEW exp \in Collections, NEW good, Activating(o, t, job, exp, good),
           TableOK(t), Keeps(jobs, t), RunningStays(jobs, t),
           UNCHANGED <<alias, worker>>
    PROVE  IInv'
  <1>1. /\ TableOK(jobs') /\ Keeps(t, jobs') /\ RunningStays(t, jobs')
        /\ jobs' = Noticed(t, job)
    BY NoticedKeeps, OthersLeaveRunning DEF Activating
  <1>2. Keeps(jobs, jobs') /\ RunningStays(jobs, jobs')
    BY <1>1, KeepsTransitive DEF RunningStays
  <1>3. CASE SetOp(o, IdleOp)
    BY <1>1, <1>2, <1>3, IdleOK, OpStep
  <1>4. CASE SetOp(o, Switching("askCurrent", "activate", job, exp, job))
    <2>1. OpOK(jobs', Switching("askCurrent", "activate", job, exp, job))
      BY DEF OpOK, Switching, IdleOp
    <2>2. QED  BY <1>1, <1>2, <1>4, <2>1, OpStep
  <1>5. QED  BY <1>3, <1>4 DEF Activating

LEMMA RequestSafe == ASSUME IInv, TypeOK', NEW o \in AliasOps, Request(o) PROVE IInv'
  <1>1. /\ jobs \in JobTable /\ TableOK(jobs) /\ Keeps(jobs, jobs)
        /\ RunningStays(jobs, jobs)
        /\ NoCollection \in Collections /\ Jobs \subseteq Collections
    BY KeepsReflexive DEF IInv, TypeOK, RunningStays, Collections
  <1>2. ASSUME WithIntent(jobs) # {}, UNCHANGED <<jobs, alias, worker>>,
               NEW job \in Collections, NEW exp \in Collections,
               SetOp(o, Reconciling(jobs, job, exp))
        PROVE  IInv'
    <2>1. OpOK(jobs', Reconciling(jobs, job, exp))
      BY <1>1, <1>2, ReconcilingOK
    <2>2. QED  BY <1>1, <1>2, <2>1, OpStep
  <1>3. ASSUME NEW j \in Jobs, NEW exp \in Collections, NEW good \in BOOLEAN,
               StartActivate(o, j, exp, good)
        PROVE  IInv'
    <2>1. CASE WithIntent(jobs) # {}
      BY <1>1, <1>2, <1>3, <2>1 DEF StartActivate, qdrant
    <2>2. CASE WithIntent(jobs) = {}
      BY <1>1, <1>3, <2>2, ActivatingSafe DEF StartActivate, qdrant
    <2>3. QED  BY <2>1, <2>2
  <1>4. ASSUME NEW j \in Jobs, NEW exp \in Collections, StartRollback(o, j, exp)
        PROVE  IInv'
    <2>1. CASE WithIntent(jobs) # {}
      BY <1>1, <1>2, <1>4, <2>1 DEF StartRollback, qdrant
    <2>2. CASE WithIntent(jobs) = {}
      <3> DEFINE r == Switching("askCurrent", "rollback", j, j, jobs[j].prev)
      <3>1. SetOp(o, r) /\ MayRollBack(j, exp)
        BY <1>4, <2>2 DEF StartRollback
      <3>2. jobs[j].prev \in Jobs /\ Verified(jobs, jobs[j].prev)
        BY <1>1, <3>1, IntentValues DEF MayRollBack, TableOK, PrevVerified
      <3>3. OpOK(jobs', r)
        BY <1>4, <3>2 DEF StartRollback, OpOK, Switching, IdleOp
      <3>4. QED  BY <1>1, <1>4, <3>1, <3>3, OpStep DEF StartRollback, qdrant
    <2>3. QED  BY <2>1, <2>2
  <1>5. QED  BY <1>3, <1>4 DEF Request

LEMMA QdrantSafe == ASSUME IInv, TypeOK', NEW o \in AliasOps, Qdrant(o) PROVE IInv'
  <1>1. /\ jobs \in JobTable /\ TableOK(jobs) /\ Keeps(jobs, jobs)
        /\ RunningStays(jobs, jobs) /\ OpOK(jobs, ops[o]) /\ ops[o] \in Op
    BY KeepsReflexive DEF IInv, TypeOK, RunningStays, OpsOK
  <1>2. CASE ReadAlias(o)
    <2> DEFINE r == [ops[o] EXCEPT !.pc = Answer[@], !.seen = alias]
    <2>1. /\ r.seen = alias /\ r.src = ops[o].src /\ r.to = ops[o].to
          /\ r.intent = ops[o].intent /\ r.pc = Answer[ops[o].pc]
      BY <1>1 DEF Op
    <2>2. /\ ops[o].pc # "idle" /\ r.pc # "idle"
          /\ ops[o].pc \in {"askCurrent", "gotCurrent"} => r.pc = "gotCurrent"
      BY <1>2, <2>1 DEF ReadAlias, Answer
    <2>3. OpOK(jobs, r)
      BY <1>1, <2>1, <2>2 DEF OpOK, IInv, ServedIsVerified
    <2>4. QED  BY <1>1, <1>2, <2>3, OpStep DEF ReadAlias, qdrant
  <1>3. CASE UpdateAlias(o)
    <2> DEFINE r == [ops[o] EXCEPT !.pc = "applied"]
    <2>1. ops[o].pc = "sent" /\ alias' = ops[o].to /\ SetOp(o, r)
      BY <1>3 DEF UpdateAlias
    <2>2. Verified(jobs, alias')
      BY <1>1, <2>1 DEF OpOK
    <2>3. OpOK(jobs, r)
      BY <1>1, <2>1 DEF OpOK, Op
    <2>4. \A x \in AliasOps : ops'[x] = ops[x] \/ OpOK(jobs', ops'[x])
      BY <1>3, <2>1, <2>3 DEF SetOp, UpdateAlias, IInv, TypeOK
    <2>5. OpsOK'
      BY <1>1, <1>3, <2>4, OpsKept DEF UpdateAlias, IInv
    <2>6. ServedIsVerified' /\ TableOK(jobs') /\ Building'
      BY <1>1, <1>3, <2>2 DEF UpdateAlias, ServedIsVerified, IInv, Building
    <2>7. QED  BY <2>5, <2>6 DEF IInv
  <1>4. QED  BY <1>2, <1>3 DEF Qdrant

LEMMA CompleteSafe ==
    ASSUME IInv, TypeOK', NEW o \in AliasOps, NEW good, Complete(o, good),
           ops[o].pc # "idle", UNCHANGED <<alias, worker>>
    PROVE  IInv'
  <1> DEFINE op == ops[o]
             t  == Completed(op)
  <1>1. /\ jobs \in JobTable /\ TableOK(jobs) /\ op \in Op
        /\ op.src \in Jobs /\ op.to \in Jobs /\ op.intent \in {"activate", "rollback"}
    BY DEF IInv, TypeOK, OpsOK, OpOK
  <1>2. t \in JobTable
    BY <1>1, OutcomeTypes DEF Completed
  <1>3. TableOK(t) /\ Keeps(jobs, t)
    BY <1>1, CompleteActivationKeeps, CompleteRollbackKeeps
    DEF Complete, CanComplete, Completed
  <1>4. RunningStays(jobs, t)
    <2>1. CASE op.intent = "activate"
      <3>1. CanCompleteActivation(jobs, op.src)
        BY <2>1 DEF Complete, CanComplete
      <3>2. jobs[op.src].status = "ready"
        BY <1>1, <3>1 DEF CanCompleteActivation, TableOK, IntentMatches
      <3>3. QED  BY <1>1, <2>1, <3>2, OthersLeaveRunning DEF Completed
    <2>2. CASE op.intent # "activate"
      BY <1>1, <2>2, OthersLeaveRunning DEF Complete, CanComplete, Completed
    <2>3. QED  BY <2>1, <2>2
  <1>5. CASE op.job \notin {NoCollection, op.to}
    <2>1. op.job \in Jobs /\ op.exp \in Collections
      BY <1>1, <1>5 DEF Op, Collections
    <2>2. Activating(o, t, op.job, op.exp, good)
      BY <1>5 DEF Complete
    <2>3. QED  BY <1>2, <1>3, <1>4, <2>1, <2>2, ActivatingSafe
  <1>6. CASE ~(op.job \notin {NoCollection, op.to})
    <2>1. jobs' = t /\ SetOp(o, IdleOp)
      BY <1>6 DEF Complete, EndOp
    <2>2. QED  BY <1>3, <1>4, <2>1, IdleOK, OpStep
  <1>7. QED  BY <1>5, <1>6

LEMMA ProceedSafe == ASSUME IInv, TypeOK', NEW o \in AliasOps, Proceed(o) PROVE IInv'
  <1> DEFINE op  == ops[o]
             ask == [op EXCEPT !.pc = "askSwitch", !.seen = NoCollection]
  <1>1. /\ jobs \in JobTable /\ TableOK(jobs) /\ Keeps(jobs, jobs)
        /\ RunningStays(jobs, jobs) /\ OpOK(jobs, op) /\ op \in Op
    BY KeepsReflexive DEF IInv, TypeOK, RunningStays, OpsOK
  <1>2. ask \in Op /\ ask.pc = "askSwitch" /\ ask.seen = NoCollection
        /\ ask.src = op.src /\ ask.to = op.to /\ ask.intent = op.intent
    BY <1>1 DEF Op, OpPcs, Collections
  <1>3. ASSUME NEW good \in BOOLEAN, GotReconcile(o, good) PROVE IInv'
    <2>1. CASE Complete(o, good)
      BY <1>3, <2>1, CompleteSafe DEF GotReconcile, qdrant
    <2>2. CASE SetOp(o, ask) /\ UNCHANGED jobs
      <3>1. OpOK(jobs, ask)
        BY <1>1, <1>2, <1>3 DEF GotReconcile, OpOK
      <3>2. QED  BY <1>1, <1>3, <2>2, <3>1, OpStep DEF GotReconcile, qdrant
    <2>3. QED  BY <1>3, <2>1, <2>2 DEF GotReconcile
  <1>4. ASSUME NEW good \in BOOLEAN, GotApplied(o, good) PROVE IInv'
    BY <1>4, CompleteSafe DEF GotApplied, qdrant
  <1>5. CASE GotCurrent(o)
    <2>1. op.pc = "gotCurrent" /\ op.src \in Jobs /\ op.seen \in Collections
      BY <1>1, <1>5 DEF GotCurrent, OpOK, Op
    <2>2. SetOp(o, ask) /\ UNCHANGED <<alias, worker>>
      BY <1>5 DEF GotCurrent, qdrant
    <2>3. CASE op.intent = "activate" /\ CanPrepareActivation(jobs, op.src)
               /\ jobs' = PrepareActivation(jobs, op.src, op.seen)
      <3>1. TableOK(jobs') /\ Keeps(jobs, jobs') /\ Verified(jobs', op.src)
        BY <1>1, <2>1, <2>3, PrepareActivationKeeps DEF OpOK
      <3>2. RunningStays(jobs, jobs')
        BY <1>1, <2>1, <2>3, OthersLeaveRunning DEF CanPrepareActivation
      <3>3. OpOK(jobs', ask)
        BY <1>1, <1>2, <2>1, <2>3, <3>1 DEF OpOK
      <3>4. QED  BY <2>2, <3>1, <3>2, <3>3, OpStep
    <2>4. CASE op.intent = "rollback" /\ CanPrepareRollback(jobs, op.src)
               /\ jobs' = PrepareRollback(jobs, op.src)
      <3>1. TableOK(jobs') /\ Keeps(jobs, jobs')
        BY <1>1, <2>1, <2>4, PrepareRollbackKeeps
      <3>2. RunningStays(jobs, jobs')
        BY <1>1, <2>1, <2>4, OthersLeaveRunning
      <3>3. Verified(jobs, op.to) /\ op.to \in Jobs
        BY <1>1, <2>1, <2>4 DEF OpOK
      <3>4. OpOK(jobs', ask)
        BY <1>1, <1>2, <2>1, <2>4, <3>1, <3>3 DEF OpOK, Keeps
      <3>5. QED  BY <2>2, <3>1, <3>2, <3>4, OpStep
    <2>5. QED  BY <1>5, <2>3, <2>4 DEF GotCurrent
  <1>6. CASE GotSwitch(o)
    <2> DEFINE r == [op EXCEPT !.pc = "sent", !.seen = NoCollection]
    <2>1. OpOK(jobs, r)
      BY <1>1, <1>6 DEF GotSwitch, OpOK, Op
    <2>2. QED  BY <1>1, <1>6, <2>1, OpStep DEF GotSwitch, qdrant
  <1>7. CASE OpFails(o)
    BY <1>1, <1>7, IdleOK, OpStep DEF OpFails, EndOp, qdrant
  <1>8. QED  BY <1>3, <1>4, <1>5, <1>6, <1>7 DEF Proceed

LEMMA InvInit == Init => IInv
  <1> SUFFICES ASSUME Init PROVE IInv
    OBVIOUS
  <1>1. TypeOK
    BY InitialTypes, ContentTypes, KnowledgeAssumption, RetrievalAssumption
    DEF Init, TypeOK, KnowledgeRows, JobTable, Collections, WorkerPcs, WorkerAt
  <1>2. TableOK(jobs)
    BY DEF Init, NoRow, TableOK, IntentMatches, ActiveUnique, IntentUnique, PrevVerified
  <1>3. ServedIsVerified /\ OpsOK /\ Building
    BY IdleOK DEF Init, ServedIsVerified, OpsOK, Building, WorkerAt
  <1>4. QED  BY <1>1, <1>2, <1>3 DEF IInv

LEMMA TypeStep == TypeOK /\ [Next]_vars => TypeOK'
  <1> SUFFICES ASSUME TypeOK, [Next]_vars PROVE TypeOK'
    OBVIOUS
  <1>1. CASE UNCHANGED vars
    BY <1>1 DEF vars, TypeOK
  <1>2. ASSUME NEW o \in AliasOps, Request(o) \/ Proceed(o) \/ Qdrant(o)
        PROVE  TypeOK'
    BY <1>2, RequestTypes, ProceedTypes, QdrantTypes
  <1>3. QED
    BY <1>1, <1>2, EditTypes, JobTypes, ProcessTypes, BuildTypes, BootTypes
    DEF Next, WorkerStep

LEMMA InvStep == IInv /\ [Next]_vars => IInv'
  <1> SUFFICES ASSUME IInv, [Next]_vars PROVE IInv'
    OBVIOUS
  <1>1. TypeOK'
    BY TypeStep DEF IInv
  <1>2. CASE UNCHANGED vars
    BY <1>1, <1>2, QuietStep DEF vars
  <1>3. ASSUME NEW o \in AliasOps, Request(o) \/ Proceed(o) \/ Qdrant(o)
        PROVE  IInv'
    BY <1>1, <1>3, RequestSafe, ProceedSafe, QdrantSafe
  <1>4. QED
    BY <1>1, <1>2, <1>3, EditSafe, JobsSafe, ProcessSafe, BuildSafe, BootSafe
    DEF Next, WorkerStep

\* The state stays within its types, for every number of jobs, items, crashes
\* and overlapping operations.
THEOREM TypeCorrect == Spec => []TypeOK
  <1>1. Init => TypeOK  BY InvInit DEF IInv
  <1>2. QED  BY <1>1, TypeStep, PTL DEF Spec

\* The inductive invariant of the service.
THEOREM Inductive == Spec => []IInv
  BY InvInit, InvStep, PTL DEF Spec

\* However many requests, edits, crashes and restarts interleave: one active
\* job, one intent, each with the job it belongs to in the right status.
THEOREM TableSafe == Spec => [](OneActive /\ OneIntent /\ IntentMatchesStatus)
  <1>1. IInv => OneActive /\ OneIntent /\ IntentMatchesStatus
    BY DEF IInv, TableOK, ActiveUnique, IntentUnique, IntentMatches, OneActive,
       OneIntent, IntentMatchesStatus
  <1>2. QED  BY <1>1, Inductive, PTL

\* Customers are never served from, and never switched to, a collection whose
\* build was not verified.
THEOREM ServesVerified == Spec => [](ServedIsVerified /\ TargetsVerified)
  <1>1. IInv => TargetsVerified
    <2> SUFFICES ASSUME IInv PROVE TargetsVerified
      OBVIOUS
    <2>1. \A j \in Jobs : jobs[j].prev # NoCollection => Verified(jobs, jobs[j].prev)
      BY DEF IInv, TableOK, PrevVerified
    <2>2. ASSUME NEW o \in AliasOps, ops[o].pc = "idle"
          PROVE  ops[o].seen = NoCollection /\ ops[o].to = NoCollection
      BY <2>2 DEF IInv, OpsOK, OpOK, IdleOp
    <2>3. QED  BY <2>1, <2>2 DEF IInv, OpsOK, OpOK, TargetsVerified
  <1>2. IInv => ServedIsVerified  BY DEF IInv
  <1>3. QED  BY <1>1, <1>2, Inductive, PTL


-----------------------------------------------------------------------------
(* What a build writes.                                                    *)

Unfinished == {"queued", "running", "interrupted"}
Open       == Unfinished \cup {"ready"}

\* Nothing in c is older than the snapshot it belongs to or newer than the
\* knowledge.
Within(c, fp, k) == \A i \in Items : c[i] # 0 => fp[i] <= c[i] /\ c[i] <= k[i].rev
Reached(fp, k) == \A i \in Items : fp[i] <= k[i].rev

FreshOf(c, fp) ==
    /\ Count(c) = Count(fp)
    /\ \A i \in Present(c) \cap Present(fp) : c[i] = fp[i]

\* ReadyIsFresh is not inductive: what is ready was written by a build whose
\* snapshot is the knowledge again when it ends.
FreshInv ==
    /\ \A j \in Jobs : jobs[j].status = "none" => points[j] = EmptyContent
    /\ \A j \in Jobs : jobs[j].status \in Open =>
          Reached(jobs[j].fp, knowledge) /\ Within(points[j], jobs[j].fp, knowledge)
    /\ worker.pc = "upsert" => Within(worker.records, jobs[worker.job].fp, knowledge)
    /\ \A j \in Jobs \cap collections : jobs[j].status = "ready" => FreshOf(points[j], jobs[j].fp)

\* From table t to u: no row is made, no snapshot changes, and no job becomes
\* ready or is to be built again.
Old(t, u) == \A j \in Jobs :
    /\ u[j].fp = t[j].fp
    /\ u[j].status = "none" => t[j].status = "none"
    /\ u[j].status \in Unfinished => t[j].status \in Unfinished
    /\ u[j].status = "ready" => t[j].status = "ready"

\* Nor is a checkpoint saved.
Marked(t, u) == Old(t, u) /\ \A j \in Jobs : u[j].checkpoint = t[j].checkpoint

LEMMA OldMoves ==
  ASSUME NEW t \in JobTable, NEW j
  PROVE  /\ Marked(t, t)
         /\ Marked(t, MarkFailed(t, j)) /\ Marked(t, MarkStale(t, j)) /\ Marked(t, MarkRunning(t, j))
         /\ Marked(t, Noticed(t, j)) /\ Marked(t, InterruptRunning(t))
         /\ \A n : Old(t, SaveCheckpoint(t, j, n))
<1>1. ASSUME NEW from \in SUBSET Open, NEW to \in {"failed", "stale"}
      PROVE  Marked(t, SetStatus(t, j, from, to))
  BY DEF Marked, Old, Unfinished, Open, SetStatus, JobTable, Row
<1>2. Marked(t, MarkFailed(t, j)) /\ Marked(t, MarkStale(t, j))
  BY <1>1 DEF MarkFailed, MarkStale, Open, Unfinished
<1>3. Marked(t, MarkRunning(t, j))
  BY DEF Marked, Old, Unfinished, MarkRunning, SetStatus, JobTable, Row
<1>4. Marked(t, t)
  BY DEF Marked, Old
<1>5. Marked(t, Noticed(t, j))
  BY <1>2, <1>4 DEF Noticed
<1>6. Marked(t, InterruptRunning(t))
  BY DEF Marked, Old, Unfinished, InterruptRunning, JobTable, Row
<1>7. \A n : Old(t, SaveCheckpoint(t, j, n))
  BY DEF Old, Unfinished, SaveCheckpoint, JobTable, Row
<1> QED
  BY <1>2, <1>3, <1>4, <1>5, <1>6, <1>7

LEMMA OldOutcomes ==
  ASSUME NEW t \in JobTable, NEW j \in Jobs
  PROVE  /\ t[j].status = "ready" => \A c : Marked(t, PrepareActivation(t, j, c))
         /\ Marked(t, PrepareRollback(t, j))
         /\ t[j].status = "ready" => Marked(t, CompleteActivation(t, j))
         /\ \A k \in Jobs : CanCompleteRollback(t, j, k) => Marked(t, CompleteRollback(t, j, k))
<1>1. t[j].status = "ready" => \A c : Marked(t, PrepareActivation(t, j, c))
  BY DEF Marked, Old, Unfinished, PrepareActivation, JobTable, Row
<1>2. Marked(t, PrepareRollback(t, j))
  BY DEF Marked, Old, Unfinished, PrepareRollback, JobTable, Row
<1>3. t[j].status = "ready" => Marked(t, CompleteActivation(t, j))
  BY DEF Marked, Old, Unfinished, CompleteActivation, JobTable, Row
<1>4. \A k \in Jobs : CanCompleteRollback(t, j, k) => Marked(t, CompleteRollback(t, j, k))
  BY DEF Marked, Old, Unfinished, CompleteRollback, CanCompleteRollback, JobTable, Row
<1> QED
  BY <1>1, <1>2, <1>3, <1>4

LEMMA OldTransitive ==
  ASSUME NEW t, NEW u, NEW v, Old(t, u)
  PROVE  /\ Old(u, v) => Old(t, v)
         /\ Marked(t, u) /\ Marked(u, v) => Marked(t, v)
  BY DEF Marked, Old

LEMMA WithinKept ==
  ASSUME NEW c \in Content, NEW fp \in Content, NEW k \in KnowledgeRows, NEW l \in KnowledgeRows,
         \A i \in Items : k[i].rev <= l[i].rev
  PROVE  /\ Within(c, fp, k) => Within(c, fp, l)
         /\ Reached(fp, k) => Reached(fp, l)
         /\ Within(EmptyContent, fp, k)
<1>1. \A i \in Items : c[i] \in Nat /\ fp[i] \in Nat /\ k[i].rev \in Nat /\ l[i].rev \in Nat
  BY KnowledgeAssumption DEF Content, KnowledgeRows
<1> QED
  BY <1>1 DEF Within, Reached, EmptyContent

\* A step that makes no row and no job ready: what it must not do.
LEMMA FreshKept ==
  ASSUME IInv, FreshInv, TypeOK', Old(jobs, jobs'),
         \A i \in Items : knowledge[i].rev <= knowledge'[i].rev,
         \A j \in Jobs : \/ points'[j] = points[j] \/ points'[j] = EmptyContent
                         \/ j = worker.job /\ jobs[j].status = "running"
                              /\ Within(points'[j], jobs[j].fp, knowledge'),
         \A j \in collections' : \/ j \in collections /\ points'[j] = points[j]
                                 \/ jobs[j].status = "running",
         worker'.pc = "upsert" => \/ worker' = worker
                                  \/ Within(worker'.records, jobs'[worker'.job].fp, knowledge')
  PROVE  FreshInv'
<1>1. /\ knowledge \in KnowledgeRows /\ knowledge' \in KnowledgeRows
      /\ jobs \in JobTable /\ points \in [Jobs -> Content] /\ points' \in [Jobs -> Content]
      /\ collections' \subseteq Jobs
  BY DEF IInv, TypeOK
<1>2. \A j \in Jobs : jobs[j].fp \in Content /\ jobs'[j].fp = jobs[j].fp
  BY <1>1 DEF JobTable, Row, Old
<1>k. \A c, fp \in Content : /\ Within(c, fp, knowledge) => Within(c, fp, knowledge')
                             /\ Reached(fp, knowledge) => Reached(fp, knowledge')
  <2> TAKE c, fp \in Content
  <2> QED
    BY <1>1, WithinKept
<1>e. \A fp \in Content : Within(EmptyContent, fp, knowledge')
  BY DEF Within, EmptyContent
<1>3. ASSUME NEW j \in Jobs, jobs'[j].status = "none" PROVE points'[j] = EmptyContent
  BY <1>3 DEF Old, FreshInv
<1>4. ASSUME NEW j \in Jobs, jobs'[j].status \in Open
      PROVE  Reached(jobs'[j].fp, knowledge') /\ Within(points'[j], jobs'[j].fp, knowledge')
  <2>1. jobs[j].status \in Open /\ points[j] \in Content
    BY <1>1, <1>4 DEF Old, Open
  <2>2. Reached(jobs[j].fp, knowledge) /\ Within(points[j], jobs[j].fp, knowledge)
    BY <2>1 DEF FreshInv
  <2>3. /\ Reached(jobs[j].fp, knowledge') /\ Within(points[j], jobs[j].fp, knowledge')
        /\ Within(EmptyContent, jobs[j].fp, knowledge')
    BY <1>k, <1>e, <1>2, <2>1, <2>2
  <2> QED
    BY <1>2, <2>3
<1>5. ASSUME worker'.pc = "upsert"
      PROVE  Within(worker'.records, jobs'[worker'.job].fp, knowledge')
  <2>1. CASE worker' = worker
    <3>1. worker.job \in Jobs /\ worker.records \in Content
      BY <1>5, <2>1 DEF IInv, TypeOK, Worker
    <3>2. Within(worker.records, jobs[worker.job].fp, knowledge)
      BY <1>5, <2>1 DEF FreshInv
    <3> QED
      BY <1>1, <1>2, <2>1, <3>1, <3>2, WithinKept
  <2> QED
    BY <1>5, <2>1
<1>6. ASSUME NEW j \in Jobs \cap collections', jobs'[j].status = "ready"
      PROVE  FreshOf(points'[j], jobs'[j].fp)
  <2>1. jobs[j].status = "ready"
    BY <1>6 DEF Old
  <2> QED
    BY <1>2, <2>1 DEF FreshInv
<1> QED
  BY <1>3, <1>4, <1>5, <1>6 DEF FreshInv

\* A step that neither edits nor builds; the worker may stop, or start at a
\* checkpoint.
Quiet ==
    /\ Marked(jobs, jobs') /\ UNCHANGED <<knowledge, points, collections>>
    /\ \/ worker' = worker
       \/ worker'.pc \in {"off", "loop"}
       \/ worker'.pc = "info" /\ worker'.done = jobs'[worker'.job].checkpoint

LEMMA FreshQuiet == ASSUME IInv, FreshInv, TypeOK', Quiet PROVE FreshInv'
<1>1. \A i \in Items : knowledge[i].rev <= knowledge'[i].rev
  BY KnowledgeAssumption DEF Quiet, IInv, TypeOK, KnowledgeRows
<1>2. /\ Old(jobs, jobs') /\ UNCHANGED <<points, collections>>
      /\ worker' = worker \/ worker'.pc # "upsert"
  BY DEF Quiet, Marked
<1> QED
  BY <1>1, <1>2, FreshKept

LEMMA JobQuiet == ASSUME IInv, NEW j \in Jobs, GetJob(j) PROVE Quiet
  BY OldMoves DEF Quiet, GetJob, qdrant, IInv, TypeOK

LEMMA DrainQuiet == ASSUME IInv, Drain PROVE Quiet
<1>0. jobs \in JobTable
  BY DEF IInv, TypeOK
<1>1. UNCHANGED <<knowledge, points, collections>>
  BY DEF Drain, DrainStop, DrainThrows, DrainStale, DrainBuild, qdrant
<1>2. CASE DrainBuild
  <2>1. PICK j : jobs' = MarkRunning(jobs, j)
                 /\ worker' = [WorkerAt("info") EXCEPT !.job = j, !.done = jobs[j].checkpoint]
    BY <1>2 DEF DrainBuild
  <2>2. worker'.pc = "info" /\ worker'.job = j /\ worker'.done = jobs[j].checkpoint
    BY <2>1 DEF WorkerAt
  <2>3. Marked(jobs, jobs')
    BY <1>0, <2>1, OldMoves
  <2>4. jobs'[j].checkpoint = jobs[j].checkpoint
    BY <1>0, <2>1 DEF MarkRunning, SetStatus, JobTable, Row
  <2> QED
    BY <1>1, <2>2, <2>3, <2>4 DEF Quiet
<1>3. CASE DrainStop \/ DrainThrows \/ DrainStale
  <2>1. worker' = worker \/ worker'.pc \in {"off", "loop"}
    BY <1>3 DEF DrainStop, DrainThrows, DrainStale, Die, WorkerAt
  <2>2. Marked(jobs, jobs')
    BY <1>0, <1>3, OldMoves DEF DrainStop, DrainThrows, DrainStale
  <2> QED
    BY <1>1, <2>1, <2>2 DEF Quiet
<1> QED
  BY <1>2, <1>3 DEF Drain

\* An edit takes a new revision, a switch leaves it.
LEMMA FreshEdit == ASSUME IInv, FreshInv, TypeOK', Edit PROVE FreshInv'
<1>1. PICK i \in Items, on \in BOOLEAN, rev \in Int :
        /\ rev \in {knowledge[i].rev, knowledge[i].rev + 1}
        /\ knowledge' = [knowledge EXCEPT ![i] = [on |-> on, rev |-> rev]]
  BY KnowledgeAssumption DEF Edit, EditItem, ToggleItem, SetItem, IInv, TypeOK, KnowledgeRows
<1>2. \A x \in Items : knowledge[x].rev <= knowledge'[x].rev
  BY <1>1, KnowledgeAssumption DEF IInv, TypeOK, KnowledgeRows
<1>3. UNCHANGED <<jobs, points, collections, worker>>
  BY DEF Edit, EditItem, ToggleItem, SetItem, qdrant
<1>4. Old(jobs, jobs')
  BY <1>3 DEF Old
<1> QED
  BY <1>2, <1>3, <1>4, FreshKept

\* A new job takes the knowledge as it is, and its collection holds nothing.
LEMMA FreshCreate == ASSUME IInv, FreshInv, TypeOK', CreateJob PROVE FreshInv'
<1>1. PICK j \in Jobs : jobs[j].status = "none" /\ jobs' = Create(jobs, j, Current)
  BY DEF CreateJob, Existing
<1>2. /\ jobs'[j].status = "queued" /\ jobs'[j].fp = Current
      /\ \A x \in Jobs : x # j => jobs'[x] = jobs[x]
  BY <1>1 DEF Create, NoRow, IInv, TypeOK, JobTable
<1>3. UNCHANGED <<knowledge, points, collections>> /\ (worker' = worker \/ worker'.pc # "upsert")
  BY DEF CreateJob, qdrant, WorkerAt
<1>4. points[j] = EmptyContent
  BY <1>1 DEF FreshInv
<1>5. Reached(Current, knowledge) /\ Within(EmptyContent, Current, knowledge)
  BY KnowledgeAssumption
  DEF Reached, Within, EmptyContent, Current, Fingerprint, IInv, TypeOK, KnowledgeRows
<1>6. worker'.pc = "upsert" => worker.job \in Jobs /\ worker.job # j
  BY <1>1, <1>3 DEF IInv, TypeOK, Building
<1> QED
  BY <1>2, <1>3, <1>4, <1>5, <1>6 DEF FreshInv

LEMMA FreshLost ==
  ASSUME IInv, FreshInv, TypeOK', NEW j \in Jobs, LoseCollection(j)
  PROVE  FreshInv'
<1>1. Old(jobs, jobs') /\ worker' = worker /\ knowledge' = knowledge
  BY DEF Old, LoseCollection
<1>2. /\ \A x \in Jobs : points'[x] = points[x] \/ points'[x] = EmptyContent
      /\ \A x \in collections' : x \in collections /\ points'[x] = points[x]
  BY DEF LoseCollection, IInv, TypeOK
<1>3. \A i \in Items : knowledge[i].rev <= knowledge'[i].rev
  BY <1>1, KnowledgeAssumption DEF IInv, TypeOK, KnowledgeRows
<1> QED
  BY <1>1, <1>2, <1>3, FreshKept

\* The job that the worker is in.
LEMMA WorkersJob ==
  ASSUME IInv, FreshInv, worker.pc \in {"info", "create", "upsert", "verify"}
  PROVE  /\ worker.job \in Jobs /\ jobs[worker.job].status = "running" /\ jobs \in JobTable
         /\ jobs[worker.job].fp \in Content /\ worker \in Worker
         /\ points[worker.job] \in Content /\ DOMAIN points = Jobs
         /\ Reached(jobs[worker.job].fp, knowledge)
         /\ Within(points[worker.job], jobs[worker.job].fp, knowledge)
<1>1. worker.job \in Jobs /\ jobs[worker.job].status = "running" /\ jobs \in JobTable /\ worker \in Worker
  BY DEF IInv, TypeOK, Building
<1> QED
  BY <1>1 DEF IInv, TypeOK, JobTable, Row, FreshInv, Open, Unfinished

LEMMA UpsertWithin ==
  ASSUME NEW c, NEW r, NEW fp, NEW k, Within(c, fp, k), Within(r, fp, k)
  PROVE  Within(Upsert(c, r), fp, k)
  BY DEF Within, Upsert

\* What a request of the worker leaves in Qdrant, answered or not.
LEMMA LandsFresh ==
  ASSUME IInv, FreshInv, Lands
  PROVE  /\ \A j \in Jobs : \/ points'[j] = points[j]
                            \/ j = worker.job /\ jobs[j].status = "running"
                                 /\ Within(points'[j], jobs[j].fp, knowledge)
         /\ \A j \in collections' : \/ j \in collections /\ points'[j] = points[j]
                                    \/ jobs[j].status = "running"
<1>1. CASE UNCHANGED <<collections, points>>
  BY <1>1
<1>2. CASE worker.pc = "create" /\ collections' = collections \cup {worker.job} /\ UNCHANGED points
  BY <1>2, WorkersJob
<1>3. CASE /\ worker.pc = "upsert" /\ UNCHANGED collections
           /\ points' = [points EXCEPT ![worker.job] = Upsert(@, worker.records)]
  <2>1. Within(Upsert(points[worker.job], worker.records), jobs[worker.job].fp, knowledge)
    BY <1>3, WorkersJob, UpsertWithin DEF FreshInv
  <2>2. collections \subseteq Jobs
    BY DEF IInv, TypeOK
  <2> QED
    BY <1>3, <2>1, <2>2, WorkersJob
<1> QED
  BY <1>1, <1>2, <1>3 DEF Lands

LEMMA FreshCrash == ASSUME IInv, FreshInv, TypeOK', Crash PROVE FreshInv'
<1>1. jobs \in JobTable /\ \A i \in Items : knowledge[i].rev <= knowledge[i].rev
  BY KnowledgeAssumption DEF IInv, TypeOK, KnowledgeRows
<1>2. Lands /\ UNCHANGED <<knowledge, jobs>> /\ worker'.pc # "upsert"
  BY DEF Crash, Die, WorkerAt
<1>3. Old(jobs, jobs')
  BY <1>2 DEF Old
<1> QED
  BY <1>1, <1>2, <1>3, LandsFresh, FreshKept

\* The rows of a page are those of the knowledge when it is read.
LEMMA NextPageFresh ==
  ASSUME IInv, FreshInv, worker.pc \in {"info", "create", "upsert", "verify"},
         NEW t \in JobTable, Old(jobs, t), NEW n, NEW cur, NextPage(t, n, cur)
  PROVE  /\ Old(jobs, jobs')
         /\ worker'.pc = "upsert" => Within(worker'.records, jobs'[worker'.job].fp, knowledge)
<1>1. worker.job \in Jobs /\ worker \in Worker /\ Reached(jobs[worker.job].fp, knowledge)
  BY WorkersJob
<1>2. Old(t, MarkFailed(t, worker.job))
  BY OldMoves DEF Marked
<1>3. CASE jobs' = t /\ worker'.pc # "upsert"
  BY <1>3
<1>4. CASE jobs' = MarkFailed(t, worker.job) /\ worker' = WorkerAt("loop")
  BY <1>2, <1>4, OldTransitive DEF WorkerAt
<1>5. ASSUME NEW page, jobs' = t, worker'.job = worker.job, worker'.records = Records(Current, page)
      PROVE  Within(worker'.records, jobs'[worker'.job].fp, knowledge)
  <2>1. jobs'[worker'.job].fp = jobs[worker.job].fp
    BY <1>1, <1>5 DEF Old
  <2>2. Within(Records(Current, page), jobs[worker.job].fp, knowledge)
    BY <1>1, KnowledgeAssumption
    DEF Within, Reached, Records, Current, Fingerprint, IInv, TypeOK, KnowledgeRows
  <2> QED
    BY <1>5, <2>1, <2>2
<1>6. \/ jobs' = t /\ worker'.pc = "verify"
      \/ jobs' = MarkFailed(t, worker.job) /\ worker' = WorkerAt("loop")
      \/ \E page : jobs' = t /\ worker'.job = worker.job /\ worker'.records = Records(Current, page)
  BY <1>1 DEF NextPage, Worker
<1> QED
  BY <1>3, <1>4, <1>5, <1>6

LEMMA FreshBuild == ASSUME IInv, FreshInv, TypeOK', Build PROVE FreshInv'
<1>0. worker.pc \in {"info", "create", "upsert", "verify"}
  BY DEF Build, GotInfo, GotCreated, GotUpserted, GotVerified, BuildFails
<1>1. /\ worker.job \in Jobs /\ jobs[worker.job].status = "running" /\ jobs \in JobTable
      /\ jobs[worker.job].fp \in Content /\ worker \in Worker /\ DOMAIN points = Jobs
      /\ points[worker.job] \in Content
      /\ Within(points[worker.job], jobs[worker.job].fp, knowledge)
  BY <1>0, WorkersJob
<1>2. /\ knowledge' = knowledge
      /\ \A i \in Items : knowledge[i].rev <= knowledge'[i].rev
  BY KnowledgeAssumption DEF Build, GotInfo, GotCreated, GotUpserted, GotVerified, BuildFails,
     IInv, TypeOK, KnowledgeRows
<1>3. ASSUME Abandon PROVE Marked(jobs, jobs') /\ Old(jobs, jobs') /\ worker'.pc # "upsert"
  BY <1>1, <1>3, OldMoves DEF Abandon, WorkerAt, Marked
<1>4. ASSUME EnterPages
      PROVE  /\ Old(jobs, jobs')
             /\ worker'.pc = "upsert" => Within(worker'.records, jobs'[worker'.job].fp, knowledge)
  <2>1. Old(jobs, jobs)
    BY DEF Old
  <2> QED
    BY <1>0, <1>1, <1>3, <1>4, <2>1, NextPageFresh DEF EnterPages
<1>5. CASE GotInfo
  <2>1. UNCHANGED <<points, collections>>
    BY <1>5 DEF GotInfo, qdrant
  <2>2. /\ Old(jobs, jobs')
        /\ worker'.pc = "upsert" => Within(worker'.records, jobs'[worker'.job].fp, knowledge')
    <3>1. CASE worker' = [worker EXCEPT !.pc = "create"] /\ UNCHANGED jobs
      BY <1>1, <3>1 DEF Old, Worker
    <3> QED
      BY <1>2, <1>3, <1>4, <1>5, <3>1 DEF GotInfo
  <2> QED
    BY <1>2, <2>1, <2>2, FreshKept
<1>6. CASE GotCreated
  <2>1. points' = points /\ collections' = collections \cup {worker.job} /\ EnterPages
    BY <1>6 DEF GotCreated
  <2> QED
    BY <1>1, <1>2, <1>4, <2>1, FreshKept
<1>7. CASE GotUpserted
  <2> DEFINE sum == worker.done + Count(worker.records)
             table == SaveCheckpoint(jobs, worker.job, sum)
  <2>1. /\ points' = [points EXCEPT ![worker.job] = Upsert(@, worker.records)]
        /\ collections' = collections /\ NextPage(table, sum, worker.cursor)
    BY <1>7 DEF GotUpserted
  <2>2. sum \in Nat
    BY <1>1, CountType DEF Worker
  <2>3. table \in JobTable /\ Old(jobs, table)
    BY <1>1, <2>2, WorkerTableTypes, OldMoves
  <2>4. Within(Upsert(points[worker.job], worker.records), jobs[worker.job].fp, knowledge)
    BY <1>1, <1>7, UpsertWithin DEF GotUpserted, FreshInv
  <2>5. /\ Old(jobs, jobs')
        /\ worker'.pc = "upsert" => Within(worker'.records, jobs'[worker'.job].fp, knowledge)
    BY <1>0, <2>1, <2>3, NextPageFresh
  <2>6. /\ points'[worker.job] = Upsert(points[worker.job], worker.records)
        /\ \A j \in Jobs : j # worker.job => points'[j] = points[j]
    BY <1>1, <2>1
  <2>7. collections \subseteq Jobs
    BY DEF IInv, TypeOK
  <2> HIDE DEF sum, table
  <2> QED
    BY <1>1, <1>2, <2>1, <2>4, <2>5, <2>6, <2>7, FreshKept
<1>8. CASE GotVerified
  <2>1. UNCHANGED <<points, collections>> /\ worker'.pc # "upsert"
    BY <1>8 DEF GotVerified, qdrant, WorkerAt
  <2>2. CASE jobs' \in {MarkFailed(jobs, worker.job), MarkStale(jobs, worker.job)}
    <3>1. Marked(jobs, jobs') /\ worker' = WorkerAt("loop")
      BY <1>1, <1>8, <2>2, OldMoves DEF GotVerified
    <3> QED
      BY <1>2, <2>1, <3>1, FreshQuiet DEF Quiet, WorkerAt
  <2>3. CASE /\ jobs' = MarkReady(jobs, worker.job) /\ Current = jobs[worker.job].fp
             /\ Count(points[worker.job]) = Count(jobs[worker.job].fp)
    <3>1. /\ jobs'[worker.job].fp = jobs[worker.job].fp
          /\ \A j \in Jobs : j # worker.job => jobs'[j] = jobs[j]
          /\ jobs'[worker.job].status = "ready"
      BY <1>1, <2>3 DEF MarkReady, SetStatus, JobTable, Row
    <3>2. FreshOf(points[worker.job], jobs[worker.job].fp)
      <4> SUFFICES ASSUME NEW i \in Items, points[worker.job][i] # 0, jobs[worker.job].fp[i] # 0
                   PROVE  points[worker.job][i] = jobs[worker.job].fp[i]
        BY <2>3 DEF FreshOf, Present
      <4>1. jobs[worker.job].fp[i] = knowledge[i].rev
        BY <2>3 DEF Current, Fingerprint
      <4>2. /\ jobs[worker.job].fp[i] <= points[worker.job][i]
            /\ points[worker.job][i] <= knowledge[i].rev
        BY <1>1 DEF Within
      <4>3. points[worker.job][i] \in Int /\ knowledge[i].rev \in Int
        BY <1>1, KnowledgeAssumption DEF Content, IInv, TypeOK, KnowledgeRows
      <4> QED
        BY <4>1, <4>2, <4>3
    <3> QED
      BY <1>1, <1>2, <2>1, <3>1, <3>2 DEF FreshInv, Open, Unfinished
  <2> QED
    BY <1>8, <2>2, <2>3 DEF GotVerified
<1>9. CASE BuildFails
  <2>1. Lands /\ Abandon
    BY <1>9 DEF BuildFails
  <2> QED
    BY <1>2, <1>3, <2>1, LandsFresh, FreshKept
<1> QED
  BY <1>5, <1>6, <1>7, <1>8, <1>9 DEF Build


\* An outcome that is recorded makes no row and no job ready.
LEMMA CompletedOld ==
  ASSUME IInv, NEW o \in AliasOps, ops[o].pc # "idle", CanComplete(ops[o])
  PROVE  Completed(ops[o]) \in JobTable /\ Marked(jobs, Completed(ops[o]))
<1>1. /\ jobs \in JobTable /\ TableOK(jobs) /\ ops[o].src \in Jobs /\ ops[o].to \in Jobs
      /\ ops[o].intent \in {"activate", "rollback"}
  BY DEF IInv, TypeOK, OpsOK, OpOK
<1>2. Completed(ops[o]) \in JobTable
  BY <1>1, OutcomeTypes DEF Completed
<1>3. CASE ops[o].intent = "activate"
  <2>1. jobs[ops[o].src].status = "ready"
    BY <1>1, <1>3 DEF CanComplete, CanCompleteActivation, TableOK, IntentMatches
  <2> QED
    BY <1>1, <1>2, <1>3, <2>1, OldOutcomes DEF Completed
<1>4. CASE ops[o].intent # "activate"
  BY <1>1, <1>2, <1>4, OldOutcomes DEF Completed, CanComplete
<1> QED
  BY <1>3, <1>4

LEMMA CompleteOld ==
  ASSUME IInv, NEW o \in AliasOps, ops[o].pc # "idle", NEW good, Complete(o, good)
  PROVE  Marked(jobs, jobs')
<1>1. Completed(ops[o]) \in JobTable /\ Marked(jobs, Completed(ops[o]))
  BY CompletedOld DEF Complete
<1>2. CASE jobs' = Completed(ops[o])
  BY <1>1, <1>2
<1>3. CASE jobs' = Noticed(Completed(ops[o]), ops[o].job)
  <2>1. Marked(Completed(ops[o]), Noticed(Completed(ops[o]), ops[o].job))
    BY <1>1, OldMoves
  <2> QED
    BY <1>1, <1>3, <2>1, OldTransitive DEF Marked
<1> QED
  BY <1>2, <1>3 DEF Complete, Activating

LEMMA OpsQuiet ==
  ASSUME IInv, NEW o \in AliasOps, Request(o) \/ Proceed(o) \/ Qdrant(o)
  PROVE  Quiet
<1>1. jobs \in JobTable
  BY DEF IInv, TypeOK
<1>2. CASE Request(o)
  <2>1. UNCHANGED <<knowledge, points, collections, worker>>
    BY <1>2 DEF Request, StartActivate, StartRollback, qdrant
  <2>2. jobs' = jobs \/ \E j \in Jobs : jobs' = Noticed(jobs, j)
    BY <1>2 DEF Request, StartActivate, StartRollback, Activating
  <2> QED
    BY <1>1, <2>1, <2>2, OldMoves DEF Quiet
<1>3. CASE Qdrant(o)
  <2>1. UNCHANGED <<knowledge, points, collections, worker, jobs>>
    BY <1>3 DEF Qdrant, ReadAlias, UpdateAlias, qdrant
  <2> QED
    BY <1>1, <2>1, OldMoves DEF Quiet
<1>4. CASE Proceed(o)
  <2>1. UNCHANGED <<knowledge, points, collections, worker>>
    BY <1>4 DEF Proceed, GotReconcile, GotApplied, GotCurrent, GotSwitch, OpFails, qdrant
  <2>2. ops[o].pc # "idle"
    BY <1>4 DEF Proceed, GotReconcile, GotApplied, GotCurrent, GotSwitch, OpFails
  <2>3. CASE \E good \in BOOLEAN : Complete(o, good)
    BY <2>1, <2>2, <2>3, CompleteOld DEF Quiet
  <2>4. CASE jobs' = jobs
    BY <1>1, <2>1, <2>4, OldMoves DEF Quiet
  <2>5. CASE GotCurrent(o)
    <3>1. ops[o].src \in Jobs
      BY <2>2 DEF IInv, OpsOK, OpOK
    <3>2. Marked(jobs, jobs')
      BY <1>1, <2>5, <3>1, OldOutcomes DEF GotCurrent, CanPrepareActivation
    <3> QED
      BY <2>1, <3>2 DEF Quiet
  <2> QED
    BY <1>4, <2>3, <2>4, <2>5 DEF Proceed, GotReconcile, GotApplied, GotSwitch, OpFails
<1> QED
  BY <1>2, <1>3, <1>4

LEMMA BootQuiet == ASSUME IInv, Boot PROVE Quiet
  BY OldMoves DEF Boot, Quiet, qdrant, WorkerAt, IInv, TypeOK

\* The steps that neither edit nor build.
LEMMA QuietSteps ==
  ASSUME IInv,
         \/ \E j \in Jobs : GetJob(j)
         \/ Drain \/ Boot \/ UNCHANGED vars
         \/ \E o \in AliasOps : Request(o) \/ Proceed(o) \/ Qdrant(o)
  PROVE  Quiet
<1>1. CASE UNCHANGED vars
  BY <1>1, OldMoves DEF vars, Quiet, IInv, TypeOK
<1> QED
  BY <1>1, JobQuiet, DrainQuiet, BootQuiet, OpsQuiet

LEMMA FreshStep == IInv /\ FreshInv /\ [Next]_vars => FreshInv'
<1> SUFFICES ASSUME IInv, FreshInv, [Next]_vars PROVE FreshInv'
  OBVIOUS
<1>1. TypeOK'
  BY TypeStep DEF IInv
<1>2. ASSUME \/ \E j \in Jobs : GetJob(j)
             \/ Drain \/ Boot \/ UNCHANGED vars
             \/ \E o \in AliasOps : Request(o) \/ Proceed(o) \/ Qdrant(o)
      PROVE  FreshInv'
  BY <1>1, <1>2, QuietSteps, FreshQuiet
<1>3. ASSUME NEW j \in Jobs, LoseCollection(j) PROVE FreshInv'
  BY <1>1, <1>3, FreshLost
<1> QED
  BY <1>1, <1>2, <1>3, FreshEdit, FreshCreate, FreshCrash, FreshBuild DEF Next, WorkerStep

\* Whatever is edited, switched off and on, lost or repeated during a build, a
\* ready collection has as many points as its snapshot has rows, and no point
\* of another revision of its row (processNext).
THEOREM FreshTheorem == Spec => []ReadyIsFresh
<1>1. Init => FreshInv
  BY DEF Init, FreshInv, NoRow, WorkerAt, Open, Unfinished
<1>2. FreshInv => ReadyIsFresh
  BY DEF FreshInv, FreshOf, ReadyIsFresh, WithStatus
<1> QED
  BY <1>1, <1>2, FreshStep, Inductive, PTL DEF Spec


\* Two contents that agree where both have a row, and have as many, are one
\* content when the first has no row that the second has not.
LEMMA FreshIsExact ==
  ASSUME NEW c \in Content, NEW fp \in Content, FreshOf(c, fp), Present(c) \subseteq Present(fp)
  PROVE  c = fp
<1>1. IsFiniteSet(Present(fp)) /\ Cardinality(Present(c)) = Cardinality(Present(fp))
  BY ItemsFinite DEF Present, FreshOf, Count
<1>2. Present(c) = Present(fp)
  BY <1>1, FS_Subset
<1>3. \A i \in Items : c[i] = fp[i]
  BY <1>2 DEF FreshOf, Present
<1> QED
  BY <1>3 DEF Content

ExactOrForeign == \A j \in Jobs \cap collections : jobs[j].status = "ready" =>
    \/ points[j] = jobs[j].fp
    \/ \E i \in Present(points[j]) : jobs[j].fp[i] = 0

\* A ready collection is exactly its snapshot, or has a row that the snapshot
\* has not, active only while the build read it (processNext).
THEOREM ExactTheorem == Spec => []ExactOrForeign
<1>1. IInv /\ FreshInv => ExactOrForeign
  <2> SUFFICES ASSUME IInv, FreshInv, NEW j \in Jobs \cap collections, jobs[j].status = "ready",
                      \A i \in Present(points[j]) : jobs[j].fp[i] # 0
               PROVE  points[j] = jobs[j].fp
    BY DEF ExactOrForeign
  <2>1. points[j] \in Content /\ jobs[j].fp \in Content /\ FreshOf(points[j], jobs[j].fp)
    BY DEF IInv, TypeOK, JobTable, Row, FreshInv
  <2>2. Present(points[j]) \subseteq Present(jobs[j].fp)
    BY DEF Present
  <2> QED
    BY <2>1, <2>2, FreshIsExact
<1>2. Init => FreshInv
  BY DEF Init, FreshInv, NoRow, WorkerAt, Open, Unfinished
<1> QED
  BY <1>1, <1>2, FreshStep, Inductive, PTL DEF Spec

-----------------------------------------------------------------------------
(* One operation at a time: record, intent and alias belong together.      *)

\* The service as an administrator uses it who waits for the answer.
OneOperation == AliasOps = {BootOp}

\* Table t and alias a: without an intent the record is live; with one, the
\* alias is where the switch starts or ends, and the record is the start.
Coherent(t, a) ==
    /\ \A j \in Jobs : t[j].prev # j
    /\ WithIntent(t) = {} => \A i \in Jobs : t[i].status = "active" <=> i = a
    /\ \A j \in WithIntent(t) :
          /\ a \in {t[j].expected, IntentTarget(t, j)}
          /\ \A i \in Jobs : t[i].status = "active" <=> i = t[j].expected

\* What the operation saw is still so, and what it carries out is the intent.
Linked(t, a, op) ==
    /\ op.pc \in {"gotReconcile", "gotCurrent", "gotSwitch"} => op.seen = a
    /\ op.pc \in {"askSwitch", "gotSwitch", "sent"} => op.from = a
    /\ op.pc = "applied" => op.to = a
    /\ op.pc \in {"askCurrent", "gotCurrent"} =>
          /\ WithIntent(t) = {}
          /\ op.intent = "rollback" => /\ op.from = op.src /\ op.to = t[op.src].prev
                                       /\ t[op.src].status = "active"
    /\ op.pc \notin {"idle", "askCurrent", "gotCurrent"} =>
          /\ t[op.src].intent = op.intent
          /\ op.from = t[op.src].expected /\ op.to = IntentTarget(t, op.src)

OneInv == Coherent(jobs, alias) /\ Linked(jobs, alias, ops[BootOp])

\* From table t to u: the same intents and the same record.
Same(t, u) == \A j \in Jobs :
    /\ u[j].intent = t[j].intent
    /\ u[j].status = "active" <=> t[j].status = "active"
    /\ \/ u[j].prev = t[j].prev /\ u[j].expected = t[j].expected
       \/ t[j].status = "none" /\ u[j].prev = NoCollection

LEMMA SameMoves ==
  ASSUME NEW t \in JobTable, NEW j
  PROVE  /\ Same(t, t)
         /\ Same(t, MarkFailed(t, j)) /\ Same(t, MarkStale(t, j)) /\ Same(t, MarkRunning(t, j))
         /\ Same(t, MarkReady(t, j)) /\ Same(t, Noticed(t, j)) /\ Same(t, InterruptRunning(t))
         /\ \A n : Same(t, SaveCheckpoint(t, j, n))
<1>1. ASSUME NEW from \in SUBSET Open, NEW to \in {"failed", "stale", "running", "ready"}
      PROVE  Same(t, SetStatus(t, j, from, to))
  BY DEF Same, Open, Unfinished, SetStatus, JobTable, Row
<1>2. Same(t, MarkFailed(t, j)) /\ Same(t, MarkStale(t, j)) /\ Same(t, MarkRunning(t, j))
  BY <1>1 DEF MarkFailed, MarkStale, MarkRunning, Open, Unfinished
<1>3. Same(t, MarkReady(t, j))
  BY <1>1 DEF MarkReady, Open, Unfinished
<1>4. Same(t, t)
  BY DEF Same
<1>5. Same(t, Noticed(t, j))
  BY <1>2, <1>4 DEF Noticed
<1>6. Same(t, InterruptRunning(t))
  BY DEF Same, InterruptRunning, JobTable, Row
<1>7. \A n : Same(t, SaveCheckpoint(t, j, n))
  BY DEF Same, SaveCheckpoint, JobTable, Row
<1> QED
  BY <1>2, <1>3, <1>4, <1>5, <1>6, <1>7

LEMMA SameCreate ==
  ASSUME NEW t \in JobTable, TableOK(t), NEW j \in Jobs, t[j].status = "none", NEW c
  PROVE  Same(t, Create(t, j, c))
<1>1. t[j].intent = "none"
  BY IntentValues DEF TableOK, IntentMatches
<1> QED
  BY <1>1 DEF Same, Create, NoRow, JobTable

\* The worker may save a checkpoint and give the build up in one step.
LEMMA SameTwice ==
  ASSUME NEW t \in JobTable, NEW j, NEW k, NEW n \in Nat
  PROVE  Same(t, MarkFailed(SaveCheckpoint(t, j, n), k))
<1> DEFINE u == SaveCheckpoint(t, j, n)
           v == MarkFailed(u, k)
<1>1. u \in JobTable
  BY WorkerTableTypes
<1>2. Same(t, u) /\ Same(u, v)
  BY <1>1, SameMoves
<1>3. \A i \in Jobs : u[i].prev = t[i].prev /\ u[i].expected = t[i].expected
  BY DEF SaveCheckpoint, JobTable, Row
<1>4. \A i \in Jobs : v[i].prev = u[i].prev /\ v[i].expected = u[i].expected
  BY <1>1 DEF MarkFailed, SetStatus, JobTable, Row
<1> HIDE DEF u, v
<1>5. \A i \in Jobs : v[i].intent = t[i].intent
                    /\ (v[i].status = "active" <=> t[i].status = "active")
  BY <1>2 DEF Same
<1> QED
  BY <1>3, <1>4, <1>5 DEF Same, u, v

LEMMA SameIntents ==
  ASSUME NEW t \in JobTable, TableOK(t), NEW u, Same(t, u)
  PROVE  /\ WithIntent(u) = WithIntent(t)
         /\ \A j \in WithIntent(t) : /\ u[j].prev = t[j].prev /\ u[j].expected = t[j].expected
                                     /\ IntentTarget(u, j) = IntentTarget(t, j)
<1>1. WithIntent(u) = WithIntent(t)
  BY DEF WithIntent, Same
<1>2. \A j \in WithIntent(t) : t[j].status # "none"
  BY IntentValues DEF WithIntent, TableOK, IntentMatches
<1> QED
  BY <1>1, <1>2 DEF Same, IntentTarget, WithIntent

LEMMA SameCoherent ==
  ASSUME NEW t \in JobTable, TableOK(t), NEW u, Same(t, u), NEW a, Coherent(t, a)
  PROVE  Coherent(u, a)
<1>1. \A j \in Jobs : u[j].prev # j
  BY MaxJobsAssumption DEF Same, Coherent, Jobs, NoCollection
<1>2. \A j \in Jobs : u[j].status = "active" <=> t[j].status = "active"
  BY DEF Same
<1> QED
  BY <1>1, <1>2, SameIntents DEF Coherent

LEMMA SameLinked ==
  ASSUME NEW t \in JobTable, TableOK(t), NEW u, Same(t, u), NEW a, NEW op, OpOK(t, op), Linked(t, a, op)
  PROVE  Linked(u, a, op)
<1>1. op.pc # "idle" => op.src \in Jobs /\ op.intent # "none"
  BY DEF OpOK
<1>2. CASE op.pc \in {"askCurrent", "gotCurrent"}
  <2>1. op.intent = "rollback" => t[op.src].status = "active" /\ u[op.src].prev = t[op.src].prev
                                  /\ u[op.src].status = "active"
    BY <1>1, <1>2 DEF Same, Linked
  <2> QED
    BY <1>2, <2>1, SameIntents DEF Linked
<1>3. CASE op.pc \notin {"idle", "askCurrent", "gotCurrent"}
  <2>1. op.src \in WithIntent(t)
    BY <1>1, <1>3 DEF Linked, WithIntent
  <2>2. u[op.src].intent = t[op.src].intent
    BY <1>1, <1>3 DEF Same
  <2> QED
    BY <1>3, <2>1, <2>2, SameIntents DEF Linked
<1> QED
  BY <1>2, <1>3 DEF Linked

\* A step that touches neither the alias nor an intent nor the record.
Still == Same(jobs, jobs') /\ alias' = alias

LEMMA StillCoherent == ASSUME IInv, OneInv, Still PROVE Coherent(jobs, alias)'
  BY SameCoherent DEF IInv, TypeOK, OneInv, Still

LEMMA StillLinked ==
  ASSUME IInv, OneInv, Still, ops' = ops \/ ops'[BootOp] = IdleOp
  PROVE  OneInv'
<1>1. CASE ops'[BootOp] = IdleOp
  BY <1>1, StillCoherent DEF OneInv, Linked, IdleOp
<1>2. CASE ops' = ops
  <2>1. OpOK(jobs, ops[BootOp])
    BY RetrievalAssumption DEF IInv, OpsOK
  <2>2. Linked(jobs', alias, ops[BootOp])
    BY <2>1, SameLinked DEF IInv, TypeOK, OneInv, Still
  <2> QED
    BY <1>2, <2>2, StillCoherent DEF OneInv, Still
<1> QED
  BY <1>1, <1>2

LEMMA NextPageStill ==
  ASSUME NEW t, NEW n, NEW cur, NextPage(t, n, cur)
  PROVE  jobs' = t \/ jobs' = MarkFailed(t, worker.job)
  BY DEF NextPage

LEMMA BuildStill == ASSUME IInv, Build PROVE Same(jobs, jobs')
<1>1. jobs \in JobTable
  BY DEF IInv, TypeOK
<1>2. jobs' = jobs \/ jobs' = MarkFailed(jobs, worker.job) => Same(jobs, jobs')
  BY <1>1, SameMoves
<1>3. Abandon \/ EnterPages => Same(jobs, jobs')
  BY <1>2, NextPageStill DEF Abandon, EnterPages
<1>4. CASE GotUpserted
  <2> DEFINE sum == worker.done + Count(worker.records)
             t    == SaveCheckpoint(jobs, worker.job, sum)
  <2>1. sum \in Nat
    BY CountType DEF IInv, TypeOK, Worker
  <2>2. Same(jobs, t) /\ Same(jobs, MarkFailed(t, worker.job))
    BY <1>1, <2>1, SameMoves, SameTwice
  <2>3. jobs' = t \/ jobs' = MarkFailed(t, worker.job)
    BY <1>4, NextPageStill DEF GotUpserted
  <2> QED
    BY <2>2, <2>3
<1>5. CASE GotVerified
  BY <1>1, <1>5, SameMoves DEF GotVerified
<1> QED
  BY <1>2, <1>3, <1>4, <1>5 DEF Build, GotInfo, GotCreated, BuildFails

LEMMA WorkerStill ==
  ASSUME IInv, Edit \/ CreateJob \/ WorkerStep \/ Crash
               \/ \E j \in Jobs : GetJob(j) \/ LoseCollection(j)
  PROVE  Still /\ (ops' = ops \/ ops'[BootOp] = IdleOp)
<1>1. jobs \in JobTable /\ TableOK(jobs) /\ Same(jobs, jobs)
  BY SameMoves DEF IInv, TypeOK
<1>2. Die => ops'[BootOp] = IdleOp
  BY RetrievalAssumption DEF Die
<1>3. CASE Edit
  BY <1>1, <1>3 DEF Edit, EditItem, ToggleItem, SetItem, qdrant, Still
<1>4. CASE CreateJob
  <2>1. PICK j \in Jobs : jobs[j].status = "none" /\ jobs' = Create(jobs, j, Current)
    BY <1>4 DEF CreateJob, Existing
  <2>2. Same(jobs, jobs')
    BY <1>1, <2>1, SameCreate
  <2> QED
    BY <1>4, <2>2 DEF CreateJob, qdrant, Still
<1>5. CASE \E j \in Jobs : GetJob(j) \/ LoseCollection(j)
  BY <1>1, <1>5, SameMoves DEF GetJob, LoseCollection, qdrant, Still
<1>6. CASE Crash
  BY <1>1, <1>2, <1>6 DEF Crash, Still
<1>7. CASE Drain
  <2>1. Same(jobs, jobs')
    BY <1>1, <1>7, SameMoves DEF Drain, DrainStop, DrainThrows, DrainStale, DrainBuild
  <2> QED
    BY <1>2, <1>7, <2>1 DEF Drain, DrainStop, DrainThrows, DrainStale, DrainBuild, qdrant, Still
<1>8. CASE Build
  BY <1>8, BuildStill DEF Build, GotInfo, GotCreated, GotUpserted, GotVerified, BuildFails,
     qdrant, Still
<1> QED
  BY <1>3, <1>4, <1>5, <1>6, <1>7, <1>8 DEF WorkerStep

\* What reconcilePendingIntent found is what it goes on with.
LEMMA ReconcilingLinked ==
  ASSUME NEW t \in JobTable, WithIntent(t) # {}, NEW job, NEW exp, NEW a
  PROVE  Linked(t, a, Reconciling(t, job, exp))
<1> DEFINE p == First1(WithIntent(t))
           r == Reconciling(t, job, exp)
<1>1. /\ r.pc = "askReconcile" /\ r.src = p /\ r.intent = t[p].intent
      /\ r.from = t[p].expected /\ r.to = IntentTarget(t, p)
  BY DEF Reconciling, Switching, IdleOp
<1> QED
  BY <1>1 DEF Linked

\* The part of activate after reconciliation starts with nothing intended.
LEMMA ActivatingLinked ==
  ASSUME NEW o \in AliasOps, ops \in [AliasOps -> Op], NEW t \in JobTable, WithIntent(t) = {},
         NEW job \in Jobs, NEW exp, NEW good, NEW a, Activating(o, t, job, exp, good)
  PROVE  Same(t, jobs') /\ Linked(jobs', a, ops'[o])
<1>1. jobs' = Noticed(t, job) /\ Same(t, jobs')
  BY SameMoves DEF Activating
<1>2. WithIntent(jobs') = {}
  BY <1>1 DEF WithIntent, Same
<1>3. CASE ops'[o] = IdleOp
  BY <1>1, <1>3 DEF Linked, IdleOp
<1>4. CASE ops'[o] = Switching("askCurrent", "activate", job, exp, job)
  <2>1. ops'[o].pc = "askCurrent" /\ ops'[o].intent = "activate"
    BY <1>4 DEF Switching, IdleOp
  <2> QED
    BY <1>1, <1>2, <2>1 DEF Linked
<1> QED
  BY <1>3, <1>4 DEF Activating, SetOp

LEMMA RequestStill ==
  ASSUME IInv, OneInv, Request(BootOp)
  PROVE  Still /\ OneInv'
<1>1. /\ jobs \in JobTable /\ TableOK(jobs) /\ Same(jobs, jobs) /\ BootOp \in AliasOps
      /\ ops \in [AliasOps -> Op]
  BY SameMoves, RetrievalAssumption DEF IInv, TypeOK
<1>2. alias' = alias
  BY DEF Request, StartActivate, StartRollback, qdrant
<1>3. SUFFICES Same(jobs, jobs') /\ Linked(jobs', alias, ops'[BootOp])
  BY <1>2, StillCoherent DEF Still, OneInv
<1>4. ASSUME WithIntent(jobs) # {}, jobs' = jobs, NEW job, NEW exp,
             SetOp(BootOp, Reconciling(jobs, job, exp))
      PROVE  Same(jobs, jobs') /\ Linked(jobs', alias, ops'[BootOp])
  BY <1>1, <1>4, ReconcilingLinked DEF SetOp
<1>5. ASSUME NEW j \in Jobs, NEW exp \in Collections, NEW good \in BOOLEAN,
             StartActivate(BootOp, j, exp, good)
      PROVE  Same(jobs, jobs') /\ Linked(jobs', alias, ops'[BootOp])
  <2>1. CASE WithIntent(jobs) # {}
    BY <1>4, <1>5, <2>1 DEF StartActivate
  <2>2. CASE WithIntent(jobs) = {}
    BY <1>1, <1>5, <2>2, ActivatingLinked DEF StartActivate
  <2> QED
    BY <2>1, <2>2
<1>6. ASSUME NEW j \in Jobs, NEW exp \in Collections, StartRollback(BootOp, j, exp)
      PROVE  Same(jobs, jobs') /\ Linked(jobs', alias, ops'[BootOp])
  <2>1. CASE WithIntent(jobs) # {}
    BY <1>4, <1>6, <2>1 DEF StartRollback
  <2>2. CASE WithIntent(jobs) = {}
    <3> DEFINE r == Switching("askCurrent", "rollback", j, j, jobs[j].prev)
    <3>1. /\ r.pc = "askCurrent" /\ r.src = j /\ r.from = j /\ r.to = jobs[j].prev
      BY DEF Switching, IdleOp
    <3>2. ops'[BootOp] = r /\ jobs' = jobs /\ jobs[j].status = "active"
      BY <1>1, <1>6, <2>2 DEF StartRollback, SetOp, MayRollBack
    <3>3. Linked(jobs, alias, r)
      BY <2>2, <3>1, <3>2 DEF Linked
    <3> QED
      BY <1>1, <3>2, <3>3
  <2> QED
    BY <2>1, <2>2
<1> QED
  BY <1>5, <1>6 DEF Request

LEMMA BootStill == ASSUME IInv, OneInv, Boot PROVE Still /\ OneInv'
<1> DEFINE t == InterruptRunning(jobs)
<1>1. jobs' = t /\ alias' = alias /\ t \in JobTable /\ Same(jobs, t)
  BY SameMoves DEF Boot, qdrant, IInv, TypeOK, InterruptRunning, JobTable, Row,
     Statuses
<1>2. CASE ops'[BootOp] = IdleOp
  BY <1>1, <1>2, StillLinked DEF Still
<1>3. CASE WithIntent(t) # {} /\ ops'[BootOp] = Reconciling(t, NoCollection, NoCollection)
  <2>1. Linked(t, alias, ops'[BootOp])
    BY <1>1, <1>3, ReconcilingLinked
  <2> QED
    BY <1>1, <2>1, StillCoherent DEF OneInv, Still
<1> QED
  BY <1>2, <1>3, RetrievalAssumption DEF Boot

LEMMA ReadStill == ASSUME IInv, OneInv, ReadAlias(BootOp) PROVE Still /\ OneInv'
<1> DEFINE op == ops[BootOp]
           r  == [op EXCEPT !.pc = Answer[@], !.seen = alias]
<1>1. /\ op \in Op /\ BootOp \in AliasOps /\ ops \in [AliasOps -> Op] /\ Same(jobs, jobs)
  BY RetrievalAssumption, SameMoves DEF IInv, TypeOK
<1>2. /\ ops'[BootOp] = r /\ UNCHANGED <<jobs, alias>>
      /\ op.pc \in {"askReconcile", "askCurrent", "askSwitch"}
  BY <1>1 DEF ReadAlias, SetOp, qdrant, Answer
<1>3. /\ r.seen = alias /\ r.src = op.src /\ r.to = op.to /\ r.from = op.from
      /\ r.intent = op.intent /\ r.pc = Answer[op.pc]
  BY <1>1 DEF Op
<1>4. /\ op.pc = "askReconcile" => r.pc = "gotReconcile"
      /\ op.pc = "askCurrent" => r.pc = "gotCurrent"
      /\ op.pc = "askSwitch" => r.pc = "gotSwitch"
  BY <1>3 DEF Answer
<1>5. Linked(jobs, alias, op) => Linked(jobs, alias, r)
  BY <1>2, <1>3, <1>4 DEF Linked
<1> QED
  BY <1>1, <1>2, <1>5 DEF Still, OneInv

LEMMA SwitchStill ==
  ASSUME IInv, OneInv, GotSwitch(BootOp) \/ OpFails(BootOp)
  PROVE  Still /\ OneInv'
<1> DEFINE op == ops[BootOp]
           r  == [op EXCEPT !.pc = "sent", !.seen = NoCollection]
<1>1. /\ op \in Op /\ BootOp \in AliasOps /\ ops \in [AliasOps -> Op] /\ Same(jobs, jobs)
  BY RetrievalAssumption, SameMoves DEF IInv, TypeOK
<1>2. CASE OpFails(BootOp)
  BY <1>1, <1>2, StillLinked DEF OpFails, EndOp, SetOp, qdrant, Still
<1>3. CASE GotSwitch(BootOp)
  <2>1. ops'[BootOp] = r /\ UNCHANGED <<jobs, alias>> /\ op.pc = "gotSwitch"
    BY <1>1, <1>3 DEF GotSwitch, SetOp, qdrant
  <2>2. /\ r.pc = "sent" /\ r.src = op.src /\ r.to = op.to /\ r.from = op.from
        /\ r.intent = op.intent
    BY <1>1 DEF Op
  <2>3. Linked(jobs, alias, op) => Linked(jobs, alias, r)
    BY <2>1, <2>2 DEF Linked
  <2> QED
    BY <1>1, <2>1, <2>3 DEF Still, OneInv
<1> QED
  BY <1>2, <1>3

-----------------------------------------------------------------------------
(* The three steps of LiveIndex. *)

RecordOf(t) == IF WithStatus(t, {"active"}) = {} THEN NoCollection
               ELSE First1(WithStatus(t, {"active"}))
GoalOf(t) == IF WithIntent(t) = {} THEN NoCollection
             ELSE IntentTarget(t, First1(WithIntent(t)))

LEMMA SameLive ==
  ASSUME NEW t \in JobTable, TableOK(t), NEW u, Same(t, u)
  PROVE  RecordOf(u) = RecordOf(t) /\ GoalOf(u) = GoalOf(t)
<1>1. WithStatus(u, {"active"}) = WithStatus(t, {"active"})
  BY DEF Same, WithStatus
<1>2. WithIntent(t) # {} => First1(WithIntent(t)) \in WithIntent(t)
  BY FirstJob DEF WithIntent
<1> QED
  BY <1>1, <1>2, SameIntents DEF RecordOf, GoalOf

\* What an administrator sees of a coherent table.
LEMMA SeenOf ==
  ASSUME NEW t \in JobTable, TableOK(t), NEW a \in Collections, Coherent(t, a)
  PROVE  /\ WithIntent(t) = {} => GoalOf(t) = NoCollection /\ RecordOf(t) = a
         /\ \A j \in WithIntent(t) :
               /\ GoalOf(t) = IntentTarget(t, j) /\ RecordOf(t) = t[j].expected
               /\ IntentTarget(t, j) \in Jobs /\ IntentTarget(t, j) # t[j].expected
<1>1. ASSUME NEW c \in Collections, \A i \in Jobs : t[i].status = "active" <=> i = c
      PROVE  RecordOf(t) = c
  <2>1. CASE c \in Jobs
    <3>1. WithStatus(t, {"active"}) = {c}
      BY <1>1, <2>1 DEF WithStatus
    <3>2. First1({c}) \in {c}
      BY <2>1, FirstJob
    <3> QED
      BY <3>1, <3>2 DEF RecordOf
  <2>2. CASE c \notin Jobs
    BY <1>1, <2>2 DEF WithStatus, RecordOf, Collections
  <2> QED
    BY <2>1, <2>2
<1>2. WithIntent(t) = {} => GoalOf(t) = NoCollection /\ RecordOf(t) = a
  BY <1>1 DEF GoalOf, Coherent
<1>3. ASSUME NEW j \in WithIntent(t)
      PROVE  /\ GoalOf(t) = IntentTarget(t, j) /\ RecordOf(t) = t[j].expected
             /\ IntentTarget(t, j) \in Jobs /\ IntentTarget(t, j) # t[j].expected
  <2>1. j \in Jobs /\ t[j].intent \in {"activate", "rollback"} /\ t[j].expected \in Collections
    BY IntentValues DEF WithIntent, JobTable, Row
  <2>2. WithIntent(t) = {j}
    BY <2>1 DEF WithIntent, TableOK, IntentUnique
  <2>3. First1({j}) \in {j}
    BY <2>1, FirstJob
  <2>4. RecordOf(t) = t[j].expected
    BY <1>1, <2>1 DEF Coherent
  <2>5. t[j].status = "active" <=> j = t[j].expected
    BY <2>1 DEF Coherent
  <2>6. CASE t[j].intent = "activate"
    BY <2>1, <2>2, <2>3, <2>4, <2>5, <2>6 DEF TableOK, IntentMatches, IntentTarget, GoalOf
  <2>7. CASE t[j].intent = "rollback"
    <3>1. t[j].prev \in Jobs /\ t[j].prev # j /\ t[j].expected = j
      BY <2>1, <2>5, <2>7, IntentValues DEF TableOK, IntentMatches, Coherent
    <3> QED
      BY <2>1, <2>2, <2>3, <2>4, <2>7, <3>1 DEF IntentTarget, GoalOf
  <2> QED
    BY <2>1, <2>6, <2>7
<1> QED
  BY <1>2, <1>3

LEMMA StillLive == ASSUME IInv, Still
                   PROVE  UNCHANGED <<alias, RecordOf(jobs), GoalOf(jobs)>>
  BY SameLive DEF IInv, TypeOK, Still

\* The intent is stored while the alias names the expected collection.
LEMMA PreparedCoherent ==
  ASSUME NEW t \in JobTable, TableOK(t), NEW a \in Collections, Coherent(t, a), WithIntent(t) = {},
         NEW j \in Jobs, NEW u, NEW kind,
         \/ /\ kind = "activate" /\ CanPrepareActivation(t, j) /\ u = PrepareActivation(t, j, a)
         \/ /\ kind = "rollback" /\ CanPrepareRollback(t, j) /\ u = PrepareRollback(t, j)
  PROVE  /\ Coherent(u, a) /\ WithIntent(u) = {j}
         /\ u[j].intent = kind /\ u[j].expected = a
         /\ IntentTarget(u, j) = (IF kind = "activate" THEN j ELSE t[j].prev)
<1>1. \A i \in Jobs : t[i].intent = "none" /\ (t[i].status = "active" <=> i = a)
  BY DEF WithIntent, Coherent
<1>2. /\ u[j].intent = kind /\ kind # "none" /\ u[j].expected = a /\ u[j].status = t[j].status
      /\ u[j].prev # j /\ (kind = "rollback" => u[j].prev = t[j].prev)
      /\ \A i \in Jobs : i # j => u[i] = t[i]
  <2>1. CASE kind = "activate" /\ CanPrepareActivation(t, j) /\ u = PrepareActivation(t, j, a)
    <3>1. j # a
      BY <1>1, <2>1 DEF CanPrepareActivation
    <3> QED
      BY <2>1, <3>1 DEF PrepareActivation, JobTable, Row
  <2>2. CASE kind = "rollback" /\ CanPrepareRollback(t, j) /\ u = PrepareRollback(t, j)
    <3>1. j = a /\ t[j].prev # j
      BY <1>1, <2>2 DEF CanPrepareRollback, Coherent
    <3> QED
      BY <2>2, <3>1 DEF PrepareRollback, JobTable, Row
  <2> QED
    BY <2>1, <2>2
<1>3. WithIntent(u) = {j}
  BY <1>1, <1>2 DEF WithIntent
<1>4. IntentTarget(u, j) = (IF kind = "activate" THEN j ELSE t[j].prev)
  BY <1>2 DEF IntentTarget
<1>5. \A i \in Jobs : u[i].prev # i /\ (u[i].status = "active" <=> i = a)
  BY <1>1, <1>2 DEF Coherent
<1> QED
  BY <1>2, <1>3, <1>4, <1>5 DEF Coherent

LEMMA IntendStep ==
  ASSUME IInv, IInv', OneInv, GotCurrent(BootOp)
  PROVE  OneInv' /\ \E c \in Jobs : Live!Intend(c)
<1> DEFINE op == ops[BootOp]
           r  == [op EXCEPT !.pc = "askSwitch", !.seen = NoCollection]
<1>1. /\ jobs \in JobTable /\ TableOK(jobs) /\ alias \in Collections
      /\ jobs' \in JobTable /\ TableOK(jobs') /\ BootOp \in AliasOps
      /\ op \in Op /\ OpOK(jobs, op) /\ ops \in [AliasOps -> Op]
  BY RetrievalAssumption DEF IInv, TypeOK, OpsOK
<1>2. /\ op.pc = "gotCurrent" /\ op.seen = op.from /\ ops'[BootOp] = r
      /\ UNCHANGED alias
  BY <1>1 DEF GotCurrent, SetOp, qdrant
<1>3. /\ op.from = alias /\ WithIntent(jobs) = {} /\ Coherent(jobs, alias)
      /\ op.src \in Jobs /\ op.to \in Jobs /\ op.intent \in {"activate", "rollback"}
      /\ op.intent = "activate" => op.to = op.src
      /\ op.intent = "rollback" => op.to = jobs[op.src].prev
  BY <1>1, <1>2 DEF OneInv, Linked, OpOK
<1>4. \/ op.intent = "activate" /\ CanPrepareActivation(jobs, op.src)
           /\ jobs' = PrepareActivation(jobs, op.src, alias)
      \/ op.intent = "rollback" /\ CanPrepareRollback(jobs, op.src)
           /\ jobs' = PrepareRollback(jobs, op.src)
  BY <1>2, <1>3 DEF GotCurrent
<1>5. /\ Coherent(jobs', alias) /\ WithIntent(jobs') = {op.src}
      /\ jobs'[op.src].intent = op.intent /\ jobs'[op.src].expected = alias
      /\ IntentTarget(jobs', op.src) = op.to
  BY SMTT(40), <1>1, <1>3, <1>4, PreparedCoherent
<1>6. /\ r.pc = "askSwitch" /\ r.from = op.from /\ r.src = op.src /\ r.intent = op.intent
      /\ r.to = op.to
  BY <1>1 DEF Op
<1>7. Linked(jobs', alias, r)
  BY <1>3, <1>5, <1>6 DEF Linked
<1>8. GoalOf(jobs) = NoCollection /\ RecordOf(jobs) = alias
  BY <1>1, <1>3, SeenOf
<1>9. GoalOf(jobs') = op.to /\ RecordOf(jobs') = alias /\ op.to # alias
  BY <1>1, <1>5, SeenOf
<1>10. Live!Intend(op.to)
  BY <1>2, <1>8, <1>9 DEF Live!Intend, GoalOf, RecordOf
<1> QED
  BY <1>2, <1>3, <1>5, <1>7, <1>10 DEF OneInv

LEMMA SwitchStep ==
  ASSUME IInv, IInv', OneInv, UpdateAlias(BootOp)
  PROVE  OneInv' /\ Live!Switch
<1> DEFINE op == ops[BootOp]
           r  == [op EXCEPT !.pc = "applied"]
<1>1. /\ jobs \in JobTable /\ TableOK(jobs) /\ alias \in Collections /\ BootOp \in AliasOps
      /\ op \in Op /\ OpOK(jobs, op) /\ ops \in [AliasOps -> Op]
  BY RetrievalAssumption DEF IInv, TypeOK, OpsOK
<1>2. /\ op.pc = "sent" /\ ops'[BootOp] = r /\ alias' = op.to /\ jobs' = jobs
  BY <1>1 DEF UpdateAlias, SetOp
<1>3. /\ Coherent(jobs, alias) /\ op.src \in WithIntent(jobs)
      /\ op.from = alias /\ op.from = jobs[op.src].expected
      /\ op.to = IntentTarget(jobs, op.src) /\ jobs[op.src].intent = op.intent
  BY <1>1, <1>2 DEF OneInv, Linked, OpOK, WithIntent
<1>4. /\ GoalOf(jobs) = op.to /\ op.to \in Jobs /\ op.to # alias
  BY <1>1, <1>3, SeenOf
<1>5. \A j \in WithIntent(jobs) : j = op.src
  BY <1>1, <1>3 DEF WithIntent, TableOK, IntentUnique
<1>6. Coherent(jobs, op.to)
  BY <1>3, <1>5 DEF Coherent
<1>7. /\ r.pc = "applied" /\ r.src = op.src /\ r.intent = op.intent
      /\ r.to = op.to /\ r.from = op.from
  BY <1>1 DEF Op
<1>8. Linked(jobs, op.to, r)
  BY <1>3, <1>7 DEF Linked
<1>9. op.to # NoCollection
  BY <1>4, MaxJobsAssumption DEF Jobs, NoCollection
<1>10. Live!Switch
  BY <1>2, <1>4, <1>9 DEF Live!Switch, GoalOf
<1> QED
  BY <1>2, <1>6, <1>8, <1>10 DEF OneInv

\* The outcome that is recorded is what the alias names.
LEMMA CompletedCoherent ==
  ASSUME NEW t \in JobTable, TableOK(t), \A i \in Jobs : t[i].prev # i,
         NEW j \in Jobs, NEW k \in Jobs, NEW u,
         \/ /\ CanCompleteActivation(t, j) /\ u = CompleteActivation(t, j) /\ k = j
         \/ /\ CanCompleteRollback(t, j, k) /\ u = CompleteRollback(t, j, k) /\ k = t[j].prev
  PROVE  Coherent(u, k) /\ WithIntent(u) = {}
<1>1. \A i \in Jobs : i # j => t[i].intent = "none"
  BY IntentValues DEF CanCompleteActivation, CanCompleteRollback, TableOK, IntentUnique
<1>2. /\ u[j].intent = "none"
      /\ \A i \in Jobs : /\ i # j => u[i].intent = t[i].intent
                         /\ u[i].prev = t[i].prev
                         /\ u[i].status = "active" <=> i = k
  <2>1. CASE u = CompleteActivation(t, j) /\ k = j
    BY <2>1 DEF CompleteActivation, JobTable, Row
  <2>2. CASE CanCompleteRollback(t, j, k) /\ u = CompleteRollback(t, j, k) /\ k = t[j].prev
    <3>1. /\ u[k].status = "active" /\ u[j].intent = "none" /\ u[j].status = "rolled_back"
          /\ j # k
          /\ \A i \in Jobs : /\ i # j => u[i].intent = t[i].intent
                             /\ u[i].prev = t[i].prev
                             /\ i \notin {j, k} => u[i].status = t[i].status
      BY <2>2, RollbackRows
    <3>2. \A i \in Jobs : i # j => t[i].status # "active"
      BY <2>2 DEF CanCompleteRollback, TableOK, ActiveUnique
    <3> QED
      BY <3>1, <3>2
  <2> QED
    BY <2>1, <2>2
<1>3. WithIntent(u) = {}
  BY <1>1, <1>2 DEF WithIntent
<1> QED
  BY <1>2, <1>3 DEF Coherent

LEMMA RecordStep ==
  ASSUME IInv, IInv', OneInv, NEW good \in BOOLEAN, Complete(BootOp, good),
         ops[BootOp].pc \notin {"idle", "askCurrent", "gotCurrent"},
         ops[BootOp].to = alias, UNCHANGED alias
  PROVE  OneInv' /\ Live!Record
<1> DEFINE op == ops[BootOp]
           t  == Completed(op)
<1>1. /\ jobs \in JobTable /\ TableOK(jobs) /\ alias \in Collections /\ BootOp \in AliasOps
      /\ jobs' \in JobTable /\ TableOK(jobs')
      /\ op \in Op /\ OpOK(jobs, op) /\ ops \in [AliasOps -> Op]
  BY RetrievalAssumption DEF IInv, TypeOK, OpsOK
<1>2. /\ op.src \in Jobs /\ op.to \in Jobs /\ op.intent \in {"activate", "rollback"}
      /\ jobs[op.src].intent = op.intent /\ op.to = IntentTarget(jobs, op.src)
      /\ Coherent(jobs, alias)
  BY <1>1 DEF OneInv, Linked, OpOK
<1>3. t \in JobTable /\ TableOK(t) /\ Coherent(t, alias) /\ WithIntent(t) = {}
  <2>1. t \in JobTable
    BY <1>1, OutcomeTypes DEF Completed
  <2>2. TableOK(t)
    BY <1>1, <1>2, CompleteActivationKeeps, CompleteRollbackKeeps
    DEF Complete, CanComplete, Completed
  <2>3. \A i \in Jobs : jobs[i].prev # i
    BY <1>2 DEF Coherent
  <2>4. CASE op.intent = "activate"
    <3>1. CanCompleteActivation(jobs, op.src) /\ t = CompleteActivation(jobs, op.src)
          /\ op.to = op.src
      BY <1>2, <2>4 DEF Complete, CanComplete, Completed, IntentTarget
    <3> QED
      BY <1>1, <1>2, <2>1, <2>2, <2>3, <3>1, CompletedCoherent
  <2>5. CASE op.intent = "rollback"
    <3>1. CanCompleteRollback(jobs, op.src, op.to) /\ t = CompleteRollback(jobs, op.src, op.to)
          /\ op.to = jobs[op.src].prev
      BY <1>2, <2>5 DEF Complete, CanComplete, Completed, IntentTarget
    <3> QED
      BY <1>1, <1>2, <2>1, <2>2, <2>3, <3>1, CompletedCoherent
  <2> QED
    BY <1>2, <2>4, <2>5
<1>4. Same(t, jobs') /\ Linked(jobs', alias, ops'[BootOp])
  <2>1. CASE op.job \notin {NoCollection, op.to}
    <3>1. op.job \in Jobs /\ Activating(BootOp, t, op.job, op.exp, good)
      BY <1>1, <2>1 DEF Complete, Op, Collections
    <3> QED
      BY <1>1, <1>3, <3>1, ActivatingLinked
  <2>2. CASE ~(op.job \notin {NoCollection, op.to})
    <3>1. jobs' = t /\ ops'[BootOp] = IdleOp
      BY <1>1, <2>2 DEF Complete, EndOp, SetOp
    <3>2. Linked(jobs', alias, IdleOp)
      BY DEF Linked, IdleOp
    <3> QED
      BY <1>3, <3>1, <3>2, SameMoves
  <2> QED
    BY <2>1, <2>2
<1> HIDE DEF t
<1>5. Coherent(jobs', alias) /\ WithIntent(jobs') = {}
  BY <1>3, <1>4, SameCoherent, SameIntents
<1>6. GoalOf(jobs') = NoCollection /\ RecordOf(jobs') = alias
  BY <1>1, <1>5, SeenOf
<1>7. GoalOf(jobs) = alias /\ alias # NoCollection
  <2>1. op.src \in WithIntent(jobs)
    BY <1>2 DEF WithIntent
  <2> QED
    BY <1>1, <1>2, <2>1, SeenOf, MaxJobsAssumption DEF Jobs, NoCollection
<1>8. Live!Record
  BY <1>6, <1>7 DEF Live!Record, GoalOf, RecordOf
<1> QED
  BY <1>4, <1>5, <1>8 DEF OneInv

LiveStep == Live!Next \/ UNCHANGED <<alias, RecordOf(jobs), GoalOf(jobs)>>

LEMMA ProceedLive ==
  ASSUME IInv, IInv', OneInv, Proceed(BootOp)
  PROVE  OneInv' /\ LiveStep
<1> DEFINE op == ops[BootOp]
           r  == [op EXCEPT !.pc = "askSwitch", !.seen = NoCollection]
<1>1. /\ op \in Op /\ BootOp \in AliasOps /\ ops \in [AliasOps -> Op] /\ Same(jobs, jobs)
      /\ OpOK(jobs, op)
  BY RetrievalAssumption, SameMoves DEF IInv, TypeOK, OpsOK
<1>2. ASSUME NEW good \in BOOLEAN, GotReconcile(BootOp, good) PROVE OneInv' /\ LiveStep
  <2>1. op.pc = "gotReconcile" /\ op.seen = alias /\ UNCHANGED alias
    BY <1>2 DEF GotReconcile, OneInv, Linked, qdrant
  <2>2. CASE op.seen = op.to /\ Complete(BootOp, good)
    BY <2>1, <2>2, RecordStep DEF LiveStep, Live!Next
  <2>3. CASE op.seen = op.from /\ SetOp(BootOp, r) /\ UNCHANGED jobs
    <3>1. /\ r.pc = "askSwitch" /\ r.src = op.src /\ r.intent = op.intent
          /\ r.to = op.to /\ r.from = op.from
      BY <1>1 DEF Op
    <3>2. Linked(jobs, alias, r)
      BY <2>1, <2>3, <3>1 DEF OneInv, Linked
    <3>3. ops'[BootOp] = r
      BY <1>1, <2>3 DEF SetOp
    <3> QED
      BY <2>1, <2>3, <3>2, <3>3 DEF OneInv, LiveStep
  <2> QED
    BY <1>2, <2>2, <2>3 DEF GotReconcile
<1>3. ASSUME NEW good \in BOOLEAN, GotApplied(BootOp, good) PROVE OneInv' /\ LiveStep
  <2>1. op.pc = "applied" /\ op.to = alias /\ UNCHANGED alias
    BY <1>3 DEF GotApplied, OneInv, Linked, qdrant
  <2> QED
    BY <1>3, <2>1, RecordStep DEF GotApplied, LiveStep, Live!Next
<1>4. CASE GotCurrent(BootOp)
  BY <1>4, IntendStep DEF LiveStep, Live!Next
<1>5. CASE GotSwitch(BootOp) \/ OpFails(BootOp)
  BY <1>5, SwitchStill, StillLive DEF LiveStep
<1> QED
  BY <1>2, <1>3, <1>4, <1>5 DEF Proceed

LEMMA OneStep ==
  ASSUME OneOperation, IInv, IInv', OneInv, [Next]_vars
  PROVE  OneInv' /\ LiveStep
<1>1. ASSUME Still, OneInv' PROVE OneInv' /\ LiveStep
  BY <1>1, StillLive DEF LiveStep
<1>2. CASE UNCHANGED vars
  BY <1>2 DEF vars, OneInv, LiveStep
<1>3. CASE Edit \/ CreateJob \/ WorkerStep \/ Crash \/ \E j \in Jobs : GetJob(j) \/ LoseCollection(j)
  BY <1>1, <1>3, WorkerStill, StillLinked
<1>4. ASSUME NEW o \in AliasOps, Request(o) \/ Proceed(o) \/ Qdrant(o) PROVE OneInv' /\ LiveStep
  <2>1. o = BootOp
    BY DEF OneOperation
  <2>2. CASE Request(o)
    BY <1>1, <2>1, <2>2, RequestStill
  <2>3. CASE Proceed(o)
    BY <2>1, <2>3, ProceedLive
  <2>4. CASE ReadAlias(o)
    BY <1>1, <2>1, <2>4, ReadStill
  <2>5. CASE UpdateAlias(o)
    BY <2>1, <2>5, SwitchStep DEF LiveStep, Live!Next
  <2> QED
    BY <1>4, <2>2, <2>3, <2>4, <2>5 DEF Qdrant
<1>5. CASE Boot
  BY <1>1, <1>5, BootStill
<1> QED
  BY <1>2, <1>3, <1>4, <1>5 DEF Next

LEMMA OneInit == Init => OneInv /\ Live!Init
<1> SUFFICES ASSUME Init PROVE OneInv /\ Live!Init
  OBVIOUS
<1>1. WithIntent(jobs) = {} /\ WithStatus(jobs, {"active"}) = {}
  BY DEF Init, NoRow, WithIntent, WithStatus
<1>2. Coherent(jobs, alias)
  BY <1>1, MaxJobsAssumption DEF Init, NoRow, Coherent, Jobs, NoCollection, WithStatus
<1>3. Linked(jobs, alias, ops[BootOp])
  BY RetrievalAssumption DEF Init, Linked, IdleOp
<1>4. Live!Init
  BY <1>1 DEF Init, Live!Init
<1> QED
  BY <1>2, <1>3, <1>4 DEF OneInv

LEMMA OneAlways == ASSUME OneOperation PROVE Spec => []OneInv
<1>1. IInv /\ IInv' /\ OneInv /\ [Next]_vars => OneInv'
  BY OneStep
<1> QED
  BY <1>1, OneInit, Inductive, PTL DEF Spec

\* When operations do not overlap, the alias is always where a stored intent
\* starts or ends, whatever crashes or fails: reconcilePendingIntent can carry it out.
THEOREM ReconcileTheorem == ASSUME OneOperation PROVE Spec => [](IntentReconcilable /\ RecordIsLive)
<1>1. OneInv => IntentReconcilable
  BY DEF OneInv, Coherent, IntentReconcilable
<1>2. IInv /\ OneInv => RecordIsLive
  <2> SUFFICES ASSUME IInv, OneInv, WithIntent(jobs) = {}
               PROVE  WithStatus(jobs, {"active"}) = {alias} \ {NoCollection}
    BY DEF RecordIsLive
  <2>1. \A i \in Jobs : jobs[i].status = "active" <=> i = alias
    BY DEF OneInv, Coherent
  <2>2. alias \in Jobs \cup {NoCollection} /\ NoCollection \notin Jobs
    BY MaxJobsAssumption DEF IInv, TypeOK, Collections, Jobs, NoCollection
  <2> QED
    BY <2>1, <2>2 DEF WithStatus
<1> QED
  BY <1>1, <1>2, OneAlways, Inductive, PTL

\* When operations do not overlap, every step of the service is one switch
\* intended, done or recorded, or nothing to an administrator.
THEOREM LiveTheorem == ASSUME OneOperation PROVE Spec => LiveSpec
<1>1. IInv /\ IInv' /\ OneInv /\ [Next]_vars => LiveStep
  BY OneStep
<1> QED
  BY <1>1, OneInit, OneAlways, Inductive, PTL DEF Spec, LiveSpec, Live!Spec, LiveStep, RecordOf, GoalOf

-----------------------------------------------------------------------------
(* Pages of the knowledge.                                                 *)

LEMMA ItemsCount ==
  ASSUME NEW S \in SUBSET Items
  PROVE  /\ IsFiniteSet(S) /\ Cardinality(S) \in Nat
         /\ Cardinality(S) = 0 <=> S = {}
         /\ \A T \in SUBSET S : /\ Cardinality(T) <= Cardinality(S)
                                /\ Cardinality(T) = Cardinality(S) => T = S
         /\ \A T \in SUBSET Items : S \cap T = {} =>
               Cardinality(S \cup T) = Cardinality(S) + Cardinality(T)
         /\ \A x \in Items : x \notin S => Cardinality(S \cup {x}) = Cardinality(S) + 1
<1>1. IsFiniteSet(S) /\ Cardinality(S) \in Nat /\ (Cardinality(S) = 0 <=> S = {})
  BY ItemsFinite, FS_EmptySet
<1>2. ASSUME NEW T \in SUBSET S
      PROVE  Cardinality(T) <= Cardinality(S) /\ (Cardinality(T) = Cardinality(S) => T = S)
  BY <1>1, FS_Subset
<1>3. ASSUME NEW T \in SUBSET Items, S \cap T = {}
      PROVE  Cardinality(S \cup T) = Cardinality(S) + Cardinality(T)
  <2>1. IsFiniteSet(T) /\ Cardinality(T) \in Nat
    BY ItemsFinite
  <2>2. Cardinality(S \cup T) = Cardinality(S) + Cardinality(T) - Cardinality(S \cap T)
    BY <1>1, <2>1, FS_Union
  <2>3. Cardinality(S \cap T) = 0
    BY <1>3, FS_EmptySet
  <2> QED
    BY <1>1, <2>1, <2>2, <2>3
<1>4. \A x \in Items : x \notin S => Cardinality(S \cup {x}) = Cardinality(S) + 1
  BY <1>1, FS_AddElement
<1> QED
  BY <1>1, <1>2, <1>3, <1>4

LEMMA LeastItem == ASSUME NEW S \in SUBSET Items, S # {}
                   PROVE  \E x \in S : \A y \in S : x <= y
<1>1. S \subseteq Nat
  BY ItemsAreNumbers
<1>2. PICK x \in S : \A y \in S : ~ (<<y, x>> \in OpToRel(<, Nat))
  BY <1>1, NatLessThanWellFounded, WFMin
<1>3. \A y \in S : ~ (y < x)
  BY <1>1, <1>2 DEF OpToRel
<1> QED
  BY <1>1, <1>3

\* LIMIT n returns the least rows, some if there are any, all unless it is full.
LEMMA FirstRows ==
  ASSUME NEW S \in SUBSET Items, NEW n \in Nat \ {0}
  PROVE  /\ First(S, n) \subseteq S
         /\ \A x \in First(S, n), y \in S : y <= x => y \in First(S, n)
         /\ S # {} => First(S, n) # {}
         /\ Cardinality(First(S, n)) < n => First(S, n) = S
<1> DEFINE F == First(S, n)
           upto(x) == {y \in S : y <= x}
<1>1. F \subseteq S /\ S \subseteq Nat
  BY ItemsAreNumbers DEF First
<1>2. \A x \in S : upto(x) \in SUBSET S /\ Cardinality(upto(x)) \in Nat
  BY ItemsCount
<1>3. ASSUME NEW x \in F, NEW y \in S, y <= x PROVE y \in F
  <2> HIDE DEF F
  <2>1. x \in S /\ \A z \in S : z <= y => z <= x
    <3>1. x \in S
      BY <1>1, <1>3
    <3>2. ASSUME NEW z \in S, z <= y PROVE z <= x
      <4>1. x \in Nat /\ y \in Nat /\ z \in Nat
        BY <1>1, <3>1
      <4> QED
        BY <1>3, <3>2, <4>1
    <3> QED
      BY <3>1, <3>2
  <2> USE DEF F
  <2>2. Cardinality(upto(y)) <= Cardinality(upto(x))
    <3>1. upto(y) \in SUBSET upto(x) /\ upto(x) \in SUBSET Items
      BY <2>1
    <3> HIDE DEF upto
    <3> QED
      BY <3>1, ItemsCount
  <2>3. Cardinality(upto(x)) <= n
    BY <1>3 DEF First
  <2>4. Cardinality(upto(y)) <= n
    <3>1. Cardinality(upto(x)) \in Nat /\ Cardinality(upto(y)) \in Nat
      BY <1>2, <1>3, <2>1
    <3> HIDE DEF upto
    <3> QED
      BY <2>2, <2>3, <3>1
  <2> QED
    BY <1>3, <2>4 DEF First
<1>4. ASSUME S # {} PROVE F # {}
  <2>1. PICK x \in S : \A y \in S : x <= y
    BY <1>4, LeastItem
  <2>2. \A y \in S : y <= x <=> y = x
    BY <1>1, <2>1
  <2>3. Cardinality({x}) = 1
    BY FS_Singleton
  <2>4. Cardinality(upto(x)) <= n
    <3>1. upto(x) = {x}
      BY <2>1, <2>2
    <3> QED
      BY <2>3, <3>1
  <2> QED
    BY <2>4 DEF First
<1>5. ASSUME Cardinality(F) < n, F # S PROVE FALSE
  <2>1. S \ F # {}
    BY <1>1, <1>5
  <2>2. PICK x \in S \ F : \A y \in S \ F : x <= y
    BY <2>1, LeastItem
  <2>3. \A y \in S : y <= x => y \in F \cup {x}
    BY <1>1, <2>2
  <2>4. F \cup {x} \in SUBSET Items /\ Cardinality(F \cup {x}) = Cardinality(F) + 1
        /\ Cardinality(F) \in Nat
    BY <1>1, <2>2, ItemsCount
  <2>5. Cardinality(upto(x)) <= Cardinality(F) + 1
    <3>1. upto(x) \in SUBSET (F \cup {x})
      BY <2>3
    <3> HIDE DEF upto, F
    <3> QED
      BY <2>4, <3>1, ItemsCount
  <2>6. Cardinality(upto(x)) <= n
    <3>1. Cardinality(upto(x)) \in Nat
      BY <1>2, <2>2
    <3> HIDE DEF upto, F
    <3> QED
      BY <1>5, <2>4, <2>5, <3>1
  <2> QED
    BY <2>2, <2>6 DEF First
<1> QED
  BY <1>1, <1>3, <1>4, <1>5

\* readPage returns the rows after the cursor without a gap, whether the page
\* ends inside the entries, inside the chunks or between them.
LEMMA PageRows ==
  ASSUME NEW c \in Content, NEW cur \in Items \cup {NoCursor}, NEW n \in Nat \ {0},
         NEW page, page = ReadPage(c, cur, n),
         NEW rest, rest = {i \in Present(c) : i > cur}
  PROVE  /\ page \subseteq rest
         /\ \A x \in page, y \in rest : y <= x => y \in page
         /\ rest # {} => page # {}
<1> DEFINE faqs == After(c, Faqs, cur)
           docs == After(c, Docs, cur)
<1>1. /\ faqs \in SUBSET Items /\ docs \in SUBSET Items /\ rest \in SUBSET Items
      /\ rest = faqs \cup docs /\ cur \in Nat
      /\ \A x \in faqs, y \in docs : x < y
      /\ cur \in Docs => faqs = {}
  BY KnowledgeAssumption DEF After, Faqs, Docs, Items, Present, NoCursor
<1>2. ASSUME NEW x \in faqs, NEW y \in docs PROVE ~(y <= x)
  <2> HIDE DEF faqs, docs
  <2>1. x \in Nat /\ y \in Nat /\ x < y
    BY <1>1, ItemsAreNumbers
  <2> QED
    BY <2>1
<1>3. CASE cur \in Docs
  <2>1. page = First(docs, n) /\ rest = docs
    BY <1>1, <1>3, FS_EmptySet DEF ReadPage, DocRows
  <2> QED
    BY <1>1, <2>1, FirstRows
<1>4. CASE cur \notin Docs
  <2> DEFINE some == First(faqs, n)
             left == n - Cardinality(some)
  <2>1. /\ some \subseteq faqs /\ \A x \in some, y \in faqs : y <= x => y \in some
        /\ faqs # {} => some # {}
        /\ Cardinality(some) < n => some = faqs
    BY <1>1, FirstRows
  <2>2. Cardinality(some) \in Nat /\ (Cardinality(some) = 0 <=> some = {})
    BY <1>1, <2>1, ItemsCount
  <2>3. CASE left > 0
    <3>1. page = some \cup First(docs, left)
      BY <1>4, <2>3 DEF ReadPage, FaqRows, DocRows
    <3>2. some = faqs /\ left \in Nat \ {0}
      BY <2>1, <2>2, <2>3
    <3>3. /\ First(docs, left) \subseteq docs
          /\ \A x \in First(docs, left), y \in docs : y <= x => y \in First(docs, left)
          /\ docs # {} => First(docs, left) # {}
      BY <1>1, <3>2, FirstRows
    <3>4. \A x \in faqs, y \in docs : ~(y <= x)
      BY <1>2
    <3> QED
      BY <1>1, <3>1, <3>2, <3>3, <3>4
  <2>4. CASE ~(left > 0)
    <3>1. page = some
      BY <1>4, <2>4 DEF ReadPage, FaqRows
    <3>2. some # {}
      BY <2>2, <2>4
    <3>3. \A x \in faqs, y \in docs : ~(y <= x)
      BY <1>2
    <3> QED
      BY <1>1, <2>1, <3>1, <3>2, <3>3
  <2> QED
    BY <2>3, <2>4
<1> QED
  BY <1>3, <1>4

\* OFFSET k is one row: the one with k rows before it.
LEMMA OffsetRow ==
  ASSUME NEW S \in SUBSET Items, NEW x \in S, NEW k, k = Cardinality({y \in S : y < x})
  PROVE  AtOffset(S, k) = {x}
<1> DEFINE before(z) == {y \in S : y < z}
<1>1. ASSUME NEW y \in S, NEW z \in S, y < z PROVE Cardinality(before(y)) # Cardinality(before(z))
  <2>1. before(y) \in SUBSET before(z) /\ y \in before(z) /\ y \notin before(y)
    <3>1. \A u \in S : u < y => u < z
      BY <1>1, ItemsAreNumbers
    <3>2. ~(y < y)
      BY ItemsAreNumbers
    <3> QED
      BY <1>1, <3>1, <3>2
  <2>2. before(z) \in SUBSET Items
    OBVIOUS
  <2> HIDE DEF before
  <2> QED
    BY <2>1, <2>2, ItemsCount
<1>2. \A y \in S : Cardinality(before(y)) = k => y = x
  <2>1. \A y \in S : y < x \/ x < y \/ y = x
    BY ItemsAreNumbers
  <2>2. Cardinality(before(x)) = k
    OBVIOUS
  <2> HIDE DEF before
  <2> QED
    BY <1>1, <2>1, <2>2
<1> QED
  BY <1>2 DEF AtOffset

\* cursorAt of the number of rows up to a row is that row.
LEMMA CursorOfCount ==
  ASSUME NEW c \in Content, NEW cur \in Items \cup {NoCursor}, cur = NoCursor \/ cur \in Present(c),
         NEW n, n = Cardinality({i \in Present(c) : i <= cur})
  PROVE  CheckpointInRange(c, n) /\ CursorAt(c, n) = cur
<1> DEFINE faqs == Present(c) \cap Faqs
           docs == Present(c) \cap Docs
           read == {i \in Present(c) : i <= cur}
           before(S) == {y \in S : y < cur}
<1>1. /\ Present(c) \in SUBSET Items /\ faqs \in SUBSET Items /\ docs \in SUBSET Items
      /\ read \in SUBSET Items /\ cur \in Nat
      /\ Present(c) = faqs \cup docs /\ \A x \in faqs, y \in docs : x < y
  BY KnowledgeAssumption DEF Present, Faqs, Docs, Items, NoCursor
<1>2. n \in Nat /\ (n = 0 <=> read = {})
  BY <1>1, ItemsCount
<1>3. \A y \in Present(c) : y <= cur <=> y < cur \/ y = cur
  <2>1. \A y \in Present(c) : y \in Nat
    BY <1>1, ItemsAreNumbers
  <2> QED
    BY <1>1, <2>1
<1>4. ASSUME NEW x \in faqs, NEW y \in docs PROVE ~(y <= x) /\ x # y
  <2>1. x \in Nat /\ y \in Nat /\ x < y
    BY <1>1, ItemsAreNumbers
  <2> QED
    BY <2>1
<1>5. CASE cur = NoCursor
  <2>1. read = {}
    BY <1>1, <1>5, KnowledgeAssumption DEF Items, NoCursor
  <2> QED
    BY <1>2, <1>5, <2>1 DEF CheckpointInRange, CursorAt
<1>6. CASE cur \in Present(c)
  <2>1. cur \in read
    BY <1>1, <1>6
  <2>2. n > 0
    BY <1>2, <2>1
  <2>3. SUFFICES RowsAt(c, n) = {cur}
    <3>1. (CHOOSE i \in {cur} : TRUE) = cur
      OBVIOUS
    <3>2. ~(n <= 0)
      BY <1>2, <2>2
    <3> QED
      BY <3>1, <3>2 DEF CheckpointInRange, CursorAt
  <2>4. ASSUME NEW S \in SUBSET Items, cur \in S
        PROVE  /\ before(S) \in SUBSET Items /\ cur \notin before(S)
               /\ Cardinality(before(S)) \in Nat
               /\ Cardinality(before(S) \cup {cur}) = Cardinality(before(S)) + 1
               /\ AtOffset(S, Cardinality(before(S))) = {cur}
    <3>1. before(S) \in SUBSET Items /\ cur \notin before(S) /\ cur \in Items
      <4>1. ~(cur < cur)
        BY <1>1
      <4> QED
        BY <2>4, <4>1
    <3>2. AtOffset(S, Cardinality(before(S))) = {cur}
      BY <2>4, OffsetRow
    <3> HIDE DEF before
    <3> QED
      BY <3>1, <3>2, ItemsCount
  <2>5. CASE cur \in Faqs
    <3>1. cur \in faqs /\ read = before(faqs) \cup {cur} /\ read \in SUBSET faqs
      <4>1. \A y \in faqs : y <= cur <=> y < cur \/ y = cur
        BY <1>3
      <4>2. cur \in faqs /\ \A y \in docs : ~(y <= cur)
        BY <1>1, <1>6, <2>5, <1>4
      <4>3. \A y : y \in read <=> y \in faqs /\ y <= cur
        BY <1>1, <4>2
      <4> QED
        BY <4>1, <4>2, <4>3
    <3>2. Cardinality(read) <= Cardinality(faqs)
      <4> HIDE DEF read, faqs
      <4> QED
        BY <1>1, <3>1, ItemsCount
    <3>3. AtOffset(faqs, n - 1) = {cur}
      <4>1. n = Cardinality(before(faqs)) + 1 /\ Cardinality(before(faqs)) \in Nat
        BY <1>1, <2>4, <3>1
      <4>2. AtOffset(faqs, Cardinality(before(faqs))) = {cur}
        BY <1>1, <2>4, <3>1
      <4> HIDE DEF before, faqs
      <4> QED
        <5>1. n - 1 = Cardinality(before(faqs))
          BY <4>1
        <5> QED
          BY <4>2, <5>1
    <3> QED
      BY <3>2, <3>3 DEF RowsAt
  <2>6. CASE cur \notin Faqs
    <3>1. cur \in docs /\ read = faqs \cup (before(docs) \cup {cur})
          /\ faqs \cap (before(docs) \cup {cur}) = {}
      <4>1. \A y \in docs : y <= cur <=> y < cur \/ y = cur
        BY <1>3
      <4>2. cur \in docs /\ \A y \in faqs : y <= cur
        BY <1>1, <1>6, <2>6, ItemsAreNumbers
      <4>3. \A y : y \in read <=> y \in faqs \/ (y \in docs /\ y <= cur)
        BY <1>1, <4>2
      <4>4. \A y \in docs : y \notin faqs
        BY <1>4
      <4> QED
        BY <4>1, <4>2, <4>3, <4>4
    <3>2. /\ Cardinality(before(docs) \cup {cur}) = Cardinality(before(docs)) + 1
          /\ Cardinality(before(docs)) \in Nat
          /\ AtOffset(docs, Cardinality(before(docs))) = {cur}
      BY <1>1, <2>4, <3>1
    <3>3. n = Cardinality(faqs) + Cardinality(before(docs)) + 1 /\ Cardinality(faqs) \in Nat
      <4>1. faqs \in SUBSET Items /\ before(docs) \cup {cur} \in SUBSET Items
        BY <1>1, <3>1
      <4>2. n = Cardinality(faqs \cup (before(docs) \cup {cur}))
        BY <3>1
      <4> HIDE DEF before, faqs, docs
      <4>3. Cardinality(faqs \cup (before(docs) \cup {cur}))
              = Cardinality(faqs) + Cardinality(before(docs) \cup {cur})
            /\ Cardinality(faqs) \in Nat
        BY <3>1, <4>1, ItemsCount
      <4> QED
        BY <3>2, <4>2, <4>3
    <3>4. ~(n <= Cardinality(faqs)) /\ n - Cardinality(faqs) - 1 = Cardinality(before(docs))
      <4> HIDE DEF before, faqs, docs
      <4> QED
        BY <3>2, <3>3
    <3> QED
      BY <3>2, <3>4 DEF RowsAt
  <2> QED
    BY <2>5, <2>6
<1> QED
  BY <1>5, <1>6

LEMMA GreatestItem == ASSUME NEW S \in SUBSET Items, S # {}
                      PROVE  \E x \in S : \A y \in S : y <= x
<1> DEFINE n == NumFaqs + NumDocs
           least == {n - y : y \in S}
<1>1. n \in Nat /\ Items = 1 .. n
  BY KnowledgeAssumption DEF Items
<1>2. least \subseteq Nat /\ least # {}
  <2>1. ASSUME NEW y \in S PROVE n - y \in Nat
    <3>1. y \in 1 .. n
      BY <1>1
    <3> QED
      BY <1>1, <3>1
  <2> QED
    BY <2>1
<1>3. PICK k \in least : \A z \in least : ~ (<<z, k>> \in OpToRel(<, Nat))
  BY <1>2, NatLessThanWellFounded, WFMin
<1>4. PICK x \in S : k = n - x
  BY <1>3
<1>5. ASSUME NEW y \in S PROVE y <= x
  <2>1. n - y \in least /\ n - y \in Nat /\ n - x \in Nat
    BY <1>1, <1>2
  <2>2. ~(n - y < n - x)
    BY <1>3, <1>4, <2>1 DEF OpToRel
  <2>3. x \in 1 .. n /\ y \in 1 .. n
    BY <1>1
  <2> QED
    BY <1>1, <2>2, <2>3
<1> QED
  BY <1>5

ScanInv ==
    /\ content \in Content /\ size \in Nat \ {0}
    /\ cursor \in Items \cup {NoCursor} /\ (cursor = NoCursor \/ cursor \in Present(content))
    /\ seen = {i \in Present(content) : i <= cursor}
    /\ count = Cardinality(seen)
    /\ ScanComplete

LEMMA ScanStep == ScanInv /\ [ScanNext]_scanVars => ScanInv'
<1> SUFFICES ASSUME ScanInv, [ScanNext]_scanVars PROVE ScanInv'
  OBVIOUS
<1> DEFINE page == ReadPage(content, cursor, size)
           rest == {i \in Present(content) : i > cursor}
           last == NextCursor(page, cursor)
<1>1. /\ page \subseteq rest /\ \A x \in page, y \in rest : y <= x => y \in page
      /\ rest # {} => page # {}
  <2>1. content \in Content /\ cursor \in Items \cup {NoCursor} /\ size \in Nat \ {0}
    BY DEF ScanInv
  <2>2. page = ReadPage(content, cursor, size) /\ rest = {i \in Present(content) : i > cursor}
    OBVIOUS
  <2> HIDE DEF page, rest
  <2> QED
    BY <2>1, <2>2, PageRows
<1>2. /\ Present(content) \in SUBSET Items /\ Present(content) \subseteq Nat /\ cursor \in Nat
  <2>1. Present(content) \in SUBSET Items
    BY DEF Present
  <2>2. NoCursor \in Nat /\ cursor \in Items \cup {NoCursor}
    BY DEF ScanInv, NoCursor
  <2> QED
    BY <2>1, <2>2, ItemsAreNumbers
<1>3. CASE ScanPage
  <2>1. PICK m \in page : \A x \in page : x <= m
    <3>1. page # {} /\ page \in SUBSET Items
      BY <1>1, <1>2, <1>3 DEF ScanPage
    <3> QED
      BY <3>1, GreatestItem
  <2>2. last = m
    <3>1. {i \in page : \A x \in page : x <= i} = {m}
      BY <1>1, <1>2, <2>1
    <3> QED
      BY <3>1 DEF NextCursor
  <2>3. m \in Present(content) /\ m > cursor
    BY <1>1, <2>1
  <2>4. ASSUME NEW i \in Present(content) PROVE i <= m <=> i \in seen \cup page
    <3>1. i \in Nat /\ m \in Nat /\ (i <= cursor \/ i > cursor)
      BY <1>2, <2>3
    <3>2. i \in seen <=> i <= cursor
      BY DEF ScanInv
    <3>3. i > cursor => (i <= m <=> i \in page)
      BY <1>1, <2>1
    <3>4. i \in page => i > cursor
      BY <1>1
    <3> QED
      BY <1>2, <2>3, <3>1, <3>2, <3>3, <3>4
  <2>5. seen \in SUBSET Items /\ page \in SUBSET Items /\ seen \cap page = {}
        /\ seen \subseteq Present(content) /\ page \subseteq Present(content)
    BY <1>1, <1>2 DEF ScanInv
  <2>6. seen \cup page = {i \in Present(content) : i <= m}
    BY <2>4, <2>5
  <2>7. Cardinality(seen \cup page) = Cardinality(seen) + Cardinality(page)
    <3> HIDE DEF page
    <3> QED
      BY <2>5, ItemsCount
  <2> QED
    BY <1>2, <1>3, <2>2, <2>3, <2>6, <2>7 DEF ScanPage, ScanInv, ScanComplete
<1>4. CASE ScanEnd
  <2>1. rest = {}
    BY <1>1, <1>4 DEF ScanEnd
  <2>2. seen = Present(content)
    BY <1>2, <2>1 DEF ScanInv
  <2> QED
    BY <1>4, <2>2 DEF ScanEnd, ScanInv, ScanComplete
<1>5. CASE UNCHANGED scanVars
  BY <1>5 DEF scanVars, ScanInv, ScanComplete
<1> QED
  BY <1>3, <1>4, <1>5 DEF ScanNext

\* For any number of entries, chunks and any page size: a finished scan has read
\* every active row once, and the cursor computed again from the number of rows
\* read is the one the scan had reached (inspect, readPage, cursorAt).
THEOREM ScanTheorem ==
    ASSUME MaxPage \in Nat
    PROVE  ScanInit /\ [][ScanNext]_scanVars => []ScanIsComplete
<1>1. ScanInit => ScanInv
  <2> SUFFICES ASSUME ScanInit PROVE ScanInv
    OBVIOUS
  <2>1. {i \in Present(content) : i <= cursor} = {}
    BY KnowledgeAssumption DEF ScanInit, Present, Items, NoCursor
  <2> QED
    BY <2>1, FS_EmptySet DEF ScanInit, ScanInv, ScanComplete
<1>2. ScanInv => ScanIsComplete
  BY CursorOfCount DEF ScanInv, ScanIsComplete, ResumePoint
<1> QED
  BY <1>1, <1>2, ScanStep, PTL

-----------------------------------------------------------------------------
(* When nothing returns, a ready collection is the snapshot.               *)

\* The item that may be switched off and on, and the others.
LastItem == NumFaqs + NumDocs
Others == Items \ {LastItem}
Body(c) == Present(c) \ {LastItem}

UpTo(S, x) == {i \in S : i <= x}
AtEnd(cur) == cur = LastItem /\ cur \in Items

\* A row that is off was edited, and one that is on again is not edited any more.
RowsOK(k) == \A i \in Others : ~k[i].on => k[i].rev >= 2
Settled(fp, k) == \A i \in Others : fp[i] = 0 => k[i].rev >= 2 /\ (k[i].on => k[i].rev = MaxRev)

\* A row in c and not in the snapshot is on for good.
ForGood(c, fp, k) == \A i \in Others : fp[i] = 0 /\ c[i] # 0 => k[i].on /\ k[i].rev = MaxRev

\* The snapshot is the knowledge but for the last item.
Steady(fp, k) == \A i \in Others : Fingerprint(k)[i] = fp[i]

\* A build that has read n rows, up to cur, has written them to c but for the
\* records r it is about to write.
Reads(c, r, fp, n, cur) ==
    /\ \A i \in Body(fp) : i <= cur => fp[i] \in {c[i], r[i]}
    /\ \A i \in Others : r[i] \in {0, fp[i]}
    /\ AtEnd(cur) => c[LastItem] # 0 \/ r[LastItem] # 0
    /\ n <= Cardinality(UpTo(Body(fp), cur)) + (IF AtEnd(cur) THEN 1 ELSE 0)

\* The rows a checkpoint n stands for are in c.
Saved(c, fp, n) ==
    /\ \A i \in First(Present(fp), n) \ {LastItem} : c[i] = fp[i]
    /\ n > Cardinality(Body(fp)) /\ LastItem \in Items => c[LastItem] # 0

LEMMA ItemsUpToLast ==
  /\ NoCursor \notin Items /\ Items \subseteq Nat /\ LastItem \in Nat
  /\ \A i \in Items : i <= LastItem
  /\ \A i \in Others : i < LastItem
  BY KnowledgeAssumption DEF Items, LastItem, NoCursor, Others

LEMMA BodyCount ==
  ASSUME NEW fp \in Content, NEW x \in Items \cup {NoCursor}
  PROVE  /\ Body(fp) \in SUBSET Items /\ UpTo(Body(fp), x) \in SUBSET Body(fp)
         /\ Cardinality(Body(fp)) \in Nat /\ Cardinality(UpTo(Body(fp), x)) \in Nat
         /\ Cardinality(UpTo(Body(fp), x)) <= Cardinality(Body(fp))
         /\ Cardinality(UpTo(Body(fp), x)) = Cardinality(Body(fp)) => UpTo(Body(fp), x) = Body(fp)
         /\ AtEnd(x) => UpTo(Body(fp), x) = Body(fp)
         /\ Count(fp) = Cardinality(Body(fp)) + (IF LastItem \in Present(fp) THEN 1 ELSE 0)
<1>1. Body(fp) \in SUBSET Items /\ UpTo(Body(fp), x) \in SUBSET Body(fp) /\ Present(fp) \in SUBSET Items
  BY DEF Body, UpTo, Present
<1>2. /\ Cardinality(Body(fp)) \in Nat /\ Cardinality(UpTo(Body(fp), x)) \in Nat
      /\ Cardinality(UpTo(Body(fp), x)) <= Cardinality(Body(fp))
      /\ Cardinality(UpTo(Body(fp), x)) = Cardinality(Body(fp)) => UpTo(Body(fp), x) = Body(fp)
  BY <1>1, ItemsCount
<1>3. AtEnd(x) => UpTo(Body(fp), x) = Body(fp)
  BY <1>1, ItemsUpToLast DEF AtEnd, UpTo
<1>4. Count(fp) = Cardinality(Body(fp)) + (IF LastItem \in Present(fp) THEN 1 ELSE 0)
  <2>1. CASE LastItem \in Present(fp)
    <3>1. LastItem \in Items /\ LastItem \notin Body(fp) /\ Present(fp) = Body(fp) \cup {LastItem}
      BY <1>1, <2>1 DEF Body
    <3>2. Cardinality(Body(fp) \cup {LastItem}) = Cardinality(Body(fp)) + 1
      BY <1>1, <3>1, ItemsCount
    <3> QED
      BY <2>1, <3>1, <3>2 DEF Count
  <2>2. CASE LastItem \notin Present(fp)
    <3>1. Present(fp) = Body(fp)
      BY <2>2 DEF Body
    <3> QED
      BY <1>2, <2>2, <3>1 DEF Count
  <2> QED
    BY <2>1, <2>2
<1> QED
  BY <1>1, <1>2, <1>3, <1>4

\* What was written is in the collection.
LEMMA WrittenReads ==
  ASSUME NEW c \in Content, NEW r \in Content, NEW fp \in Content, NEW n, NEW cur, Reads(c, r, fp, n, cur)
  PROVE  Reads(Upsert(c, r), EmptyContent, fp, n, cur)
<1>1. \A i \in Items : Upsert(c, r)[i] = (IF r[i] # 0 THEN r[i] ELSE c[i]) /\ EmptyContent[i] = 0
  BY DEF Upsert, EmptyContent
<1>2. AtEnd(cur) => LastItem \in Items
  BY DEF AtEnd
<1>3. \A i \in Body(fp) : i <= cur => fp[i] \in {Upsert(c, r)[i], EmptyContent[i]}
  BY <1>1 DEF Reads, Body, Present, Others
<1>4. \A i \in Others : EmptyContent[i] \in {0, fp[i]}
  BY <1>1 DEF Others
<1> QED
  BY <1>1, <1>2, <1>3, <1>4 DEF Reads

LEMMA ReadsSaved ==
  ASSUME NEW c \in Content, NEW fp \in Content, NEW n \in Nat, NEW cur \in Items \cup {NoCursor},
         Reads(c, EmptyContent, fp, n, cur)
  PROVE  Saved(c, fp, n)
<1>1. ASSUME NEW i \in First(Present(fp), n), i # LastItem PROVE c[i] = fp[i]
  <2>1. i \in Body(fp) /\ i \in Others /\ Cardinality({y \in Present(fp) : y <= i}) <= n
    BY <1>1 DEF First, Body, Present, Others
  <2>2. {y \in Present(fp) : y <= i} = UpTo(Body(fp), i)
    <3>1. i \in Nat /\ LastItem \in Nat /\ i < LastItem
      BY <2>1, ItemsUpToLast DEF Others
    <3> QED
      BY <3>1 DEF UpTo, Body
  <2>3. i <= cur
    <3> SUFFICES ASSUME ~(i <= cur) PROVE FALSE
      OBVIOUS
    <3>1. ~AtEnd(cur)
      BY ItemsUpToLast, <2>1 DEF AtEnd, Others
    <3>2. i \in Nat /\ cur \in Nat /\ i \in Items /\ Body(fp) \subseteq Nat
      <4>1. Body(fp) \subseteq Items /\ i \in Items
        BY <2>1 DEF Others, Body, Present
      <4>2. cur \in Nat
        BY ItemsUpToLast DEF NoCursor
      <4> QED
        BY <4>1, <4>2, ItemsUpToLast
    <3>3. UpTo(Body(fp), cur) \in SUBSET UpTo(Body(fp), i) /\ i \in UpTo(Body(fp), i) /\ i \notin UpTo(Body(fp), cur)
      BY <2>1, <3>2 DEF UpTo
    <3>4. Cardinality(UpTo(Body(fp), cur)) < Cardinality(UpTo(Body(fp), i))
      <4>1. UpTo(Body(fp), i) \in SUBSET Items
        BY <3>2, BodyCount
      <4>2. Cardinality(UpTo(Body(fp), cur)) \in Nat /\ Cardinality(UpTo(Body(fp), i)) \in Nat
        BY <3>2, BodyCount
      <4> QED
        BY <3>3, <4>1, <4>2, ItemsCount
    <3>5. n <= Cardinality(UpTo(Body(fp), cur))
      BY <3>1, BodyCount DEF Reads
    <3>6. Cardinality(UpTo(Body(fp), cur)) \in Nat /\ Cardinality(UpTo(Body(fp), i)) \in Nat
      BY <3>2, BodyCount
    <3> QED
      BY <2>1, <2>2, <3>4, <3>5, <3>6
  <2>4. fp[i] \in {c[i], EmptyContent[i]} /\ EmptyContent[i] = 0 /\ fp[i] # 0
    BY <2>1, <2>3 DEF Reads, EmptyContent, Others, Body, Present
  <2> QED
    BY <2>4
<1>2. ASSUME n > Cardinality(Body(fp)), LastItem \in Items PROVE c[LastItem] # 0
  <2>1. AtEnd(cur)
    BY <1>2, BodyCount DEF Reads
  <2>2. EmptyContent[LastItem] = 0
    BY <2>1 DEF AtEnd, EmptyContent
  <2> QED
    BY <2>1, <2>2 DEF Reads
<1> QED
  BY <1>1, <1>2 DEF Saved

\* Records of a batch leave what was written.
LEMMA SavedStays ==
  ASSUME NEW c \in Content, NEW r \in Content, NEW fp \in Content, NEW n, Saved(c, fp, n),
         \A i \in Others : r[i] \in {0, fp[i]}
  PROVE  Saved(Upsert(c, r), fp, n)
<1>1. \A i \in Items : Upsert(c, r)[i] = (IF r[i] # 0 THEN r[i] ELSE c[i])
  BY DEF Upsert
<1>2. \A i \in First(Present(fp), n) \ {LastItem} : Upsert(c, r)[i] = fp[i]
  BY <1>1 DEF Saved, First, Present, Others
<1>3. LastItem \in Items /\ c[LastItem] # 0 => Upsert(c, r)[LastItem] # 0
  BY <1>1
<1> QED
  BY <1>2, <1>3 DEF Saved

LEMMA NothingSaved ==
  ASSUME NEW c, NEW fp \in Content
  PROVE  Saved(c, fp, 0)
<1>1. First(Present(fp), 0) = {}
  <2> SUFFICES ASSUME NEW x \in First(Present(fp), 0) PROVE FALSE
    OBVIOUS
  <2>1. x \in Present(fp) /\ Cardinality({y \in Present(fp) : y <= x}) <= 0
    BY DEF First
  <2>2. {y \in Present(fp) : y <= x} \in SUBSET Items /\ x \in {y \in Present(fp) : y <= x}
    BY <2>1, ItemsAreNumbers DEF Present
  <2> QED
    BY <2>1, <2>2, ItemsCount
<1>2. Cardinality(Body(fp)) \in Nat
  BY BodyCount
<1> QED
  BY <1>1, <1>2 DEF Saved


\* The converse of CursorOfCount: as many rows lie up to the cursor as it was
\* computed from.
LEMMA CountOfCursor ==
  ASSUME NEW F \in Content, NEW n \in Nat \ {0}, NEW x \in RowsAt(F, n)
  PROVE  x \in Present(F) /\ Cardinality(UpTo(Present(F), x)) = n
<1> DEFINE faqs == Present(F) \cap Faqs
           docs == Present(F) \cap Docs
           before(S) == {y \in S : y < x}
<1>1. /\ Present(F) \in SUBSET Items /\ faqs \in SUBSET Items /\ docs \in SUBSET Items
      /\ Present(F) = faqs \cup docs /\ \A u \in faqs, v \in docs : u < v
  BY KnowledgeAssumption DEF Present, Faqs, Docs, Items
<1>2. Cardinality(faqs) \in Nat
  BY <1>1, ItemsCount
<1>3. \A y \in Present(F) : y \in Nat
  BY <1>1, ItemsAreNumbers
<1>4. ASSUME NEW S \in SUBSET Items, x \in S
      PROVE  /\ before(S) \in SUBSET Items /\ x \notin before(S) /\ UpTo(S, x) = before(S) \cup {x}
             /\ Cardinality(before(S)) \in Nat
             /\ Cardinality(before(S) \cup {x}) = Cardinality(before(S)) + 1
  <2>1. S \subseteq Nat
    BY ItemsAreNumbers
  <2>2. before(S) \in SUBSET Items /\ x \notin before(S) /\ UpTo(S, x) = before(S) \cup {x}
    <3>1. \A y \in S : y <= x <=> y < x \/ y = x
      BY <1>4, <2>1
    <3>2. ~(x < x)
      BY <1>4, <2>1
    <3>3. \A y : y \in before(S) <=> y \in S /\ y < x
      OBVIOUS
    <3> HIDE DEF before
    <3> QED
      BY <1>4, <3>1, <3>2, <3>3 DEF UpTo
  <2> HIDE DEF before
  <2> QED
    BY <1>4, <2>2, ItemsCount
<1>5. CASE n <= Cardinality(faqs)
  <2>1. x \in faqs /\ Cardinality(before(faqs)) = n - 1
    BY <1>5 DEF RowsAt, AtOffset
  <2>2. UpTo(Present(F), x) = UpTo(faqs, x)
    <3>1. \A v \in docs : ~(v <= x)
      BY <1>1, <1>3, <2>1
    <3> HIDE DEF faqs, docs
    <3> QED
      BY <1>1, <3>1 DEF UpTo
  <2>3. Cardinality(UpTo(faqs, x)) = n
    <3> HIDE DEF before, faqs
    <3>1. UpTo(faqs, x) = before(faqs) \cup {x} /\ Cardinality(before(faqs)) \in Nat
          /\ Cardinality(before(faqs) \cup {x}) = Cardinality(before(faqs)) + 1
      BY <1>1, <1>4, <2>1
    <3> QED
      BY <2>1, <3>1
  <2> QED
    BY <1>1, <2>1, <2>2, <2>3
<1>6. CASE ~(n <= Cardinality(faqs))
  <2>1. x \in docs /\ Cardinality(before(docs)) = n - Cardinality(faqs) - 1
    BY <1>6 DEF RowsAt, AtOffset
  <2>2. UpTo(Present(F), x) = faqs \cup UpTo(docs, x) /\ faqs \cap UpTo(docs, x) = {}
    <3>1. \A u \in faqs : u <= x /\ u \notin docs
      <4>1. \A u \in faqs, v \in docs : u <= v /\ u # v
        BY <1>1, <1>3
      <4> QED
        BY <2>1, <4>1
    <3> HIDE DEF faqs, docs
    <3> QED
      BY <1>1, <3>1 DEF UpTo
  <2>3. Cardinality(UpTo(docs, x)) = n - Cardinality(faqs) /\ UpTo(docs, x) \in SUBSET Items
    <3> HIDE DEF before, faqs, docs
    <3>1. UpTo(docs, x) = before(docs) \cup {x} /\ Cardinality(before(docs)) \in Nat
          /\ Cardinality(before(docs) \cup {x}) = Cardinality(before(docs)) + 1
      BY <1>1, <1>4, <2>1
    <3>2. Cardinality(UpTo(docs, x)) = n - Cardinality(faqs)
      BY <1>2, <2>1, <3>1
    <3> QED
      BY <1>1, <3>2 DEF UpTo
  <2>4. Cardinality(UpTo(Present(F), x)) = n
    <3> HIDE DEF faqs, docs
    <3>1. Cardinality(faqs \cup UpTo(docs, x)) = Cardinality(faqs) + Cardinality(UpTo(docs, x))
      BY <1>1, <2>2, <2>3, ItemsCount
    <3> QED
      BY <1>2, <2>2, <2>3, <3>1
  <2> QED
    BY <1>1, <2>1, <2>4
<1> QED
  BY <1>5, <1>6

\* What the first n rows of a snapshot are, apart from the last item.
LEMMA FirstBody ==
  ASSUME NEW fp \in Content, NEW i \in Body(fp)
  PROVE  /\ {y \in Present(fp) : y <= i} = UpTo(Body(fp), i)
         /\ \A n : i \in First(Present(fp), n) <=> Cardinality(UpTo(Body(fp), i)) <= n
<1>1. i \in Present(fp) /\ i \in Others /\ Present(fp) \subseteq Nat
  BY ItemsAreNumbers DEF Body, Present, Others
<1>2. LastItem \in Nat /\ i < LastItem
  BY <1>1, ItemsUpToLast
<1>3. {y \in Present(fp) : y <= i} = UpTo(Body(fp), i)
  BY <1>1, <1>2 DEF UpTo, Body
<1> QED
  BY <1>1, <1>3 DEF First

\* Rows up to a smaller row are fewer.
LEMMA UpToGrows ==
  ASSUME NEW S \in SUBSET Items, NEW x \in Nat, NEW y \in Nat, x <= y
  PROVE  /\ UpTo(S, x) \in SUBSET UpTo(S, y) /\ UpTo(S, y) \in SUBSET S
         /\ Cardinality(UpTo(S, x)) \in Nat /\ Cardinality(UpTo(S, y)) \in Nat
         /\ Cardinality(UpTo(S, x)) <= Cardinality(UpTo(S, y))
         /\ Cardinality(UpTo(S, y)) <= Cardinality(S)
<1>1. S \subseteq Nat
  BY ItemsAreNumbers
<1>2. UpTo(S, x) \in SUBSET UpTo(S, y) /\ UpTo(S, y) \in SUBSET S
  <2>1. \A z \in S : z <= x => z <= y
    BY <1>1
  <2> QED
    BY <2>1 DEF UpTo
<1>3. UpTo(S, x) \in SUBSET Items /\ UpTo(S, y) \in SUBSET Items
  BY DEF UpTo
<1> QED
  BY <1>2, <1>3, ItemsCount


\* A build that is resumed at its checkpoint has read the rows it stands for.
LEMMA ResumeReads ==
  ASSUME NEW c \in Content, NEW fp \in Content, NEW F \in Content,
         \A i \in Others : F[i] = fp[i],
         NEW n \in Nat, CheckpointInRange(F, n), Saved(c, fp, n)
  PROVE  Reads(c, EmptyContent, fp, n, CursorAt(F, n))
<1> DEFINE cur == CursorAt(F, n)
<1>0. \A i \in Items : EmptyContent[i] = 0
  BY DEF EmptyContent
<1>1. CASE n = 0
  <2>1. cur = NoCursor /\ ~AtEnd(cur) /\ \A i \in Items : ~(i <= cur)
    BY <1>1, ItemsUpToLast, KnowledgeAssumption DEF CursorAt, AtEnd, NoCursor, Items
  <2>2. Cardinality(UpTo(Body(fp), cur)) \in Nat
    BY <2>1, BodyCount
  <2> HIDE DEF cur
  <2>3. \A i \in Body(fp) : i \in Items
    BY DEF Body, Present
  <2>4. \A i \in Others : EmptyContent[i] \in {0, fp[i]}
    BY <1>0 DEF Others
  <2> SUFFICES Reads(c, EmptyContent, fp, n, cur)
    BY DEF cur
  <2> QED
    BY <1>1, <2>1, <2>2, <2>3, <2>4 DEF Reads
<1>2. CASE n # 0
  <2>1. cur \in RowsAt(F, n)
    BY <1>2 DEF CheckpointInRange, CursorAt
  <2> HIDE DEF cur
  <2>2. cur \in Present(F) /\ Cardinality(UpTo(Present(F), cur)) = n
    BY <1>2, <2>1, CountOfCursor
  <2>3. Body(F) = Body(fp) /\ cur \in Items
    BY <2>2 DEF Body, Present, Others
  <2>4. /\ Body(fp) \in SUBSET Items /\ Cardinality(Body(fp)) \in Nat
        /\ Cardinality(UpTo(Body(fp), cur)) \in Nat
        /\ AtEnd(cur) => UpTo(Body(fp), cur) = Body(fp)
    BY <2>3, BodyCount
  <2>5. Cardinality(UpTo(Body(fp), cur)) <= n
        /\ n <= Cardinality(UpTo(Body(fp), cur)) + (IF AtEnd(cur) THEN 1 ELSE 0)
    <3>1. CASE cur = LastItem
      <4>1. UpTo(Present(F), cur) = Body(fp) \cup {LastItem} /\ LastItem \notin Body(fp) /\ AtEnd(cur)
        <5>1. \A i \in Present(F) : i <= LastItem
          BY ItemsUpToLast DEF Present
        <5> QED
          BY <2>2, <2>3, <3>1, <5>1 DEF UpTo, Body, AtEnd
      <4>2. Cardinality(Body(fp) \cup {LastItem}) = Cardinality(Body(fp)) + 1
        BY <2>3, <2>4, <3>1, <4>1, ItemsCount
      <4> QED
        BY <2>2, <2>4, <4>1, <4>2
    <3>2. CASE cur # LastItem
      <4>1. UpTo(Present(F), cur) = UpTo(Body(fp), cur)
        <5>1. cur \in Nat /\ LastItem \in Nat /\ cur < LastItem
          BY <2>3, <3>2, ItemsUpToLast DEF Others
        <5>2. ~(LastItem <= cur)
          BY <5>1
        <5> QED
          BY <2>3, <5>2 DEF UpTo, Body
      <4> QED
        BY <2>2, <2>4, <3>2, <4>1 DEF AtEnd
    <3> QED
      BY <3>1, <3>2
  <2>6. ASSUME NEW i \in Body(fp), i <= cur PROVE c[i] = fp[i]
    <3>1. i \in Nat /\ cur \in Nat
      BY <2>3, <2>4, ItemsUpToLast
    <3>2. Cardinality(UpTo(Body(fp), i)) <= Cardinality(UpTo(Body(fp), cur))
          /\ Cardinality(UpTo(Body(fp), i)) \in Nat
      BY <2>4, <2>6, <3>1, UpToGrows
    <3>3. Cardinality(UpTo(Body(fp), i)) <= n
      BY <2>4, <2>5, <3>2
    <3>4. i \in First(Present(fp), n) /\ i # LastItem
      BY <3>3, FirstBody DEF Body
    <3> QED
      BY <3>4 DEF Saved
  <2>7. ASSUME AtEnd(cur) PROVE c[LastItem] # 0
    <3>1. LastItem \in Items /\ cur = LastItem
      BY <2>7 DEF AtEnd
    <3>2. n > Cardinality(Body(fp))
      <4>1. UpTo(Present(F), cur) = Body(fp) \cup {LastItem} /\ LastItem \notin Body(fp)
        <5>1. \A i \in Present(F) : i <= LastItem
          BY ItemsUpToLast DEF Present
        <5> QED
          BY <2>2, <2>3, <3>1, <5>1 DEF UpTo, Body
      <4>2. Cardinality(Body(fp) \cup {LastItem}) = Cardinality(Body(fp)) + 1
        BY <2>4, <3>1, <4>1, ItemsCount
      <4> QED
        BY <2>2, <2>4, <4>1, <4>2
    <3> QED
      BY <3>1, <3>2 DEF Saved
  <2>8. \A i \in Others : EmptyContent[i] \in {0, fp[i]}
    BY <1>0 DEF Others
  <2>9. \A i \in Body(fp) : i <= cur => fp[i] \in {c[i], EmptyContent[i]}
    BY <2>6
  <2> SUFFICES Reads(c, EmptyContent, fp, n, cur)
    BY DEF cur
  <2> QED
    BY <2>5, <2>7, <2>8, <2>9 DEF Reads
<1> QED
  BY <1>1, <1>2

\* One more page, read while the snapshot is the knowledge but for the last item.
LEMMA PageReads ==
  ASSUME NEW c \in Content, NEW fp \in Content, NEW F \in Content,
         \A i \in Others : F[i] = fp[i],
         NEW n \in Nat, NEW cur \in Items \cup {NoCursor}, NEW limit \in Nat \ {0},
         NEW page, page = ReadPage(F, cur, limit), page # {},
         Reads(c, EmptyContent, fp, n, cur)
  PROVE  Reads(c, Records(F, page), fp, n + Count(Records(F, page)), NextCursor(page, cur))
<1> DEFINE rest == {i \in Present(F) : i > cur}
           R == Records(F, page)
           last == NextCursor(page, cur)
<1>1. /\ page \subseteq rest /\ \A x \in page, y \in rest : y <= x => y \in page
  <2>1. rest = {i \in Present(F) : i > cur}
    OBVIOUS
  <2> HIDE DEF rest
  <2> QED
    BY SMTT(40), <2>1, PageRows
<1>2. page \in SUBSET Items /\ cur \in Nat
  BY <1>1, ItemsUpToLast DEF Present, NoCursor
<1>3. PICK m \in page : \A x \in page : x <= m
  BY <1>2, GreatestItem
<1>4. last = m
  <2>1. page \subseteq Nat
    BY <1>2, ItemsAreNumbers
  <2>2. {i \in page : \A x \in page : x <= i} = {m}
    BY <1>3, <2>1
  <2> QED
    BY <2>2 DEF NextCursor
<1>5. m \in Items /\ m \in Nat /\ m > cur /\ m \in Present(F)
  BY <1>1, <1>2, ItemsAreNumbers
<1>6. \A i \in Items : R[i] = (IF i \in page THEN F[i] ELSE 0) /\ EmptyContent[i] = 0
  BY DEF Records, EmptyContent
<1>7. ~AtEnd(cur)
  <2>1. m <= LastItem /\ LastItem \in Nat
    BY <1>5, ItemsUpToLast
  <2> QED
    BY <1>2, <1>5, <2>1 DEF AtEnd
<1>8. Body(F) = Body(fp) /\ Body(fp) \in SUBSET Items
  BY DEF Body, Present, Others
<1>9. Present(R) = page
  BY <1>1, <1>2, <1>6 DEF Present
<1> HIDE DEF R, last
<1>10. ASSUME NEW i \in Body(fp), i <= m PROVE fp[i] \in {c[i], R[i]}
  <2>1. i \in Others /\ i \in Items /\ i \in Nat /\ i \in Present(F) /\ F[i] = fp[i] /\ fp[i] # 0
    <3>1. i \in Items /\ i \in Others /\ i \in Present(F)
      BY <1>8 DEF Body, Others, Present
    <3> QED
      BY <3>1, ItemsAreNumbers DEF Body, Present
  <2>2. CASE i <= cur
    BY <1>6, <2>1, <2>2 DEF Reads
  <2>3. CASE i > cur
    <3>1. i \in page
      BY <1>1, <1>3, <1>10, <2>1, <2>3
    <3> QED
      BY <1>6, <2>1, <3>1
  <2> QED
    BY <1>2, <2>1, <2>2, <2>3
<1>11. \A i \in Others : R[i] \in {0, fp[i]}
  BY <1>6 DEF Others
<1>12. ASSUME AtEnd(m) PROVE R[LastItem] # 0
  <2>1. m = LastItem /\ F[m] # 0
    BY <1>5, <1>12 DEF AtEnd, Present
  <2> QED
    BY <1>5, <1>6, <2>1
<1>13. n + Count(R) <= Cardinality(UpTo(Body(fp), m)) + (IF AtEnd(m) THEN 1 ELSE 0)
  <2> DEFINE new == page \ {LastItem}
  <2>1. n <= Cardinality(UpTo(Body(fp), cur)) /\ Cardinality(UpTo(Body(fp), cur)) \in Nat
    BY <1>7, BodyCount DEF Reads
  <2>2. UpTo(Body(fp), m) = UpTo(Body(fp), cur) \cup new /\ UpTo(Body(fp), cur) \cap new = {}
    <3>1. ASSUME NEW i \in Body(fp)
          PROVE  i <= m <=> i <= cur \/ i \in new
      <4>1. i \in Nat /\ i \in Present(F) /\ i # LastItem
        BY <1>8, ItemsAreNumbers DEF Body
      <4>2. i > cur => (i <= m <=> i \in page)
        BY <1>1, <1>3, <4>1
      <4> QED
        BY <1>2, <1>5, <4>1, <4>2
    <3>2. \A i \in new : i \in Body(fp) /\ ~(i <= cur)
      <4>1. ASSUME NEW i \in new PROVE i \in Body(fp) /\ ~(i <= cur)
        <5>1. i \in Present(F) /\ i > cur /\ i # LastItem /\ i \in Nat
          BY <1>1, <1>2, ItemsAreNumbers
        <5> QED
          BY <1>2, <1>8, <5>1 DEF Body
      <4> QED
        BY <4>1
    <3> HIDE DEF new
    <3> QED
      BY <3>1, <3>2 DEF UpTo
  <2>3. Cardinality(UpTo(Body(fp), m)) = Cardinality(UpTo(Body(fp), cur)) + Cardinality(new)
        /\ Cardinality(new) \in Nat
    <3>1. UpTo(Body(fp), cur) \in SUBSET Items /\ new \in SUBSET Items
      BY <1>2, <1>8 DEF UpTo
    <3> HIDE DEF new
    <3> QED
      BY <2>2, <3>1, ItemsCount
  <2>4. Cardinality(page) = Cardinality(new) + (IF AtEnd(m) THEN 1 ELSE 0)
    <3>1. CASE LastItem \in page
      <4>1. page = new \cup {LastItem} /\ LastItem \notin new /\ LastItem \in Items /\ new \in SUBSET Items
        BY <1>2, <3>1
      <4>2. AtEnd(m)
        <5>1. LastItem <= m /\ m <= LastItem /\ m \in Nat /\ LastItem \in Nat
          BY <1>3, <1>5, <3>1, ItemsUpToLast
        <5>2. m = LastItem
          BY <5>1
        <5> QED
          BY <1>5, <5>2 DEF AtEnd
      <4>3. Cardinality(new \cup {LastItem}) = Cardinality(new) + 1
        <5> HIDE DEF new
        <5> QED
          BY <4>1, ItemsCount
      <4> HIDE DEF new
      <4> QED
        BY <4>1, <4>2, <4>3
    <3>2. CASE LastItem \notin page
      <4>1. new = page /\ ~AtEnd(m)
        BY <1>3, <3>2 DEF AtEnd
      <4> HIDE DEF new
      <4> QED
        BY <2>3, <4>1
    <3> QED
      BY <3>1, <3>2
  <2>5. Count(R) = Cardinality(page)
    BY <1>9 DEF Count
  <2> HIDE DEF new
  <2> QED
    BY <2>1, <2>3, <2>4, <2>5
<1>14. Reads(c, R, fp, n + Count(R), m)
  BY <1>10, <1>11, <1>12, <1>13 DEF Reads
<1> QED
  BY <1>4, <1>14 DEF R, last


\* A build that has read as many rows as the snapshot has, and whose points are
\* as many, wrote the snapshot.
LEMMA SavedExact ==
  ASSUME NEW c \in Content, NEW fp \in Content, NEW k \in KnowledgeRows, NEW n \in Nat,
         Fingerprint(k) = fp, FreshOf(c, fp), ForGood(c, fp, k),
         Saved(c, fp, n), n >= Count(fp)
  PROVE  c = fp
<1>1. Body(fp) \in SUBSET Items /\ Present(fp) \in SUBSET Items /\ Present(c) \in SUBSET Items
  BY DEF Body, Present
<1>2. Cardinality(Body(fp)) \in Nat /\ Cardinality(Body(fp)) <= Count(fp) /\ Count(fp) \in Nat
  <2>1. Body(fp) \in SUBSET Present(fp)
    BY DEF Body
  <2> QED
    BY <1>1, <2>1, ItemsCount DEF Count
<1>3. ASSUME NEW i \in Body(fp) PROVE i \in Present(c)
  <2>1. i \in Nat /\ i \in Items
    BY <1>1, ItemsAreNumbers
  <2>2. Cardinality(UpTo(Body(fp), i)) <= Cardinality(Body(fp)) /\ Cardinality(UpTo(Body(fp), i)) \in Nat
    <3>1. i <= i
      BY <2>1
    <3> QED
      BY <1>1, <2>1, <3>1, UpToGrows
  <2>3. i \in First(Present(fp), n)
    BY <1>2, <2>2, FirstBody
  <2> QED
    BY <2>1, <2>3 DEF Saved, Body, Present
<1>4. \A i \in Others : i \in Present(c) => i \in Present(fp)
  <2> SUFFICES ASSUME NEW i \in Others, c[i] # 0, fp[i] = 0 PROVE FALSE
    BY DEF Present, Others
  <2>1. k[i].on /\ k[i].rev = MaxRev /\ MaxRev # 0
    BY KnowledgeAssumption DEF ForGood
  <2>2. fp[i] = MaxRev
    BY <2>1 DEF Fingerprint, Others
  <2> QED
    BY <2>1, <2>2
<1>5. CASE LastItem \in Present(fp)
  <2>1. Present(c) \subseteq Present(fp)
    BY <1>4, <1>5 DEF Present, Others
  <2> QED
    BY <2>1, FreshIsExact
<1>6. CASE LastItem \notin Present(fp)
  <2>1. Present(fp) = Body(fp)
    BY <1>6 DEF Body
  <2>2. Present(fp) \in SUBSET Present(c)
    BY <1>3, <2>1
  <2>3. Cardinality(Present(fp)) = Cardinality(Present(c))
    BY DEF FreshOf, Count
  <2>4. Present(fp) = Present(c)
    BY <1>1, <2>2, <2>3, ItemsCount
  <2> QED
    BY <2>4, FreshIsExact
<1> QED
  BY <1>5, <1>6

\* While the snapshot is the knowledge, the rows of a checkpoint are in c.
LEMMA SavedFirst ==
  ASSUME NEW c \in Content, NEW fp \in Content, NEW k \in KnowledgeRows, NEW n \in Nat,
         Fingerprint(k) = fp, Within(c, fp, k), Saved(c, fp, n),
         NEW i \in First(Present(fp), n)
  PROVE  c[i] = fp[i]
<1>1. i \in Items /\ i \in Present(fp) /\ fp[i] # 0
  BY DEF First, Present
<1>2. CASE i # LastItem
  BY <1>2 DEF Saved
<1>3. CASE i = LastItem
  <2>1. {y \in Present(fp) : y <= i} = Present(fp)
    BY <1>3, ItemsUpToLast DEF Present
  <2>2. Count(fp) <= n
    BY <2>1 DEF First, Count
  <2>3. Count(fp) = Cardinality(Body(fp)) + 1 /\ Cardinality(Body(fp)) \in Nat
    BY <1>1, <1>3, BodyCount
  <2>4. c[i] # 0
    BY <1>1, <1>3, <2>2, <2>3 DEF Saved
  <2>5. fp[i] = k[i].rev /\ fp[i] <= c[i] /\ c[i] <= k[i].rev
    BY <1>1, <2>4 DEF Fingerprint, Within
  <2>6. c[i] \in Int /\ fp[i] \in Int
    BY <1>1 DEF Content
  <2> QED
    BY <2>5, <2>6
<1> QED
  BY <1>2, <1>3

\* An edit takes a new revision, and only the last item is switched.
Edited(k, l) == \A i \in Others :
    \/ l[i] = k[i]
    \/ k[i].rev < MaxRev /\ l[i].rev = k[i].rev + 1

LEMMA EditKept ==
  ASSUME MaxRev <= 3, NEW k \in KnowledgeRows, NEW l \in KnowledgeRows, Edited(k, l),
         RowsOK(k), NEW fp \in Content, Settled(fp, k), Reached(fp, k)
  PROVE  /\ RowsOK(l) /\ Settled(fp, l)
         /\ Steady(fp, l) => Steady(fp, k)
         /\ \A c : ForGood(c, fp, k) => ForGood(c, fp, l)
<1>1. \A i \in Others : /\ k[i].rev \in 1 .. MaxRev /\ l[i].rev \in 1 .. MaxRev
                        /\ k[i].on \in BOOLEAN /\ l[i].on \in BOOLEAN
                        /\ fp[i] \in 0 .. MaxRev /\ i \in Items
  BY DEF KnowledgeRows, Others, Content
<1>2. MaxRev \in Nat
  BY KnowledgeAssumption
<1>3. ASSUME NEW i \in Others, ~l[i].on PROVE l[i].rev >= 2
  BY <1>1, <1>2, <1>3 DEF Edited, RowsOK
<1>4. ASSUME NEW i \in Others, fp[i] = 0 PROVE l[i].rev >= 2 /\ (l[i].on => l[i].rev = MaxRev)
  <2>1. k[i].rev >= 2 /\ (k[i].on => k[i].rev = MaxRev)
    BY <1>4 DEF Settled
  <2> QED
    BY <1>1, <1>2, <2>1 DEF Edited
<1>5. ASSUME Steady(fp, l), NEW i \in Others PROVE Fingerprint(k)[i] = fp[i]
  <2>1. Fingerprint(l)[i] = fp[i]
    BY <1>5 DEF Steady
  <2>2. /\ Fingerprint(l)[i] = (IF l[i].on THEN l[i].rev ELSE 0)
        /\ Fingerprint(k)[i] = (IF k[i].on THEN k[i].rev ELSE 0)
    BY <1>1 DEF Fingerprint
  <2>3. CASE l[i] = k[i]
    BY <2>1, <2>2, <2>3
  <2>4. CASE k[i].rev < MaxRev /\ l[i].rev = k[i].rev + 1
    <3>1. fp[i] <= k[i].rev
      BY <1>1 DEF Reached
    <3>2. ~l[i].on /\ fp[i] = 0
      BY <1>1, <1>2, <2>1, <2>2, <2>4, <3>1
    <3>3. k[i].on => k[i].rev = MaxRev
      BY <3>2 DEF Settled
    <3>4. ~k[i].on
      BY <1>1, <1>2, <2>4, <3>3
    <3> QED
      BY <2>2, <3>2, <3>4
  <2> QED
    BY <2>3, <2>4 DEF Edited
<1>6. ASSUME NEW c, ForGood(c, fp, k), NEW i \in Others, fp[i] = 0, c[i] # 0
      PROVE  l[i].on /\ l[i].rev = MaxRev
  <2>1. k[i].on /\ k[i].rev = MaxRev
    BY <1>6 DEF ForGood
  <2>2. l[i] = k[i]
    BY <1>1, <1>2, <2>1 DEF Edited
  <2> QED
    BY <2>1, <2>2
<1> QED
  BY <1>3, <1>4, <1>5, <1>6 DEF RowsOK, Settled, Steady, ForGood

\* What a page takes that the snapshot has not is on for good.
LEMMA PageForGood ==
  ASSUME NEW k \in KnowledgeRows, NEW fp \in Content, Settled(fp, k), NEW page
  PROVE  ForGood(Records(Fingerprint(k), page), fp, k)
<1> SUFFICES ASSUME NEW i \in Others, fp[i] = 0, Records(Fingerprint(k), page)[i] # 0
             PROVE  k[i].on /\ k[i].rev = MaxRev
  BY DEF ForGood
<1>1. i \in Items /\ Fingerprint(k)[i] # 0
  BY DEF Others, Records
<1>2. k[i].on
  BY <1>1 DEF Fingerprint
<1> QED
  BY <1>2 DEF Settled

LEMMA UpsertForGood ==
  ASSUME NEW c, NEW r, NEW fp, NEW k, ForGood(c, fp, k), ForGood(r, fp, k)
  PROVE  ForGood(Upsert(c, r), fp, k)
  BY DEF ForGood, Upsert, Others

\* A snapshot that is taken now.
LEMMA TakenNow ==
  ASSUME NEW k \in KnowledgeRows, RowsOK(k)
  PROVE  Settled(Fingerprint(k), k)
<1> SUFFICES ASSUME NEW i \in Others, Fingerprint(k)[i] = 0
             PROVE  ~k[i].on
  BY DEF Settled, RowsOK
<1>1. i \in Items /\ k[i].rev \in 1 .. MaxRev
  BY DEF Others, KnowledgeRows
<1> QED
  BY <1>1 DEF Fingerprint


\* What belongs together of a job, its collection and the knowledge.
JobSnap(row, c, j, there, k) ==
    /\ row.status \in Open => Settled(row.fp, k) /\ ForGood(c, row.fp, k)
    /\ j \in there /\ row.status \in Unfinished /\ Steady(row.fp, k) => Saved(c, row.fp, row.checkpoint)
    /\ j \in there /\ row.status = "ready" => c = row.fp

\* The worker at pc, w in its job's row and collection.
WorkSnap(w, row, c, there, k) ==
    /\ w.pc \notin {"off", "loop"} => w.done = row.checkpoint
    /\ w.pc = "create" => w.done = 0
    /\ w.pc = "verify" => w.records = EmptyContent /\ w.done >= Count(row.fp)
    /\ w.pc \in {"upsert", "verify"} =>
          /\ ForGood(w.records, row.fp, k)
          /\ w.job \in there /\ Steady(row.fp, k) =>
                Reads(c, w.records, row.fp, w.done + Count(w.records), w.cursor)

\* ReadyMatches and CheckpointWritten are not inductive: what a running build
\* has read and written so far must agree with its cursor.
SnapInv ==
    /\ RowsOK(knowledge)
    /\ \A j \in Jobs : JobSnap(jobs[j], points[j], j, collections, knowledge)
    /\ worker.pc \notin {"off", "loop"} =>
          WorkSnap(worker, jobs[worker.job], points[worker.job], collections, knowledge)

\* A job, its collection or the knowledge may change like this.
LEMMA JobSnapKept ==
  ASSUME MaxRev <= 3, NEW row \in Row, NEW new \in Row, NEW c \in Content,
         NEW j, NEW there, NEW still, j \in still => j \in there,
         NEW k \in KnowledgeRows, NEW l \in KnowledgeRows, l = k \/ Edited(k, l), RowsOK(k),
         new.fp = row.fp, new.checkpoint = row.checkpoint,
         new.status \in Unfinished => row.status \in Unfinished,
         new.status = "ready" => row.status = "ready",
         row.status \in Open => Reached(row.fp, k),
         JobSnap(row, c, j, there, k)
  PROVE  JobSnap(new, c, j, still, l)
<1>1. Edited(k, l)
  BY DEF Edited
<1>2. row.fp \in Content
  BY DEF Row
<1>3. ASSUME new.status \in Open
      PROVE  /\ row.status \in Open /\ Settled(new.fp, l) /\ ForGood(c, new.fp, l)
             /\ Steady(new.fp, l) => Steady(row.fp, k)
  <2>1. row.status \in Open
    BY <1>3 DEF Open
  <2>2. Settled(row.fp, k) /\ ForGood(c, row.fp, k) /\ Reached(row.fp, k)
    BY <2>1 DEF JobSnap
  <2>3. Settled(row.fp, l) /\ (Steady(row.fp, l) => Steady(row.fp, k)) /\ ForGood(c, row.fp, l)
    BY <1>1, <1>2, <2>2, EditKept
  <2> QED
    BY <2>1, <2>3
<1>4. ASSUME j \in still, new.status \in Unfinished, Steady(new.fp, l)
      PROVE  Saved(c, new.fp, new.checkpoint)
  <2>1. new.status \in Open
    BY <1>4 DEF Open
  <2> QED
    BY <1>3, <1>4, <2>1 DEF JobSnap
<1>5. ASSUME j \in still, new.status = "ready" PROVE c = new.fp
  BY <1>5 DEF JobSnap
<1> QED
  BY <1>3, <1>4, <1>5 DEF JobSnap

LEMMA WorkSnapKept ==
  ASSUME MaxRev <= 3, NEW w, NEW row \in Row, NEW new \in Row, NEW c \in Content,
         NEW there, NEW still, w.job \in still => w.job \in there,
         NEW k \in KnowledgeRows, NEW l \in KnowledgeRows, l = k \/ Edited(k, l), RowsOK(k),
         new.fp = row.fp, new.checkpoint = row.checkpoint,
         Settled(row.fp, k), Reached(row.fp, k), WorkSnap(w, row, c, there, k)
  PROVE  WorkSnap(w, new, c, still, l)
<1>1. Edited(k, l) /\ row.fp \in Content
  BY DEF Edited, Row
<1>2. /\ Steady(row.fp, l) => Steady(row.fp, k)
      /\ ForGood(w.records, row.fp, k) => ForGood(w.records, row.fp, l)
  BY <1>1, EditKept
<1> QED
  BY <1>2 DEF WorkSnap


LEMMA EditRows ==
  ASSUME MaxRev <= 3, NEW k \in KnowledgeRows, NEW l \in KnowledgeRows, Edited(k, l), RowsOK(k)
  PROVE  RowsOK(l)
<1>1. \A i \in Others : k[i].rev \in 1 .. MaxRev /\ l[i].rev \in 1 .. MaxRev
  BY DEF KnowledgeRows, Others
<1> QED
  BY <1>1, KnowledgeAssumption DEF Edited, RowsOK

LEMMA SnapTypes ==
  ASSUME IInv, TypeOK'
  PROVE  /\ knowledge \in KnowledgeRows /\ knowledge' \in KnowledgeRows
         /\ \A j \in Jobs : /\ jobs[j] \in Row /\ jobs'[j] \in Row
                            /\ points[j] \in Content /\ points'[j] \in Content
         /\ worker.pc \notin {"off", "loop"} =>
               worker.job \in Jobs /\ jobs[worker.job].status = "running"
         /\ worker'.pc \notin {"off", "loop"} => worker'.job \in Jobs
         /\ worker \in Worker /\ worker' \in Worker
  BY DEF IInv, TypeOK, JobTable, Building

\* A step that saves no checkpoint and makes no job ready: what it must not do.
LEMMA SnapKept ==
  ASSUME MaxRev <= 3, IInv, FreshInv, SnapInv, TypeOK', Marked(jobs, jobs'),
         knowledge' = knowledge \/ Edited(knowledge, knowledge'),
         \A j \in Jobs : \/ points'[j] = points[j] /\ (j \in collections' => j \in collections)
                         \/ JobSnap(jobs'[j], points'[j], j, collections', knowledge'),
         worker'.pc \notin {"off", "loop"} =>
            \/ /\ worker' = worker /\ points'[worker.job] = points[worker.job]
               /\ worker.job \in collections' => worker.job \in collections
            \/ WorkSnap(worker', jobs'[worker'.job], points'[worker'.job], collections', knowledge')
  PROVE  SnapInv'
<1>1. RowsOK(knowledge')
  BY SnapTypes, EditRows DEF SnapInv
<1>2. ASSUME NEW j \in Jobs PROVE JobSnap(jobs'[j], points'[j], j, collections', knowledge')
  <2>1. CASE points'[j] = points[j] /\ (j \in collections' => j \in collections)
    <3>1. /\ jobs[j] \in Row /\ jobs'[j] \in Row /\ points[j] \in Content
          /\ knowledge \in KnowledgeRows /\ knowledge' \in KnowledgeRows
      BY SnapTypes
    <3>2. /\ jobs'[j].fp = jobs[j].fp /\ jobs'[j].checkpoint = jobs[j].checkpoint
          /\ jobs'[j].status \in Unfinished => jobs[j].status \in Unfinished
          /\ jobs'[j].status = "ready" => jobs[j].status = "ready"
      BY DEF Marked, Old
    <3>3. jobs[j].status \in Open => Reached(jobs[j].fp, knowledge)
      BY DEF FreshInv
    <3>4. RowsOK(knowledge) /\ JobSnap(jobs[j], points[j], j, collections, knowledge)
      BY DEF SnapInv
    <3> QED
      BY <2>1, <3>1, <3>2, <3>3, <3>4, JobSnapKept
  <2> QED
    BY <2>1
<1>3. ASSUME worker'.pc \notin {"off", "loop"}
      PROVE  WorkSnap(worker', jobs'[worker'.job], points'[worker'.job], collections', knowledge')
  <2>1. CASE /\ worker' = worker /\ points'[worker.job] = points[worker.job]
             /\ worker.job \in collections' => worker.job \in collections
    <3>1. /\ worker.job \in Jobs /\ jobs[worker.job] \in Row /\ jobs'[worker.job] \in Row
          /\ points[worker.job] \in Content /\ jobs[worker.job].status \in Open
          /\ knowledge \in KnowledgeRows /\ knowledge' \in KnowledgeRows
      BY <1>3, <2>1, SnapTypes DEF Open, Unfinished
    <3>2. /\ jobs'[worker.job].fp = jobs[worker.job].fp
          /\ jobs'[worker.job].checkpoint = jobs[worker.job].checkpoint
      BY <3>1 DEF Marked, Old
    <3>3. Reached(jobs[worker.job].fp, knowledge) /\ Settled(jobs[worker.job].fp, knowledge)
      BY <3>1 DEF FreshInv, SnapInv, JobSnap
    <3>4. /\ RowsOK(knowledge)
          /\ WorkSnap(worker, jobs[worker.job], points[worker.job], collections, knowledge)
      BY <1>3, <2>1 DEF SnapInv
    <3> QED
      BY <2>1, <3>1, <3>2, <3>3, <3>4, WorkSnapKept
  <2> QED
    BY <1>3, <2>1
<1> QED
  BY <1>1, <1>2, <1>3 DEF SnapInv

LEMMA SnapQuiet == ASSUME MaxRev <= 3, IInv, FreshInv, SnapInv, TypeOK', Quiet PROVE SnapInv'
<1>1. /\ Marked(jobs, jobs') /\ knowledge' = knowledge
      /\ points' = points /\ collections' = collections
  BY DEF Quiet
<1>2. ASSUME worker'.pc = "info", worker'.done = jobs'[worker'.job].checkpoint
      PROVE  WorkSnap(worker', jobs'[worker'.job], points'[worker'.job], collections', knowledge')
  BY <1>2 DEF WorkSnap
<1> QED
  BY <1>1, <1>2, SnapKept DEF Quiet

LEMMA SnapEdit == ASSUME NothingReturns, IInv, FreshInv, SnapInv, TypeOK', Edit PROVE SnapInv'
<1>1. UNCHANGED <<jobs, points, collections, worker>>
  BY DEF Edit, EditItem, ToggleItem, SetItem, qdrant
<1>2. Edited(knowledge, knowledge')
  <2>1. knowledge \in KnowledgeRows
    BY DEF IInv, TypeOK
  <2>2. PICK i \in Items : EditItem(i) \/ ToggleItem(i)
    BY DEF Edit
  <2>3. CASE EditItem(i)
    <3>1. PICK on \in BOOLEAN : /\ knowledge[i].rev < MaxRev
                                /\ knowledge' = [knowledge EXCEPT ![i] =
                                                   [on |-> on, rev |-> knowledge[i].rev + 1]]
      BY <2>3 DEF EditItem, SetItem
    <3> QED
      BY <2>1, <3>1 DEF Edited, Others, KnowledgeRows
  <2>4. CASE ToggleItem(i)
    <3>1. i = LastItem
      BY <2>4 DEF ToggleItem, NothingReturns, LastItem
    <3>2. \A x \in Others : knowledge'[x] = knowledge[x]
      BY <2>1, <2>4, <3>1 DEF ToggleItem, SetItem, Others, KnowledgeRows
    <3> QED
      BY <3>2 DEF Edited
  <2> QED
    BY <2>2, <2>3, <2>4
<1>3. Marked(jobs, jobs')
  BY <1>1 DEF Marked, Old
<1>4. MaxRev <= 3
  BY DEF NothingReturns
<1> QED
  BY <1>1, <1>2, <1>3, <1>4, SnapKept

LEMMA SnapLost ==
  ASSUME MaxRev <= 3, IInv, FreshInv, SnapInv, TypeOK', NEW j \in Jobs, LoseCollection(j)
  PROVE  SnapInv'
<1>1. /\ UNCHANGED <<jobs, knowledge, worker>> /\ collections' = collections \ {j}
      /\ points' = [points EXCEPT ![j] = EmptyContent] /\ points \in [Jobs -> Content]
  BY DEF LoseCollection, IInv, TypeOK
<1>2. JobSnap(jobs'[j], points'[j], j, collections', knowledge')
  <2>1. JobSnap(jobs[j], points[j], j, collections, knowledge)
    BY DEF SnapInv
  <2>2. \A fp, k : ForGood(EmptyContent, fp, k)
    BY DEF ForGood, EmptyContent, Others
  <2>3. points'[j] = EmptyContent /\ j \notin collections'
    BY <1>1
  <2> QED
    BY <1>1, <2>1, <2>2, <2>3 DEF JobSnap
<1>3. ASSUME worker'.pc \notin {"off", "loop"}, worker.job = j
      PROVE  WorkSnap(worker', jobs'[worker'.job], points'[worker'.job], collections', knowledge')
  <2>1. WorkSnap(worker, jobs[worker.job], points[worker.job], collections, knowledge)
    BY <1>1, <1>3 DEF SnapInv
  <2>2. worker.job \notin collections'
    BY <1>1, <1>3
  <2> QED
    BY <1>1, <2>1, <2>2 DEF WorkSnap
<1>4. Marked(jobs, jobs')
  BY <1>1 DEF Marked, Old
<1>5. \A x \in Jobs : x # j => points'[x] = points[x] /\ (x \in collections' => x \in collections)
  BY <1>1
<1>6. worker'.pc \notin {"off", "loop"} => worker.job \in Jobs
  BY <1>1, SnapTypes
<1> QED
  BY <1>1, <1>2, <1>3, <1>4, <1>5, <1>6, SnapKept

\* A new job takes the knowledge as it is, and has read nothing.
LEMMA SnapCreate ==
  ASSUME MaxRev <= 3, IInv, FreshInv, SnapInv, TypeOK', CreateJob PROVE SnapInv'
<1>1. PICK j \in Jobs : jobs[j].status = "none" /\ jobs' = Create(jobs, j, Current)
  BY DEF CreateJob, Existing
<1>2. /\ jobs'[j].status = "queued" /\ jobs'[j].fp = Current /\ jobs'[j].checkpoint = 0
      /\ \A x \in Jobs : x # j => jobs'[x] = jobs[x]
  BY <1>1 DEF Create, NoRow, IInv, TypeOK, JobTable
<1>3. UNCHANGED <<knowledge, points, collections>>
      /\ (worker' = worker \/ worker'.pc \in {"off", "loop"})
  BY DEF CreateJob, qdrant, WorkerAt
<1>4. points[j] = EmptyContent
  BY <1>1 DEF FreshInv
<1>5. JobSnap(jobs'[j], points'[j], j, collections', knowledge')
  <2>1. Settled(Current, knowledge) /\ Current \in Content
    BY TakenNow, ContentTypes, SnapTypes DEF SnapInv, Current
  <2>2. ForGood(EmptyContent, Current, knowledge)
    BY DEF ForGood, EmptyContent, Others
  <2>3. Saved(EmptyContent, Current, 0)
    BY <2>1, NothingSaved
  <2> QED
    BY <1>2, <1>3, <1>4, <2>1, <2>2, <2>3 DEF JobSnap
<1>6. worker'.pc \notin {"off", "loop"} => worker.job \in Jobs /\ worker.job # j
  BY <1>1, <1>3, SnapTypes
<1>7. ASSUME worker'.pc \notin {"off", "loop"}
      PROVE  WorkSnap(worker', jobs'[worker'.job], points'[worker'.job], collections', knowledge')
  BY <1>2, <1>3, <1>6, <1>7 DEF SnapInv
<1>8. \A x \in Jobs : JobSnap(jobs'[x], points'[x], x, collections', knowledge')
  BY <1>2, <1>3, <1>5 DEF SnapInv
<1>9. RowsOK(knowledge')
  BY <1>3 DEF SnapInv
<1> QED
  BY <1>7, <1>8, <1>9 DEF SnapInv


\* A step of the build touches one job and its collection.
LEMMA SnapOne ==
  ASSUME SnapInv, knowledge' = knowledge, NEW j \in Jobs,
         \A x \in Jobs : x # j => /\ jobs'[x] = jobs[x] /\ points'[x] = points[x]
                                  /\ x \in collections' => x \in collections,
         JobSnap(jobs'[j], points'[j], j, collections', knowledge'),
         worker'.pc \notin {"off", "loop"} =>
            WorkSnap(worker', jobs'[worker'.job], points'[worker'.job], collections', knowledge')
  PROVE  SnapInv'
<1>1. ASSUME NEW x \in Jobs PROVE JobSnap(jobs'[x], points'[x], x, collections', knowledge')
  <2>1. JobSnap(jobs[x], points[x], x, collections, knowledge)
    BY DEF SnapInv
  <2> QED
    BY <2>1 DEF JobSnap
<1>2. RowsOK(knowledge')
  BY DEF SnapInv
<1> QED
  BY <1>1, <1>2 DEF SnapInv

\* The worker and its job.
LEMMA SnapWorker ==
  ASSUME IInv, FreshInv, SnapInv, worker.pc \in {"info", "create", "upsert", "verify"}
  PROVE  /\ worker.job \in Jobs /\ jobs[worker.job].status = "running" /\ jobs \in JobTable
         /\ jobs[worker.job].fp \in Content /\ jobs[worker.job].checkpoint \in Nat
         /\ worker \in Worker /\ worker.done \in Nat /\ worker.cursor \in Items \cup {NoCursor}
         /\ worker.records \in Content /\ Count(worker.records) \in Nat
         /\ points[worker.job] \in Content /\ points \in [Jobs -> Content]
         /\ worker.done = jobs[worker.job].checkpoint
         /\ knowledge \in KnowledgeRows /\ Current \in Content
         /\ Settled(jobs[worker.job].fp, knowledge)
         /\ ForGood(points[worker.job], jobs[worker.job].fp, knowledge)
         /\ WorkSnap(worker, jobs[worker.job], points[worker.job], collections, knowledge)
         /\ JobSnap(jobs[worker.job], points[worker.job], worker.job, collections, knowledge)
<1>1. /\ worker.job \in Jobs /\ jobs[worker.job].status = "running" /\ jobs \in JobTable
      /\ jobs[worker.job].fp \in Content /\ worker \in Worker /\ points[worker.job] \in Content
  BY WorkersJob
<1>2. /\ worker.done \in Nat /\ worker.cursor \in Items \cup {NoCursor} /\ worker.records \in Content
      /\ jobs[worker.job].checkpoint \in Nat
  BY <1>1 DEF Worker, JobTable, Row
<1>3. points \in [Jobs -> Content] /\ knowledge \in KnowledgeRows /\ Current \in Content
  BY ContentTypes DEF IInv, TypeOK, Current
<1>4. /\ WorkSnap(worker, jobs[worker.job], points[worker.job], collections, knowledge)
      /\ JobSnap(jobs[worker.job], points[worker.job], worker.job, collections, knowledge)
  BY <1>1 DEF SnapInv
<1>5. worker.done = jobs[worker.job].checkpoint
  BY <1>4 DEF WorkSnap
<1>6. /\ Settled(jobs[worker.job].fp, knowledge)
      /\ ForGood(points[worker.job], jobs[worker.job].fp, knowledge)
  BY <1>1, <1>4 DEF JobSnap, Open, Unfinished
<1> QED
  BY <1>1, <1>2, <1>3, <1>4, <1>5, <1>6, CountType

\* What a request of the worker leaves in Qdrant, in the job's row as it is or
\* given up.
LEMMA LandsSnap ==
  ASSUME IInv, FreshInv, SnapInv, Lands, worker.pc \in {"info", "create", "upsert", "verify"},
         knowledge' = knowledge, NEW row, row.fp = jobs[worker.job].fp,
         row.checkpoint = jobs[worker.job].checkpoint, row.status \in {"running", "failed"}
  PROVE  /\ JobSnap(row, points'[worker.job], worker.job, collections', knowledge')
         /\ \A x \in Jobs : x # worker.job => /\ points'[x] = points[x]
                                              /\ x \in collections' => x \in collections
<1> DEFINE job == worker.job
           fp  == jobs[job].fp
<1>1. /\ job \in Jobs /\ jobs[job].status = "running" /\ fp \in Content
      /\ worker.done = jobs[job].checkpoint /\ points[job] \in Content /\ points \in [Jobs -> Content]
      /\ worker.records \in Content
      /\ Settled(fp, knowledge) /\ ForGood(points[job], fp, knowledge)
      /\ WorkSnap(worker, jobs[job], points[job], collections, knowledge)
      /\ JobSnap(jobs[job], points[job], job, collections, knowledge)
  BY SnapWorker
<1>2. CASE UNCHANGED <<collections, points>>
  BY <1>1, <1>2 DEF JobSnap, Unfinished
<1>3. CASE worker.pc = "create" /\ collections' = collections \cup {worker.job} /\ UNCHANGED points
  <2>1. Saved(points[job], fp, row.checkpoint)
    BY <1>1, <1>3, NothingSaved DEF WorkSnap
  <2> QED
    BY <1>1, <1>3, <2>1 DEF JobSnap
<1>4. CASE /\ worker.pc = "upsert" /\ UNCHANGED collections
           /\ points' = [points EXCEPT ![worker.job] = Upsert(@, worker.records)]
  <2>1. /\ points'[job] = Upsert(points[job], worker.records)
        /\ \A x \in Jobs : x # job => points'[x] = points[x]
    BY <1>1, <1>4
  <2>2. ForGood(Upsert(points[job], worker.records), fp, knowledge)
    BY <1>1, <1>4, UpsertForGood DEF WorkSnap
  <2>3. ASSUME job \in collections, Steady(fp, knowledge)
        PROVE  Saved(Upsert(points[job], worker.records), fp, jobs[job].checkpoint)
    <3>1. Saved(points[job], fp, jobs[job].checkpoint)
      BY <1>1, <2>3 DEF JobSnap, Unfinished
    <3>2. \A i \in Others : worker.records[i] \in {0, fp[i]}
      BY <1>1, <1>4, <2>3 DEF WorkSnap, Reads
    <3> HIDE DEF job, fp
    <3> QED
      BY <1>1, <3>1, <3>2, SavedStays
  <2> QED
    BY <1>1, <1>4, <2>1, <2>2, <2>3 DEF JobSnap
<1> QED
  BY <1>2, <1>3, <1>4 DEF Lands

LEMMA SnapCrash ==
  ASSUME IInv, FreshInv, SnapInv, TypeOK', Crash PROVE SnapInv'
<1>1. Lands /\ UNCHANGED <<knowledge, jobs>> /\ worker'.pc = "off"
  BY DEF Crash, Die, WorkerAt
<1>2. CASE worker.pc \in {"info", "create", "upsert", "verify"}
  <2>1. worker.job \in Jobs /\ jobs[worker.job].status = "running"
    BY <1>2, SnapWorker
  <2>2. /\ JobSnap(jobs[worker.job], points'[worker.job], worker.job, collections', knowledge')
        /\ \A x \in Jobs : x # worker.job => /\ points'[x] = points[x]
                                             /\ x \in collections' => x \in collections
    BY <1>1, <1>2, <2>1, LandsSnap
  <2> QED
    BY <1>1, <2>1, <2>2, SnapOne
<1>3. CASE worker.pc \notin {"info", "create", "upsert", "verify"}
  <2>1. UNCHANGED <<collections, points>>
    BY <1>1, <1>3 DEF Lands
  <2> QED
    BY <1>1, <2>1 DEF SnapInv
<1> QED
  BY <1>2, <1>3


\* The head of the page loop, entered with n rows read up to cur.
LEMMA SnapNextPage ==
  ASSUME IInv, FreshInv, SnapInv, TypeOK', worker.pc \in {"info", "create", "upsert", "verify"},
         knowledge' = knowledge, NEW t \in JobTable, t[worker.job].status = "running",
         t[worker.job].fp = jobs[worker.job].fp, NEW n \in Nat, t[worker.job].checkpoint = n,
         NEW cur \in Items \cup {NoCursor}, points'[worker.job] \in Content,
         worker.job \in collections' /\ Steady(jobs[worker.job].fp, knowledge) =>
            Reads(points'[worker.job], EmptyContent, jobs[worker.job].fp, n, cur),
         NextPage(t, n, cur)
  PROVE  \/ jobs' = MarkFailed(t, worker.job) /\ worker'.pc = "loop"
         \/ /\ jobs' = t /\ worker'.job = worker.job
            /\ WorkSnap(worker', jobs'[worker.job], points'[worker.job], collections', knowledge')
<1> DEFINE job  == worker.job
           fp   == jobs[job].fp
           page == ReadPage(Current, cur, PageSize)
<1>1. /\ job \in Jobs /\ fp \in Content /\ worker \in Worker /\ Current \in Content
      /\ knowledge \in KnowledgeRows /\ Settled(fp, knowledge)
  BY SnapWorker
<1>2. Count(EmptyContent) = 0 /\ \A k : ForGood(EmptyContent, fp, k)
  <2>1. Present(EmptyContent) = {}
    BY DEF Present, EmptyContent
  <2> QED
    BY <2>1, FS_EmptySet DEF Count, ForGood, EmptyContent, Others
<1>3. CASE n >= Count(fp)
  <2>1. /\ jobs' = t /\ worker' = [worker EXCEPT !.pc = "verify", !.done = n,
                                     !.cursor = cur, !.records = EmptyContent]
    BY <1>3 DEF NextPage
  <2>2. /\ worker'.pc = "verify" /\ worker'.done = n /\ worker'.cursor = cur
        /\ worker'.records = EmptyContent /\ worker'.job = job
    BY <1>1, <2>1 DEF Worker
  <2>3. n + Count(EmptyContent) = n
    BY <1>2
  <2> QED
    BY <1>2, <1>3, <2>1, <2>2, <2>3 DEF WorkSnap
<1>4. CASE ~(n >= Count(fp)) /\ page = {}
  BY <1>4 DEF NextPage, WorkerAt
<1>5. CASE ~(n >= Count(fp)) /\ page # {}
  <2>1. /\ jobs' = t /\ worker' = [worker EXCEPT !.pc = "upsert", !.done = n,
                              !.cursor = NextCursor(page, cur),
                              !.records = Records(Current, page)]
    BY <1>5 DEF NextPage
  <2>2. /\ worker'.pc = "upsert" /\ worker'.done = n /\ worker'.cursor = NextCursor(page, cur)
        /\ worker'.records = Records(Current, page) /\ worker'.job = job
    BY <1>1, <2>1 DEF Worker
  <2>3. ForGood(Records(Current, page), fp, knowledge)
    BY <1>1, PageForGood DEF Current
  <2>4. ASSUME job \in collections', Steady(fp, knowledge)
        PROVE  Reads(points'[job], Records(Current, page), fp,
                     n + Count(Records(Current, page)), NextCursor(page, cur))
    <3>1. \A i \in Others : Current[i] = fp[i]
      BY <2>4 DEF Steady, Current
    <3>2. PageSize \in Nat \ {0}
      BY RetrievalAssumption
    <3>3. Reads(points'[job], EmptyContent, fp, n, cur)
      BY <2>4
    <3>4. page = ReadPage(Current, cur, PageSize) /\ page # {} /\ points'[job] \in Content
      BY <1>5
    <3> HIDE DEF page, fp, job
    <3> QED
      BY <1>1, <3>1, <3>2, <3>3, <3>4, PageReads
  <2> QED
    BY <2>1, <2>2, <2>3, <2>4 DEF WorkSnap
<1> QED
  BY <1>3, <1>4, <1>5

\* Entering the pages from the checkpoint.
LEMMA SnapEnter ==
  ASSUME IInv, FreshInv, SnapInv, TypeOK', worker.pc \in {"info", "create"},
         knowledge' = knowledge, points' = points, EnterPages,
         \A x \in Jobs : x # worker.job => (x \in collections' => x \in collections),
         worker.job \in collections' => worker.job \in collections \/ worker.done = 0
  PROVE  SnapInv'
<1> DEFINE job == worker.job
           fp  == jobs[job].fp
           cur == CursorAt(Current, worker.done)
<1>1. /\ job \in Jobs /\ jobs[job].status = "running" /\ fp \in Content /\ worker \in Worker
      /\ jobs \in JobTable /\ Current \in Content
      /\ worker.done = jobs[job].checkpoint /\ worker.done \in Nat
      /\ points[job] \in Content /\ knowledge \in KnowledgeRows
      /\ JobSnap(jobs[job], points[job], job, collections, knowledge)
  BY SnapWorker
<1>2. ASSUME job \in collections', Steady(fp, knowledge)
      PROVE  Saved(points[job], fp, worker.done)
  <2>1. CASE worker.done = 0
    BY <1>1, <2>1, NothingSaved
  <2>2. CASE job \in collections
    BY <1>1, <1>2, <2>2 DEF JobSnap, Unfinished
  <2> QED
    BY <1>2, <2>1, <2>2
<1>3. JobSnap(jobs[job], points[job], job, collections', knowledge')
  BY <1>1, <1>2 DEF JobSnap, Unfinished
<1>4. JobSnap(MarkFailed(jobs, job)[job], points[job], job, collections', knowledge')
  BY <1>1 DEF JobSnap, MarkFailed, SetStatus, Open, Unfinished, JobTable, Row
<1>5. \A x \in Jobs : x # job => MarkFailed(jobs, job)[x] = jobs[x]
  BY <1>1 DEF MarkFailed, SetStatus, JobTable
<1>6. CASE jobs' = MarkFailed(jobs, job) /\ worker'.pc = "loop"
  BY <1>1, <1>4, <1>5, <1>6, SnapOne
<1>7. CASE CheckpointInRange(Current, worker.done) /\ NextPage(jobs, worker.done, cur)
  <2>1. cur \in Items \cup {NoCursor}
    BY <1>1, <1>7, CursorTypes
  <2>2. ASSUME job \in collections', Steady(fp, knowledge)
        PROVE  Reads(points'[job], EmptyContent, fp, worker.done, cur)
    <3>1. \A i \in Others : Current[i] = fp[i]
      BY <2>2 DEF Steady, Current
    <3> QED
      BY <1>1, <1>2, <1>7, <2>2, <3>1, ResumeReads
  <2>3. \/ jobs' = MarkFailed(jobs, job) /\ worker'.pc = "loop"
        \/ /\ jobs' = jobs /\ worker'.job = job
           /\ WorkSnap(worker', jobs'[job], points'[job], collections', knowledge')
    <3> HIDE DEF cur
    <3> QED
      BY <1>1, <1>7, <2>1, <2>2, SnapNextPage
  <2> QED
    BY <1>1, <1>3, <1>6, <2>3, SnapOne
<1> QED
  BY <1>6, <1>7 DEF EnterPages, Abandon, WorkerAt


LEMMA SnapUpserted ==
  ASSUME IInv, FreshInv, SnapInv, TypeOK', GotUpserted PROVE SnapInv'
<1> DEFINE job   == worker.job
           fp    == jobs[job].fp
           sum   == worker.done + Count(worker.records)
           table == SaveCheckpoint(jobs, job, sum)
           c     == Upsert(points[job], worker.records)
<1>1. /\ job \in Jobs /\ jobs[job].status = "running" /\ fp \in Content /\ worker \in Worker
      /\ jobs \in JobTable /\ sum \in Nat /\ worker.records \in Content
      /\ worker.cursor \in Items \cup {NoCursor}
      /\ points[job] \in Content /\ points \in [Jobs -> Content]
      /\ Settled(fp, knowledge) /\ ForGood(points[job], fp, knowledge)
      /\ WorkSnap(worker, jobs[job], points[job], collections, knowledge)
  BY SnapWorker DEF GotUpserted
<1>2. /\ worker.pc = "upsert" /\ job \in collections
      /\ points' = [points EXCEPT ![job] = c]
      /\ NextPage(table, sum, worker.cursor)
      /\ knowledge' = knowledge /\ collections' = collections
  BY DEF GotUpserted
<1>3. /\ points'[job] = c /\ c \in Content
      /\ \A x \in Jobs : x # job => points'[x] = points[x]
  BY <1>1, <1>2, ContentTypes
<1>4. /\ table \in JobTable /\ table[job].status = "running" /\ table[job].fp = fp
      /\ table[job].checkpoint = sum /\ \A x \in Jobs : x # job => table[x] = jobs[x]
  <2>1. table \in JobTable
    BY <1>1, WorkerTableTypes
  <2> HIDE DEF sum
  <2> QED
    BY <1>1, <2>1 DEF SaveCheckpoint, JobTable, Row
<1>5. ASSUME Steady(fp, knowledge)
      PROVE  Reads(c, EmptyContent, fp, sum, worker.cursor) /\ Saved(c, fp, sum)
  <2>1. Reads(points[job], worker.records, fp, sum, worker.cursor)
    BY <1>1, <1>2, <1>5 DEF WorkSnap
  <2> HIDE DEF sum, fp, job
  <2>2. Reads(c, EmptyContent, fp, sum, worker.cursor)
    BY <1>1, <2>1, WrittenReads
  <2> HIDE DEF c
  <2> QED
    BY <1>1, <1>3, <2>2, ReadsSaved
<1>6. ForGood(c, fp, knowledge)
  BY <1>1, <1>2, UpsertForGood DEF WorkSnap
<1> HIDE DEF table, sum, c
<1>7. JobSnap(table[job], points'[job], job, collections', knowledge')
  BY <1>1, <1>2, <1>3, <1>4, <1>5, <1>6 DEF JobSnap
<1>8. JobSnap(MarkFailed(table, job)[job], points'[job], job, collections', knowledge')
      /\ \A x \in Jobs : x # job => MarkFailed(table, job)[x] = jobs[x]
  <2>1. /\ MarkFailed(table, job)[job].status = "failed"
        /\ \A x \in Jobs : x # job => MarkFailed(table, job)[x] = table[x]
    BY <1>1, <1>4 DEF MarkFailed, SetStatus, JobTable, Row
  <2> QED
    BY <1>4, <2>1 DEF JobSnap, Open, Unfinished
<1>9. \/ jobs' = MarkFailed(table, job) /\ worker'.pc = "loop"
      \/ /\ jobs' = table /\ worker'.job = job
         /\ WorkSnap(worker', jobs'[job], points'[job], collections', knowledge')
  BY <1>1, <1>2, <1>3, <1>4, <1>5, SnapNextPage
<1> QED
  BY <1>1, <1>2, <1>3, <1>4, <1>7, <1>8, <1>9, SnapOne

\* The collection of a job that becomes ready is its snapshot.
LEMMA SnapVerified ==
  ASSUME IInv, FreshInv, FreshInv', SnapInv, TypeOK', GotVerified PROVE SnapInv'
<1> DEFINE job == worker.job
           fp  == jobs[job].fp
<1>1. /\ job \in Jobs /\ jobs[job].status = "running" /\ fp \in Content /\ worker \in Worker
      /\ jobs \in JobTable /\ worker.done \in Nat /\ worker.cursor \in Items \cup {NoCursor}
      /\ points[job] \in Content /\ knowledge \in KnowledgeRows
      /\ ForGood(points[job], fp, knowledge) /\ Settled(fp, knowledge)
      /\ WorkSnap(worker, jobs[job], points[job], collections, knowledge)
  BY SnapWorker DEF GotVerified
<1>2. /\ worker.pc = "verify" /\ worker'.pc = "loop" /\ UNCHANGED <<knowledge, points, collections>>
  BY DEF GotVerified, qdrant, WorkerAt
<1>3. CASE jobs' \in {MarkFailed(jobs, job), MarkStale(jobs, job)}
  <2>1. /\ jobs'[job].status \in {"failed", "stale"}
        /\ \A x \in Jobs : x # job => jobs'[x] = jobs[x]
    BY <1>1, <1>3 DEF MarkFailed, MarkStale, SetStatus, JobTable, Row
  <2>2. JobSnap(jobs'[job], points'[job], job, collections', knowledge')
    BY <2>1 DEF JobSnap, Open, Unfinished
  <2> QED
    BY <1>1, <1>2, <2>1, <2>2, SnapOne
<1>4. CASE /\ jobs' = MarkReady(jobs, job) /\ Current = fp /\ job \in collections
  <2>1. /\ jobs'[job].fp = fp /\ jobs'[job].status = "ready"
        /\ \A x \in Jobs : x # job => jobs'[x] = jobs[x]
    BY <1>1, <1>4 DEF MarkReady, SetStatus, JobTable, Row
  <2>2. FreshOf(points[job], fp)
    BY <1>1, <1>2, <1>4, <2>1 DEF FreshInv
  <2>3. Steady(fp, knowledge)
    BY <1>4 DEF Steady, Current
  <2>4. Saved(points[job], fp, worker.done) /\ worker.done >= Count(fp)
    <3>1. /\ worker.records = EmptyContent /\ worker.done >= Count(fp)
          /\ Reads(points[job], worker.records, fp, worker.done + Count(worker.records), worker.cursor)
      BY <1>1, <1>2, <1>4, <2>3 DEF WorkSnap
    <3>2. Count(EmptyContent) = 0
      <4>1. Present(EmptyContent) = {}
        BY DEF Present, EmptyContent
      <4> QED
        BY <4>1, FS_EmptySet DEF Count
    <3>3. worker.done + Count(worker.records) = worker.done
      BY <1>1, <3>1, <3>2
    <3>4. Reads(points[job], EmptyContent, fp, worker.done, worker.cursor)
      BY <3>1, <3>3
    <3> QED
      BY <1>1, <3>1, <3>4, ReadsSaved
  <2>5. points[job] = fp
    BY <1>1, <1>4, <2>2, <2>4, SavedExact DEF Current
  <2>6. JobSnap(jobs'[job], points'[job], job, collections', knowledge')
    BY <1>1, <1>2, <2>1, <2>5 DEF JobSnap, Unfinished
  <2> QED
    BY <1>1, <1>2, <2>1, <2>6, SnapOne
<1> QED
  BY <1>3, <1>4 DEF GotVerified

LEMMA SnapBuild ==
  ASSUME MaxRev <= 3, IInv, FreshInv, FreshInv', SnapInv, TypeOK', Build PROVE SnapInv'
<1>1. CASE GotInfo
  <2>1. UNCHANGED <<knowledge, points, collections>> /\ worker.pc = "info"
    BY <1>1 DEF GotInfo, qdrant
  <2>2. CASE Abandon
    <3>1. Quiet
      BY <1>1, <2>1, <2>2, OldMoves DEF Abandon, WorkerAt, Quiet, IInv, TypeOK
    <3> QED
      BY <3>1, SnapQuiet
  <2>3. CASE worker.done = 0 /\ worker' = [worker EXCEPT !.pc = "create"] /\ UNCHANGED jobs
    <3>1. /\ worker.job \in Jobs /\ worker \in Worker /\ worker.done = jobs[worker.job].checkpoint
      BY <2>1, SnapWorker
    <3>2. worker'.pc = "create" /\ worker'.done = worker.done /\ worker'.job = worker.job
      BY <2>3, <3>1 DEF Worker
    <3>3. WorkSnap(worker', jobs'[worker'.job], points'[worker'.job], collections', knowledge')
      BY <2>3, <3>1, <3>2 DEF WorkSnap
    <3> QED
      BY <2>1, <2>3, <3>3 DEF SnapInv
  <2>4. CASE worker.job \in collections /\ EnterPages
    BY <2>1, <2>4, SnapEnter
  <2> QED
    BY <1>1, <2>2, <2>3, <2>4 DEF GotInfo
<1>2. CASE GotCreated
  <2>1. /\ UNCHANGED <<knowledge, points>> /\ worker.pc = "create" /\ EnterPages
        /\ collections' = collections \cup {worker.job}
    BY <1>2 DEF GotCreated
  <2>2. worker.done = 0
    BY <2>1, SnapWorker DEF WorkSnap
  <2> QED
    BY <2>1, <2>2, SnapEnter
<1>3. CASE BuildFails
  <2>1. /\ worker.pc \in {"info", "create", "upsert", "verify"} /\ Lands /\ knowledge' = knowledge
        /\ jobs' = MarkFailed(jobs, worker.job) /\ worker'.pc = "loop"
    BY <1>3 DEF BuildFails, Abandon, WorkerAt
  <2>2. worker.job \in Jobs /\ jobs[worker.job].status = "running" /\ jobs \in JobTable
    BY <2>1, SnapWorker
  <2>3. /\ jobs'[worker.job].fp = jobs[worker.job].fp
        /\ jobs'[worker.job].checkpoint = jobs[worker.job].checkpoint
        /\ jobs'[worker.job].status = "failed"
        /\ \A x \in Jobs : x # worker.job => jobs'[x] = jobs[x]
    BY <2>1, <2>2 DEF MarkFailed, SetStatus, JobTable, Row
  <2>4. /\ JobSnap(jobs'[worker.job], points'[worker.job], worker.job, collections', knowledge')
        /\ \A x \in Jobs : x # worker.job => /\ points'[x] = points[x]
                                             /\ x \in collections' => x \in collections
    BY <2>1, <2>3, LandsSnap
  <2> QED
    BY <2>1, <2>2, <2>3, <2>4, SnapOne
<1> QED
  BY <1>1, <1>2, <1>3, SnapUpserted, SnapVerified DEF Build

LEMMA SnapStep ==
  ASSUME NothingReturns, IInv, FreshInv, SnapInv, [Next]_vars PROVE SnapInv'
<1>1. TypeOK' /\ FreshInv' /\ MaxRev <= 3
  BY TypeStep, FreshStep DEF IInv, NothingReturns
<1>2. ASSUME \/ \E j \in Jobs : GetJob(j)
             \/ Drain \/ Boot \/ UNCHANGED vars
             \/ \E o \in AliasOps : Request(o) \/ Proceed(o) \/ Qdrant(o)
      PROVE  SnapInv'
  BY <1>1, <1>2, QuietSteps, SnapQuiet
<1>3. ASSUME NEW j \in Jobs, LoseCollection(j) PROVE SnapInv'
  BY <1>1, <1>3, SnapLost
<1> QED
  BY <1>1, <1>2, <1>3, SnapEdit, SnapCreate, SnapCrash, SnapBuild DEF Next, WorkerStep

LEMMA SnapInit == Init => SnapInv
  BY DEF Init, SnapInv, NoRow, WorkerAt, JobSnap, Open, Unfinished, RowsOK, Others

LEMMA SnapMeans ==
  ASSUME IInv, FreshInv, SnapInv PROVE ReadyMatches /\ CheckpointWritten
<1>1. ReadyMatches
  BY DEF ReadyMatches, WithStatus, SnapInv, JobSnap
<1>2. CheckpointWritten
  <2> SUFFICES ASSUME NEW j \in Jobs, jobs[j].status \in {"running", "interrupted"},
                      jobs[j].fp = Current, j \in collections,
                      NEW i \in First(Present(jobs[j].fp), jobs[j].checkpoint)
               PROVE  points[j][i] = jobs[j].fp[i]
    BY DEF CheckpointWritten, WithStatus
  <2>1. /\ jobs[j].status \in Unfinished /\ jobs[j].status \in Open
        /\ knowledge \in KnowledgeRows /\ points[j] \in Content
        /\ jobs[j].fp \in Content /\ jobs[j].checkpoint \in Nat
    BY DEF IInv, TypeOK, JobTable, Row, Open, Unfinished
  <2>2. Steady(jobs[j].fp, knowledge) /\ Fingerprint(knowledge) = jobs[j].fp
    BY DEF Steady, Current
  <2>3. Saved(points[j], jobs[j].fp, jobs[j].checkpoint) /\ Within(points[j], jobs[j].fp, knowledge)
    BY <2>1, <2>2 DEF SnapInv, JobSnap, FreshInv
  <2> QED
    BY <2>1, <2>2, <2>3, SavedFirst
<1> QED
  BY <1>1, <1>2

\* However builds are interrupted, resumed, repeated or abandoned beside edits
\* and crashes, and whatever Qdrant loses: while no row returns, a ready
\* collection is the snapshot of its job, and a checkpoint stands for rows that
\* were written (processNext, saveCheckpoint, cursorAt).
THEOREM SnapshotTheorem == Spec => []ReadyIsSnapshot
<1>1. ASSUME NothingReturns PROVE Spec => [](ReadyMatches /\ CheckpointWritten)
  <2>1. Init => FreshInv /\ SnapInv
    BY SnapInit DEF Init, FreshInv, NoRow, WorkerAt, Open, Unfinished
  <2>2. IInv /\ FreshInv /\ SnapInv /\ [Next]_vars => FreshInv' /\ SnapInv'
    BY <1>1, FreshStep, SnapStep
  <2>3. IInv /\ FreshInv /\ SnapInv => ReadyMatches /\ CheckpointWritten
    BY SnapMeans
  <2> QED
    BY <2>1, <2>2, <2>3, Inductive, PTL DEF Spec
<1>2. CASE NothingReturns
  <2>1. ReadyIsFresh /\ ReadyMatches /\ CheckpointWritten => ReadyIsSnapshot
    BY DEF ReadyIsSnapshot
  <2> QED
    BY <1>1, <1>2, <2>1, FreshTheorem, PTL
<1>3. CASE ~NothingReturns
  <2>1. ReadyIsFresh => ReadyIsSnapshot
    BY <1>3 DEF ReadyIsSnapshot
  <2> QED
    BY <2>1, FreshTheorem, PTL
<1> QED
  BY <1>2, <1>3
=============================================================================
