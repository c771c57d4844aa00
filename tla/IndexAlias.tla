----------------------------- MODULE IndexAlias -----------------------------
(***************************************************************************)
(* Moving the alias: activate, rollback, and the reconciliation of an      *)
(* intent that an earlier request (or process) stored and did not finish.  *)
(* switchAlias is a read of the alias, a comparison, and an update that    *)
(* Qdrant carries out whatever the alias names by then.                    *)
(***************************************************************************)
EXTENDS IndexState

SetOp(o, record) == ops' = [ops EXCEPT ![o] = record]
EndOp(o)         == SetOp(o, IdleOp)

\* An operation at pc that carries out the intent of job src, from -> to.
Switching(pc, intent, src, from, to) ==
    [IdleOp EXCEPT !.pc = pc, !.intent = intent, !.src = src,
                   !.from = from, !.to = to]

\* reconcilePendingIntent found the intent of job p; an activate request goes
\* on with job and exp afterwards.  (Rows are never deleted: the target of a
\* rollback exists.)
Reconciling(t, job, exp) ==
    LET p == First1(WithIntent(t))
    IN  [Switching("askReconcile", t[p].intent, p, t[p].expected,
                   IntentTarget(t, p)) EXCEPT !.job = job, !.exp = exp]

\* The part of activate after reconciliation, over table t: the gate, then
\* the request for the current alias.  good: the quality run allows it.
Activating(o, t, job, exp, good) ==
    LET seen == Noticed(t, job)
        pass == good /\ seen[job].status = "ready" /\ seen[job].fp = Current
    IN  /\ jobs' = seen
        /\ SetOp(o, IF pass THEN Switching("askCurrent", "activate", job, exp, job)
                    ELSE IdleOp)

\* What rollback requires of its job before it asks for the alias.
MayRollBack(j, exp) ==
    /\ jobs[j].status = "active" /\ jobs[j].prev # NoCollection
    /\ j = exp
    /\ jobs[jobs[j].prev].status = "rolled_back"
    /\ jobs[jobs[j].prev].fp = Current

\* A request for job j, sent by an administrator who takes the alias to name
\* exp.
StartActivate(o, j, exp, good) ==
    /\ Free /\ ops[o].pc = "idle" /\ j \in Existing(jobs)
    /\ IF WithIntent(jobs) # {}
       THEN SetOp(o, Reconciling(jobs, j, exp)) /\ UNCHANGED jobs
       ELSE Activating(o, jobs, j, exp, good)
    /\ UNCHANGED <<knowledge, qdrant, up, worker, crashes>>

\* A rollback request that finds an intent only reconciles it.
StartRollback(o, j, exp) ==
    /\ Free /\ ops[o].pc = "idle" /\ j \in Existing(jobs)
    /\ \/ /\ WithIntent(jobs) # {}
          /\ SetOp(o, Reconciling(jobs, NoCollection, NoCollection))
       \/ /\ WithIntent(jobs) = {}
          /\ MayRollBack(j, exp)
          /\ SetOp(o, Switching("askCurrent", "rollback", j, j, jobs[j].prev))
    /\ UNCHANGED <<knowledge, jobs, qdrant, up, worker, crashes>>

\* start(): running builds are interrupted, a pending intent is reconciled
\* and the worker is started, all before the server listens.
Boot ==
    LET t == InterruptRunning(jobs) IN
    /\ ~up
    /\ up' = TRUE
    /\ jobs' = t
    /\ worker' = WorkerAt("loop")
    /\ ops' = [o \in AliasOps |->
                 IF o = BootOp /\ WithIntent(t) # {}
                 THEN Reconciling(t, NoCollection, NoCollection) ELSE IdleOp]
    /\ UNCHANGED <<knowledge, qdrant, crashes>>

-----------------------------------------------------------------------------
(* Qdrant answers.  These steps do not need the process. *)

Answer == [askReconcile |-> "gotReconcile", askCurrent |-> "gotCurrent",
           askSwitch |-> "gotSwitch"]

\* getAliases.
ReadAlias(o) ==
    /\ ops[o].pc \in DOMAIN Answer
    /\ SetOp(o, [ops[o] EXCEPT !.pc = Answer[@], !.seen = alias])
    /\ UNCHANGED <<knowledge, jobs, qdrant, up, worker, crashes>>

\* updateCollectionAliases: delete and create in one request, unconditional.
UpdateAlias(o) ==
    /\ ops[o].pc = "sent"
    /\ ops[o].to \in collections
    /\ alias' = ops[o].to
    /\ SetOp(o, [ops[o] EXCEPT !.pc = "applied"])
    /\ UNCHANGED <<knowledge, jobs, collections, points, up, worker, crashes>>

-----------------------------------------------------------------------------
(* The handlers go on. *)

\* completeActivation or completeRollback of the switch op carries out.
CanComplete(op) ==
    IF op.intent = "activate" THEN CanCompleteActivation(jobs, op.src)
    ELSE CanCompleteRollback(jobs, op.src, op.to)

Completed(op) ==
    IF op.intent = "activate" THEN CompleteActivation(jobs, op.src)
    ELSE CompleteRollback(jobs, op.src, op.to)

\* The switch is recorded.  An activate request that was only reconciling goes
\* on with its own job, unless that is the one reconciled.
Complete(o, good) ==
    LET op == ops[o] IN
    /\ CanComplete(op)
    /\ IF op.job \notin {NoCollection, op.to}
       THEN Activating(o, Completed(op), op.job, op.exp, good)
       ELSE jobs' = Completed(op) /\ EndOp(o)

\* Mutant: the outcome is recorded before the alias has moved.
GotReconcileEarly(o, good) ==
    /\ Free /\ ops[o].pc = "gotReconcile"
    /\ ops[o].seen \in {ops[o].to, ops[o].from}
    /\ Complete(o, good)
    /\ UNCHANGED <<knowledge, qdrant, up, worker, crashes>>

GotReconcile(o, good) ==
    LET op == ops[o] IN
    /\ Free /\ op.pc = "gotReconcile"
    /\ \/ op.seen = op.to /\ Complete(o, good)
       \/ /\ op.seen # op.to /\ op.seen = op.from
          /\ SetOp(o, [op EXCEPT !.pc = "askSwitch", !.seen = NoCollection])
          /\ UNCHANGED jobs
    /\ UNCHANGED <<knowledge, qdrant, up, worker, crashes>>

\* activate and rollback compare the alias with the expected collection and
\* store their intent.
GotCurrent(o) ==
    LET op == ops[o] IN
    /\ Free /\ op.pc = "gotCurrent"
    /\ op.seen = op.from
    /\ \/ /\ op.intent = "activate" /\ CanPrepareActivation(jobs, op.src)
          /\ jobs' = PrepareActivation(jobs, op.src, op.seen)
       \/ /\ op.intent = "rollback" /\ CanPrepareRollback(jobs, op.src)
          /\ jobs' = PrepareRollback(jobs, op.src)
    /\ SetOp(o, [op EXCEPT !.pc = "askSwitch", !.seen = NoCollection])
    /\ UNCHANGED <<knowledge, qdrant, up, worker, crashes>>

\* The comparison inside switchAlias.
GotSwitch(o) ==
    LET op == ops[o] IN
    /\ Free /\ op.pc = "gotSwitch"
    /\ op.seen = op.from
    /\ SetOp(o, [op EXCEPT !.pc = "sent", !.seen = NoCollection])
    /\ UNCHANGED <<knowledge, jobs, qdrant, up, worker, crashes>>

GotApplied(o, good) ==
    /\ Free /\ ops[o].pc = "applied"
    /\ Complete(o, good)
    /\ UNCHANGED <<knowledge, qdrant, up, worker, crashes>>

\* A comparison or a transaction that throws, a request that fails or times
\* out: the operation ends and leaves the intent it stored.
OpFails(o) ==
    /\ Free /\ ops[o].pc # "idle"
    /\ EndOp(o)
    /\ UNCHANGED <<knowledge, jobs, qdrant, up, worker, crashes>>
=============================================================================
