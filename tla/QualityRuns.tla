----------------------------- MODULE QualityRuns -----------------------------
(***************************************************************************)
(* The queue of quality runs and the gate before a retrieval policy        *)
(* (quality-run.service.ts, quality-lab.service.ts): runs evaluate a grid  *)
(* of policies on the current knowledge, one after the other, while the    *)
(* knowledge and the policy change; a candidate may be activated only      *)
(* against the knowledge and the policy its run started from.              *)
(***************************************************************************)
EXTENDS Naturals, Sequences

CONSTANTS
    Policies,     \* policy configurations
    DefaultPolicy,
    MaxRuns,      \* bound on runs
    MaxPolicies,  \* bound on policy versions
    MaxRevisions, \* bound on revisions of the knowledge
    MaxEdits,     \* bound on its changes
    MaxBoots,     \* bound on crashes
    Targets       \* backends a run searches

ASSUME QualityAssumption ==
    /\ MaxRuns \in Nat /\ MaxPolicies \in Nat \ {0} /\ MaxRevisions \in Nat \ {0}
    /\ MaxEdits \in Nat /\ MaxBoots \in Nat /\ Targets \in Nat \ {0}
    /\ DefaultPolicy \in Policies

VARIABLES
    runs,      \* quality_runs, in the order they were created
    history,   \* retrieval_policies, by version; the last one is active
    knowledge, \* the knowledge that is switched on
    draining,  \* a drain loop is due or running
    current,   \* the run in progress (0: none) and the backend it searches
    up,
    boots, edits

env == <<boots, edits>>
vars == <<runs, history, knowledge, draining, current, up, env>>

\* knowledge-fingerprint.ts covers what is switched on, by id and revision, so
\* switching the same knowledge off and on brings its fingerprint back.
Knowledge == [revision : 1..MaxRevisions, on : BOOLEAN]
fingerprint == knowledge
NoFingerprint == [revision |-> 0, on |-> FALSE]

\* base: activePolicyId.  seen: the knowledge the searches met, as long as the
\* run does not fail.  passed: the candidates whose metrics are no worse than those of
\* the policy the run started under, as far as the gate compares them.
Run == [status : {"queued", "running", "completed", "failed", "cancelled", "stale", "interrupted"},
        cancel : BOOLEAN, fp : Knowledge \cup {NoFingerprint}, grid : SUBSET Policies,
        base : 1..MaxPolicies, seen : SUBSET Knowledge, passed : SUBSET Policies]

\* One type invariant.
TypeOK ==
    /\ runs \in Seq(Run) /\ Len(runs) <= MaxRuns
    /\ history \in Seq(Policies) /\ Len(history) \in 1..MaxPolicies
    /\ knowledge \in Knowledge
    /\ draining \in BOOLEAN /\ up \in BOOLEAN /\ boots \in 0..MaxBoots /\ edits \in 0..MaxEdits
    /\ current \in [run : 0..MaxRuns, target : 0..Targets]

Idle == [run |-> 0, target |-> 0]
active == Len(history)
Ids == DOMAIN runs

Init ==
    /\ runs = <<>> /\ knowledge = [revision |-> 1, on |-> TRUE]
    /\ history = <<DefaultPolicy>>
    /\ draining = FALSE /\ current = Idle /\ up = TRUE /\ boots = 0 /\ edits = 0

-----------------------------------------------------------------------------
(* quality-run.repo.ts: each UPDATE names the states it starts from.       *)

Move(r, from, to) == IF runs[r].status \in from THEN [runs EXCEPT ![r].status = to] ELSE runs

QueuedRuns == {r \in Ids : runs[r].status = "queued"}
NextQueued == CHOOSE r \in QueuedRuns : \A q \in QueuedRuns : r <= q

-----------------------------------------------------------------------------
(* Requests.  Each handler is synchronous.                                 *)

NewRun(fp, grid, base) ==
    [status |-> "queued", cancel |-> FALSE, fp |-> fp, grid |-> grid, base |-> base,
     seen |-> {}, passed |-> {}]

\* A run with a version on current knowledge keeps its fingerprint; one with
\* fixtures only has none.
Fingerprints == {fingerprint, NoFingerprint}

\* createRun: the grid always holds the active policy; a microtask drains.
CreateRun ==
    /\ up /\ Len(runs) < MaxRuns
    /\ \E p \in Policies, fp \in Fingerprints :
         runs' = Append(runs, NewRun(fp, {p, history[active]}, active))
    /\ draining' = TRUE
    /\ UNCHANGED <<history, knowledge, current, up, env>>

\* rerunFailed keeps the grid and the policy of the original.
Rerun(r) ==
    /\ up /\ runs[r].status = "failed" /\ Len(runs) < MaxRuns
    /\ \E fp \in {IF runs[r].fp = NoFingerprint THEN NoFingerprint ELSE fingerprint} :
         runs' = Append(runs, NewRun(fp, runs[r].grid, runs[r].base))
    /\ draining' = TRUE
    /\ UNCHANGED <<history, knowledge, current, up, env>>

\* getRun and checkPromotion mark a completed run stale when the knowledge has
\* changed; a refused activation does nothing else.
Outdated(r) == runs[r].fp # NoFingerprint /\ runs[r].fp # fingerprint
MarkStale(r) == IF Outdated(r) THEN Move(r, {"completed"}, "stale") ELSE runs

Read(r) ==
    /\ up /\ runs' = MarkStale(r)
    /\ UNCHANGED <<history, knowledge, draining, current, up, env>>

\* listRuns marks every run of the page.
List ==
    /\ up /\ runs' = [r \in Ids |-> MarkStale(r)[r]]
    /\ UNCHANGED <<history, knowledge, draining, current, up, env>>

\* cancelRun ends a queued run at once and only asks a running one to stop.
Cancel(r) ==
    /\ up /\ runs[r].status \in {"queued", "running"}
    /\ runs' = [runs EXCEPT ![r].cancel = TRUE,
                            ![r].status = IF @ = "queued" THEN "cancelled" ELSE @]
    /\ UNCHANGED <<history, knowledge, draining, current, up, env>>

\* Mutant: the gate trusts the status and leaves the fingerprint alone.
EligibleStale(r, p) ==
    /\ runs[r].status = "completed" /\ runs[r].base = active
    /\ p \in runs[r].grid /\ history[active] \in runs[r].grid
    /\ p \in runs[r].passed

\* checkPromotion.
Eligible(r, p) ==
    /\ runs[r].status = "completed" /\ runs[r].fp = fingerprint /\ runs[r].base = active
    /\ p \in runs[r].grid /\ history[active] \in runs[r].grid
    /\ p \in runs[r].passed

\* activatePolicy: a new version of a policy, when the one the administrator saw
\* is still the active one.
Publish(p) == Len(history) < MaxPolicies /\ history' = Append(history, p)

\* activateCandidate, by an administrator who saw the active policy; the check
\* and the change run without a pause.
Activate(r, p) ==
    /\ up /\ Eligible(r, p) /\ Publish(p)
    /\ UNCHANGED <<runs, knowledge, draining, current, up, env>>

\* rollbackPolicy copies an earlier version; no gate.
Rollback ==
    /\ up /\ \E v \in DOMAIN history : Publish(history[v])
    /\ UNCHANGED <<runs, knowledge, draining, current, up, env>>

\* Knowledge is edited, or switched off and on again.
Edit ==
    /\ up /\ edits < MaxEdits /\ edits' = edits + 1
    /\ \/ knowledge.revision < MaxRevisions /\ knowledge' = [knowledge EXCEPT !.revision = @ + 1]
       \/ knowledge' = [knowledge EXCEPT !.on = ~@]
    /\ UNCHANGED <<runs, history, draining, current, up, boots>>

-----------------------------------------------------------------------------
(* The drain loop.                                                         *)

\* drain() takes one run after the other.
MayStart == up /\ draining /\ current = Idle /\ QueuedRuns # {}

\* processNext up to its first await.
Start ==
    /\ MayStart
    /\ runs' = Move(NextQueued, {"queued"}, "running")
    /\ current' = [run |-> NextQueued, target |-> 1]
    /\ UNCHANGED <<history, knowledge, draining, up, env>>

\* The loop goes on while a run is queued.
Ends == current' = Idle /\ draining' = (QueuedRuns # {})

\* The searches of one backend take time, and may meet several states of the
\* knowledge.
Search ==
    /\ up /\ current # Idle
    /\ knowledge \notin runs[current.run].seen
    /\ runs' = [runs EXCEPT ![current.run].seen = @ \cup {knowledge}]
    /\ UNCHANGED <<history, knowledge, draining, current, up, env>>

\* Mutant: the flag of a cancelled run is read only before the last backend.
CancelledEarly == runs[current.run].cancel /\ current.target < Targets

\* The loop over the cases looks at the flag once the searches have ended.
Cancelled == runs[current.run].cancel

\* The cases of the last backend are counted, and the results are saved, without
\* a pause after the last look at the flag.
Finish(passed) ==
    runs' = [Move(current.run, {"running"}, "completed") EXCEPT ![current.run].passed = passed]

\* Nothing of the searches is kept.
Drop(status) ==
    runs' = [Move(current.run, {"queued", "running"}, status) EXCEPT ![current.run].seen = {}]

TargetEnds ==
    /\ up /\ current # Idle /\ runs[current.run].seen # {}
    /\ \/ /\ Cancelled
          /\ Drop("cancelled") /\ Ends
       \/ /\ ~Cancelled /\ current.target < Targets
          /\ current' = [current EXCEPT !.target = @ + 1] /\ UNCHANGED <<runs, draining>>
       \/ /\ ~Cancelled /\ current.target = Targets
          /\ \E passed \in SUBSET runs[current.run].grid : Finish(passed)
          /\ Ends
    /\ UNCHANGED <<history, knowledge, up, env>>

RunFails ==
    /\ up /\ current # Idle
    /\ Drop("failed")
    /\ Ends
    /\ UNCHANGED <<history, knowledge, up, env>>

-----------------------------------------------------------------------------
(* The process.                                                            *)

Crash ==
    /\ up /\ boots < MaxBoots
    /\ up' = FALSE /\ boots' = boots + 1 /\ current' = Idle /\ draining' = FALSE
    /\ UNCHANGED <<runs, history, knowledge, edits>>

\* Mutant: only running runs are interrupted.
InterruptRunning == [r \in Ids |-> IF runs[r].status = "running"
    THEN [runs[r] EXCEPT !.status = "interrupted", !.seen = {}] ELSE runs[r]]

\* interruptIncomplete.
Interrupted == [r \in Ids |-> IF runs[r].status \in {"queued", "running"}
    THEN [runs[r] EXCEPT !.status = "interrupted", !.seen = {}] ELSE runs[r]]

Boot ==
    /\ ~up /\ up' = TRUE /\ runs' = Interrupted
    /\ UNCHANGED <<history, knowledge, draining, current, env>>

Next ==
    \/ CreateRun \/ \E r \in Ids : Rerun(r) \/ Read(r) \/ Cancel(r) \/ \E p \in Policies : Activate(r, p)
    \/ List \/ Rollback \/ Edit
    \/ Start \/ Search \/ TargetEnds \/ RunFails
    \/ Crash \/ Boot

\* A search and an embedding end or fail by their timeouts; the loop goes on by
\* itself; the process is restarted.
Fairness == WF_vars(Start) /\ WF_vars(Search) /\ WF_vars(TargetEnds \/ RunFails) /\ WF_vars(Boot)

Spec == Init /\ [][Next]_vars /\ Fairness

-----------------------------------------------------------------------------
(* Properties.                                                             *)

\* A policy that activateCandidate lets through was measured by searches that
\* met no revision of the knowledge but the present one, from the start of the
\* run to the end (createRun, getRun, checkPromotion).
PromotionMeasured ==
    [][\A r \in Ids, p \in Policies : Activate(r, p) =>
         /\ runs[r].seen # {}
         /\ \A k \in runs[r].seen : k.revision = knowledge.revision]_vars

\* A run whose cancellation was accepted while it waited or ran never publishes
\* results, whichever await the request met it in.
CancelledHasNoResult == \A r \in Ids : runs[r].cancel => runs[r].status \notin {"completed", "stale"}

\* A run that was asked for comes to an end, whatever becomes of the runs before
\* it and of the process.
RunEnds == \A r \in 1..MaxRuns :
    (r \in Ids /\ runs[r].status = "queued") ~>
        (r \in Ids /\ runs[r].status \notin {"queued", "running"})
=============================================================================
