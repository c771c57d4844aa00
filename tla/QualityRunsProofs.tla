---------------------------- MODULE QualityRunsProofs ----------------------------
(***************************************************************************)
(* Theorems about QualityRuns, for any policies, backends and number of    *)
(* runs, edits and crashes.                                                *)
(***************************************************************************)
EXTENDS QualityRuns, SequenceTheorems, WellFoundedInduction, TLAPS

\* What a run has to keep: a cancelled one has no result, a completed one has
\* searched, and what it searched lies between its fingerprint and the present.
RunOK(run, now) ==
    /\ run.cancel => run.status \notin {"completed", "stale"}
    /\ run.status = "completed" => run.seen # {}
    /\ run.fp.revision <= now
    /\ \A k \in run.seen : run.fp.revision <= k.revision /\ k.revision <= now

\* The loop works on a run that is running, so that what it drops or saves is
\* never the result of another.
IInv ==
    /\ TypeOK
    /\ current # Idle => up /\ current.run \in Ids /\ runs[current.run].status = "running"
    /\ \A r \in Ids : RunOK(runs[r], knowledge.revision)

-----------------------------------------------------------------------------
(* Sequences of runs.                                                      *)

LEMMA RunFields ==
    ASSUME NEW run \in Run
    PROVE  /\ run.fp.revision \in Nat /\ run.seen \in SUBSET Knowledge
           /\ run.cancel \in BOOLEAN
           /\ \A k \in run.seen : k.revision \in Nat
<1>1. run.fp \in Knowledge \cup {NoFingerprint} /\ run.seen \in SUBSET Knowledge /\ run.cancel \in BOOLEAN
  BY DEF Run
<1>2. \A k \in Knowledge : k.revision \in Nat
  BY QualityAssumption DEF Knowledge
<1>3. NoFingerprint.revision \in Nat
  BY DEF NoFingerprint
<1>. QED  BY <1>1, <1>2, <1>3

\* One run changes.
LEMMA OneRun ==
    ASSUME TypeOK, NEW r \in Ids, NEW run \in Run, runs' = [runs EXCEPT ![r] = run]
    PROVE  /\ runs' \in Seq(Run) /\ Len(runs') = Len(runs) /\ Ids' = Ids
           /\ runs'[r] = run
           /\ \A q \in Ids : q # r => runs'[q] = runs[q]
<1>1. runs \in Seq(Run) /\ r \in 1..Len(runs)
  BY LenProperties DEF TypeOK, Ids
<1>2. /\ runs' \in Seq(Run) /\ Len(runs') = Len(runs)
      /\ \A q \in 1..Len(runs) : runs'[q] = IF q = r THEN run ELSE runs[q]
  BY <1>1, ExceptSeq
<1>. QED  BY <1>1, <1>2, LenProperties DEF Ids

\* Any runs change, each into a run.
LEMMA EachRun ==
    ASSUME TypeOK, NEW f, runs' = [r \in Ids |-> f[r]], \A r \in Ids : f[r] \in Run
    PROVE  runs' \in Seq(Run) /\ Len(runs') = Len(runs) /\ Ids' = Ids /\ \A r \in Ids : runs'[r] = f[r]
<1>1. Len(runs) \in Nat /\ Ids = 1..Len(runs)
  BY LenProperties DEF TypeOK, Ids
<1>2. runs' \in [1..Len(runs) -> Run]
  BY <1>1
<1>3. runs' \in Seq(Run)
  BY <1>1, <1>2
<1>4. Len(runs') = Len(runs)
  BY <1>1, <1>2, <1>3, LenProperties
<1>. QED  BY <1>1, <1>3, <1>4 DEF Ids

LEMMA NextQueuedIsQueued ==
    ASSUME TypeOK, QueuedRuns # {}
    PROVE  NextQueued \in QueuedRuns
<1>1. QueuedRuns \subseteq Nat
  BY LenProperties DEF TypeOK, QueuedRuns, Ids
<1>2. PICK q \in QueuedRuns : \A p \in QueuedRuns : <<p, q>> \notin OpToRel(<, Nat)
  BY <1>1, WFMin, NatLessThanWellFounded
<1>3. \A p \in QueuedRuns : q <= p
  <2>1. SUFFICES ASSUME NEW p \in QueuedRuns, ~(q <= p) PROVE FALSE
    OBVIOUS
  <2>2. p \in Nat /\ q \in Nat /\ p < q
    BY <1>1, <2>1
  <2>3. <<p, q>> \in OpToRel(<, Nat)
    BY <2>2 DEF OpToRel
  <2>. QED  BY <1>2, <2>3
<1>. QED  BY <1>3 DEF NextQueued

\* What a step leaves that changes one run.
LEMMA OneRunKeeps ==
    ASSUME IInv, NEW r \in Ids, NEW run \in Run, RunOK(run, knowledge.revision),
           runs' = [runs EXCEPT ![r] = run], UNCHANGED knowledge
    PROVE  /\ runs' \in Seq(Run) /\ Len(runs') = Len(runs) /\ Ids' = Ids
           /\ runs'[r] = run /\ \A q \in Ids : q # r => runs'[q] = runs[q]
           /\ \A q \in Ids' : RunOK(runs'[q], knowledge'.revision)
<1>1. /\ runs' \in Seq(Run) /\ Len(runs') = Len(runs) /\ Ids' = Ids
      /\ runs'[r] = run /\ \A q \in Ids : q # r => runs'[q] = runs[q]
  BY OneRun DEF IInv
<1>2. \A q \in Ids : RunOK(runs'[q], knowledge.revision)
  BY <1>1 DEF IInv
<1>. QED  BY <1>1, <1>2

LEMMA ARunIsTyped ==
    ASSUME IInv, NEW r \in Ids
    PROVE  /\ runs[r] \in Run /\ RunOK(runs[r], knowledge.revision)
           /\ knowledge.revision \in Nat /\ knowledge \in Knowledge
<1>1. runs[r] \in Run
  BY ElementOfSeq, LenProperties DEF IInv, TypeOK, Ids
<1>. QED  BY <1>1, QualityAssumption DEF IInv, TypeOK, Knowledge

-----------------------------------------------------------------------------
(* The invariant.                                                          *)

LEMMA InitIInv == Init => IInv
<1> SUFFICES ASSUME Init PROVE IInv
  OBVIOUS
<1>1. runs \in Seq(Run) /\ Len(runs) = 0 /\ Ids = {}
  BY EmptySeq, LenProperties DEF Init, Ids
<1>2. history \in Seq(Policies) /\ Len(history) = 1
  BY QualityAssumption DEF Init
<1>3. knowledge \in Knowledge
  BY QualityAssumption DEF Init, Knowledge
<1>4. current \in [run : 0..MaxRuns, target : 0..Targets]
  BY QualityAssumption DEF Init, Idle
<1>5. TypeOK
  <2>1. draining \in BOOLEAN /\ up \in BOOLEAN
    BY DEF Init
  <2>3. boots = 0 /\ edits = 0
    BY DEF Init
  <2>4. boots \in 0..MaxBoots /\ edits \in 0..MaxEdits
    BY <2>3, QualityAssumption
  <2>2. Len(runs) <= MaxRuns /\ Len(history) \in 1..MaxPolicies
    BY <1>1, <1>2, QualityAssumption
  <2>. QED  BY <1>1, <1>2, <1>3, <1>4, <2>1, <2>2, <2>4 DEF TypeOK
<1>6. current = Idle
  BY DEF Init
<1>7. \A r \in Ids : RunOK(runs[r], knowledge.revision)
  BY <1>1
<1>. QED  BY <1>5, <1>6, <1>7 DEF IInv

\* A new run.
LEMMA AppendKeeps ==
    ASSUME IInv, NEW grid \in SUBSET Policies, NEW fp \in Fingerprints, NEW base \in 1..MaxPolicies,
           Len(runs) < MaxRuns, runs' = Append(runs, NewRun(fp, grid, base)), draining' = TRUE,
           UNCHANGED <<history, knowledge, current, up, env>>
    PROVE  IInv'
<1> DEFINE new == NewRun(fp, grid, base)
<1>1. knowledge \in Knowledge /\ knowledge.revision \in Nat
  BY QualityAssumption DEF IInv, TypeOK, Knowledge
<1>2. new \in Run
  BY <1>1 DEF NewRun, Run, Fingerprints, fingerprint
<1>3. RunOK(new, knowledge.revision)
  BY <1>1, QualityAssumption DEF NewRun, RunOK, Fingerprints, fingerprint, NoFingerprint
<1> HIDE DEF new
<1>4. /\ runs' \in Seq(Run) /\ Len(runs') = Len(runs) + 1
      /\ \A i \in 1..Len(runs) : runs'[i] = runs[i]
      /\ runs'[Len(runs) + 1] = new
  BY <1>2, AppendProperties DEF IInv, TypeOK, new
<1>5. Ids = 1..Len(runs) /\ Ids' = 1..(Len(runs) + 1) /\ Len(runs) \in Nat
  BY <1>4, LenProperties DEF IInv, TypeOK, Ids
<1>6. TypeOK'
  BY <1>4, <1>5, QualityAssumption DEF IInv, TypeOK, env
<1>7. \A r \in Ids' : RunOK(runs'[r], knowledge'.revision)
  BY <1>3, <1>4, <1>5 DEF IInv
<1>8. (current # Idle => up /\ current.run \in Ids /\ runs[current.run].status = "running")'
  BY <1>4, <1>5 DEF IInv
<1>. QED  BY <1>6, <1>7, <1>8 DEF IInv

LEMMA RequestsKeep ==
    ASSUME IInv, CreateRun \/ \E r \in Ids : Rerun(r)
    PROVE  IInv'
<1>1. CASE CreateRun
  <2>1. PICK p \in Policies, fp \in Fingerprints : runs' = Append(runs, NewRun(fp, {p, history[active]}, active))
    BY <1>1 DEF CreateRun
  <2>2. active \in 1..MaxPolicies /\ history[active] \in Policies
    BY LenProperties, ElementOfSeq DEF IInv, TypeOK, active
  <2>. QED  BY <1>1, <2>1, <2>2, AppendKeeps DEF CreateRun
<1>2. ASSUME NEW r \in Ids, Rerun(r) PROVE IInv'
  <2>1. PICK fp \in Fingerprints : runs' = Append(runs, NewRun(fp, runs[r].grid, runs[r].base))
    BY <1>2 DEF Rerun, Fingerprints
  <2>2. runs[r].grid \in SUBSET Policies /\ runs[r].base \in 1..MaxPolicies
    BY ARunIsTyped DEF Run
  <2>. QED  BY <1>2, <2>1, <2>2, AppendKeeps DEF Rerun
<1>. QED  BY <1>1, <1>2

\* A run that is marked stale had no cancellation.
Stale(r) == [runs[r] EXCEPT !.status = "stale"]

LEMMA StaleRun ==
    ASSUME IInv, NEW r \in Ids
    PROVE  /\ runs[r].status = "completed" => Stale(r) \in Run /\ RunOK(Stale(r), knowledge.revision)
           /\ \/ MarkStale(r) = runs
              \/ (runs[r].status = "completed" /\ MarkStale(r) = [runs EXCEPT ![r] = Stale(r)])
           /\ MarkStale(r)[r] = runs[r] \/ (runs[r].status = "completed" /\ MarkStale(r)[r] = Stale(r))
<1>1. runs[r] \in Run /\ RunOK(runs[r], knowledge.revision)
  BY ARunIsTyped
<1>2. runs[r].status = "completed" => Stale(r) \in Run
  BY <1>1 DEF Run, Stale
<1>3. runs[r].status = "completed" => RunOK(Stale(r), knowledge.revision)
  BY <1>1 DEF Run, RunOK, Stale
<1>4. \/ MarkStale(r) = runs
      \/ (runs[r].status = "completed" /\ MarkStale(r) = [runs EXCEPT ![r] = Stale(r)])
  BY DEF MarkStale, Move, Stale
<1>5. [runs EXCEPT ![r] = Stale(r)][r] = Stale(r)
  BY DEF Ids
<1>. QED  BY <1>2, <1>3, <1>4, <1>5

LEMMA ReadsKeep ==
    ASSUME IInv, List \/ \E r \in Ids : Read(r)
    PROVE  IInv'
<1> USE DEF env
<1>1. ASSUME NEW r \in Ids, Read(r) PROVE IInv'
  <2>1. CASE runs' = runs
    BY <1>1, <2>1 DEF Read, IInv, TypeOK, Ids
  <2>2. CASE runs[r].status = "completed" /\ runs' = [runs EXCEPT ![r] = Stale(r)]
    <3>0. Stale(r) \in Run /\ RunOK(Stale(r), knowledge.revision) /\ UNCHANGED knowledge
      BY <1>1, <2>2, StaleRun DEF Read
    <3>1. /\ runs' \in Seq(Run) /\ Len(runs') = Len(runs) /\ Ids' = Ids
          /\ \A q \in Ids : q # r => runs'[q] = runs[q]
          /\ \A q \in Ids' : RunOK(runs'[q], knowledge'.revision)
      BY <2>2, <3>0, OneRunKeeps
    <3>2. (current # Idle => up /\ current.run \in Ids /\ runs[current.run].status = "running")'
      BY <1>1, <2>2, <3>1 DEF Read, IInv
    <3>3. TypeOK'
      BY <1>1, <3>1 DEF Read, IInv, TypeOK
    <3>. QED  BY <3>1, <3>2, <3>3 DEF IInv
  <2>. QED  BY <1>1, <2>1, <2>2, StaleRun DEF Read
<1>2. CASE List
  <2> DEFINE f == [r \in Ids |-> MarkStale(r)[r]]
  <2>1. \A r \in Ids : f[r] \in Run /\ RunOK(f[r], knowledge.revision)
                       /\ (runs[r].status = "running" => f[r] = runs[r])
    BY StaleRun, ARunIsTyped
  <2>2. runs' = [r \in Ids |-> f[r]] /\ UNCHANGED <<history, knowledge, draining, current, up, env>>
    BY <1>2 DEF List
  <2> HIDE DEF f
  <2>3. runs' \in Seq(Run) /\ Len(runs') = Len(runs) /\ Ids' = Ids /\ \A r \in Ids : runs'[r] = f[r]
    BY <2>1, <2>2, EachRun DEF IInv
  <2>4. \A r \in Ids' : RunOK(runs'[r], knowledge'.revision)
    BY <2>1, <2>2, <2>3
  <2>5. (current # Idle => up /\ current.run \in Ids /\ runs[current.run].status = "running")'
    BY <2>1, <2>2, <2>3 DEF IInv
  <2>6. TypeOK'
    BY <2>2, <2>3 DEF IInv, TypeOK
  <2>. QED  BY <2>4, <2>5, <2>6 DEF IInv
<1>. QED  BY <1>1, <1>2

\* A step that leaves the runs alone, or gives the knowledge another revision.
LEMMA SettingsKeep ==
    ASSUME IInv, Rollback \/ Edit \/ (\E r \in Ids, p \in Policies : Activate(r, p)) \/ UNCHANGED vars
    PROVE  IInv'
<1> USE DEF env
<1>1. ASSUME NEW p \in Policies, Publish(p), UNCHANGED <<runs, knowledge, draining, current, up, env>>
      PROVE  IInv'
  <2>1. history' \in Seq(Policies) /\ Len(history') \in 1..MaxPolicies
    BY <1>1, AppendProperties, LenProperties, QualityAssumption DEF Publish, IInv, TypeOK
  <2>2. TypeOK'
    BY <1>1, <2>1 DEF IInv, TypeOK
  <2>. QED  BY <1>1, <2>2 DEF IInv, Ids
<1>2. CASE Rollback
  <2>1. PICK v \in DOMAIN history : Publish(history[v])
    BY <1>2 DEF Rollback
  <2>2. history[v] \in Policies
    BY <2>1, LenProperties, ElementOfSeq DEF IInv, TypeOK
  <2>. QED  BY <1>1, <1>2, <2>1, <2>2 DEF Rollback
<1>3. ASSUME NEW r \in Ids, NEW p \in Policies, Activate(r, p) PROVE IInv'
  BY <1>1, <1>3 DEF Activate
<1>4. CASE Edit
  <2>1. knowledge \in Knowledge /\ knowledge.revision \in Nat
    BY QualityAssumption DEF IInv, TypeOK, Knowledge
  <2>2. knowledge' \in Knowledge /\ knowledge.revision <= knowledge'.revision /\ knowledge'.revision \in Nat
    <3>1. CASE knowledge.revision < MaxRevisions /\ knowledge' = [knowledge EXCEPT !.revision = @ + 1]
      BY <2>1, <3>1, QualityAssumption DEF Knowledge
    <3>2. CASE knowledge' = [knowledge EXCEPT !.on = ~@]
      <4>1. knowledge'.revision = knowledge.revision /\ knowledge' \in Knowledge
        BY <2>1, <3>2 DEF Knowledge
      <4>. QED  BY <2>1, <4>1
    <3>. QED  BY <1>4, <3>1, <3>2 DEF Edit
  <2>3. ASSUME NEW r \in Ids PROVE RunOK(runs[r], knowledge'.revision)
    <3>1. runs[r].fp.revision \in Nat /\ \A k \in runs[r].seen : k.revision \in Nat
      BY ARunIsTyped, RunFields
    <3>. QED  BY <2>1, <2>2, <3>1, ARunIsTyped DEF RunOK
  <2>4. TypeOK'
    BY <1>4, <2>2, QualityAssumption DEF Edit, IInv, TypeOK
  <2>. QED  BY <1>4, <2>3, <2>4 DEF IInv, Edit, Ids
<1>5. CASE UNCHANGED vars
  BY <1>5 DEF vars, IInv, TypeOK, Ids
<1>. QED  BY <1>2, <1>3, <1>4, <1>5

LEMMA CancelKeeps ==
    ASSUME IInv, NEW r \in Ids, Cancel(r)
    PROVE  IInv'
<1> DEFINE run == [runs[r] EXCEPT !.cancel = TRUE,
                                  !.status = IF @ = "queued" THEN "cancelled" ELSE @]
<1>1. runs[r] \in Run /\ RunOK(runs[r], knowledge.revision) /\ runs[r].status \in {"queued", "running"}
  BY ARunIsTyped DEF Cancel
<1>2. run \in Run
  BY <1>1 DEF Run
<1>3. RunOK(run, knowledge.revision) /\ (runs[r].status = "running" => run.status = "running")
  BY <1>1 DEF RunOK, Run
<1>4. runs' = [runs EXCEPT ![r] = run] /\ UNCHANGED <<history, knowledge, draining, current, up, boots, edits>>
  BY DEF Cancel, env
<1> HIDE DEF run
<1>5. /\ runs' \in Seq(Run) /\ Len(runs') = Len(runs) /\ Ids' = Ids
      /\ runs'[r] = run /\ \A q \in Ids : q # r => runs'[q] = runs[q]
      /\ \A q \in Ids' : RunOK(runs'[q], knowledge'.revision)
  BY <1>2, <1>3, <1>4, OneRunKeeps
<1>6. TypeOK'
  BY <1>4, <1>5 DEF IInv, TypeOK
<1>7. current' # Idle => up' /\ current'.run \in Ids' /\ runs'[current'.run].status = "running"
  BY <1>3, <1>4, <1>5 DEF IInv
<1>. QED  BY <1>5, <1>6, <1>7 DEF IInv, Idle

-----------------------------------------------------------------------------
(* The drain loop and the process.                                         *)

LEMMA StartKeeps ==
    ASSUME IInv, Start
    PROVE  IInv'
<1> DEFINE n == NextQueued  run == [runs[n] EXCEPT !.status = "running"]
<1>1. n \in Ids /\ runs[n].status = "queued"
  BY NextQueuedIsQueued DEF IInv, Start, MayStart, QueuedRuns
<1>2. runs[n] \in Run /\ RunOK(runs[n], knowledge.revision)
  BY <1>1, ARunIsTyped
<1>3. runs' = [runs EXCEPT ![n] = run]
  BY <1>1 DEF Start, Move
<1>4. /\ current' = [run |-> n, target |-> 1]
      /\ UNCHANGED <<history, knowledge, draining, up, boots, edits>>
  BY DEF Start, env
<1> HIDE DEF n
<1>5. run \in Run /\ run.status = "running" /\ RunOK(run, knowledge.revision)
  BY <1>2 DEF Run, RunOK
<1> HIDE DEF run
<1>6. /\ runs' \in Seq(Run) /\ Len(runs') = Len(runs) /\ Ids' = Ids /\ runs'[n] = run
      /\ \A q \in Ids' : RunOK(runs'[q], knowledge'.revision)
  BY <1>1, <1>3, <1>4, <1>5, OneRunKeeps
<1>7. n \in 0..MaxRuns
  BY <1>1, LenProperties, QualityAssumption DEF IInv, TypeOK, Ids
<1>8. current' \in [run : 0..MaxRuns, target : 0..Targets]
  BY <1>4, <1>7, QualityAssumption
<1>9. TypeOK'
  BY <1>4, <1>6, <1>8 DEF IInv, TypeOK
<1>10. up' /\ current'.run \in Ids' /\ runs'[current'.run].status = "running"
  BY <1>1, <1>4, <1>5, <1>6 DEF Start, MayStart
<1>. QED  BY <1>6, <1>9, <1>10 DEF IInv, Idle

\* What the loop does to its run: seen grows, it goes on, it ends.
LEMMA LoopRun ==
    ASSUME IInv, current # Idle
    PROVE  /\ current.run \in Ids /\ runs[current.run] \in Run
           /\ RunOK(runs[current.run], knowledge.revision)
           /\ runs[current.run].status = "running"
BY ARunIsTyped DEF IInv

\* The loop gives its run up, or saves it.
LEMMA EndKeeps ==
    ASSUME IInv, current # Idle, NEW run \in Run, RunOK(run, knowledge.revision),
           runs' = [runs EXCEPT ![current.run] = run], Ends,
           UNCHANGED <<history, knowledge, up, env>>
    PROVE  IInv'
<1>1. /\ runs' \in Seq(Run) /\ Len(runs') = Len(runs) /\ Ids' = Ids
      /\ \A q \in Ids' : RunOK(runs'[q], knowledge'.revision)
  BY LoopRun, OneRunKeeps
<1>2. current' = Idle /\ current' \in [run : 0..MaxRuns, target : 0..Targets]
  BY QualityAssumption DEF Ends, Idle
<1>3. draining' \in BOOLEAN
  BY DEF Ends
<1>4. TypeOK'
  BY <1>1, <1>2, <1>3 DEF IInv, TypeOK, env
<1>5. Idle' = Idle
  BY DEF Idle
<1>. QED  BY <1>1, <1>2, <1>4, <1>5 DEF IInv

LEMMA DropKeeps ==
    ASSUME IInv, current # Idle, NEW status \in {"cancelled", "failed"}, Drop(status), Ends,
           UNCHANGED <<history, knowledge, up, env>>
    PROVE  IInv'
<1> DEFINE r == current.run  run == [runs[r] EXCEPT !.status = status, !.seen = {}]
<1>1. r \in Ids /\ runs[r] \in Run /\ RunOK(runs[r], knowledge.revision) /\ runs[r].status = "running"
  BY LoopRun
<1>2. runs' = [runs EXCEPT ![r] = run]
  BY <1>1 DEF Drop, Move, Ids
<1> HIDE DEF r
<1>3. run \in Run
  BY <1>1 DEF Run
<1>4. RunOK(run, knowledge.revision)
  BY <1>1 DEF RunOK, Run
<1>. QED  BY <1>2, <1>3, <1>4, EndKeeps DEF r

LEMMA SearchKeeps ==
    ASSUME IInv, Search
    PROVE  IInv'
<1> DEFINE r == current.run  run == [runs[r] EXCEPT !.seen = @ \cup {knowledge}]
<1>1. r \in Ids /\ runs[r] \in Run /\ RunOK(runs[r], knowledge.revision) /\ runs[r].status = "running"
  BY LoopRun DEF Search
<1>2. runs' = [runs EXCEPT ![r] = run] /\ UNCHANGED <<history, knowledge, draining, current, up, boots, edits>>
  BY DEF Search, env
<1> HIDE DEF r
<1>3. knowledge \in Knowledge /\ knowledge.revision \in Nat
  BY <1>1, ARunIsTyped
<1>4. run \in Run /\ run.status = "running"
  BY <1>1, <1>3 DEF Run
<1>5. RunOK(run, knowledge.revision)
  BY <1>1, <1>3 DEF RunOK, Run
<1> HIDE DEF run
<1>6. /\ runs' \in Seq(Run) /\ Len(runs') = Len(runs) /\ Ids' = Ids /\ runs'[r] = run
      /\ \A q \in Ids' : RunOK(runs'[q], knowledge'.revision)
  BY <1>1, <1>2, <1>4, <1>5, OneRunKeeps
<1>7. TypeOK'
  BY <1>2, <1>6 DEF IInv, TypeOK
<1>8. up' /\ current'.run \in Ids' /\ runs'[current'.run].status = "running"
  BY <1>1, <1>2, <1>4, <1>6 DEF r, Search
<1>. QED  BY <1>6, <1>7, <1>8 DEF IInv

LEMMA TargetEndsKeeps ==
    ASSUME IInv, TargetEnds
    PROVE  IInv'
<1>0. current # Idle /\ runs[current.run].seen # {} /\ UNCHANGED <<history, knowledge, up, env>>
  BY DEF TargetEnds
<1>1. CASE Drop("cancelled") /\ Ends
  BY <1>0, <1>1, DropKeeps
<1>2. CASE /\ current.target < Targets /\ current' = [current EXCEPT !.target = @ + 1]
           /\ UNCHANGED <<runs, draining>>
  <2>1. current'.run = current.run /\ current' \in [run : 0..MaxRuns, target : 0..Targets]
    BY <1>2, QualityAssumption DEF IInv, TypeOK
  <2>2. TypeOK'
    BY <1>0, <1>2, <2>1 DEF IInv, TypeOK, env
  <2>3. up' /\ current'.run \in Ids' /\ runs'[current'.run].status = "running"
    BY <1>0, <1>2, <2>1, LoopRun DEF Ids, TargetEnds
  <2>4. \A r \in Ids' : RunOK(runs'[r], knowledge'.revision)
    BY <1>0, <1>2 DEF IInv, Ids
  <2>. QED  BY <2>2, <2>3, <2>4 DEF IInv
<1>3. ASSUME ~Cancelled, NEW passed \in SUBSET runs[current.run].grid, Finish(passed), Ends
      PROVE  IInv'
  <2> DEFINE r == current.run  run == [runs[r] EXCEPT !.status = "completed", !.passed = passed]
  <2>1. r \in Ids /\ runs[r] \in Run /\ RunOK(runs[r], knowledge.revision) /\ runs[r].status = "running"
    BY <1>0, LoopRun
  <2>2. runs' = [runs EXCEPT ![r] = run]
    BY <1>3, <2>1 DEF Finish, Move, Ids
  <2>3. runs[r].cancel = FALSE /\ runs[r].seen # {} /\ passed \in SUBSET runs[r].grid
    BY <1>0, <1>3, <2>1, RunFields DEF Cancelled
  <2> HIDE DEF r
  <2>4. run \in Run
    BY <2>1, <2>3 DEF Run
  <2>5. RunOK(run, knowledge.revision)
    BY <2>1, <2>3 DEF RunOK, Run
  <2>. QED  BY <1>0, <1>3, <2>2, <2>4, <2>5, EndKeeps DEF r
<1>. QED  BY <1>1, <1>2, <1>3 DEF TargetEnds

LEMMA ProcessKeeps ==
    ASSUME IInv, Crash \/ Boot \/ RunFails
    PROVE  IInv'
<1>1. CASE RunFails
  BY <1>1, DropKeeps DEF RunFails
<1>2. CASE Crash
  <2>1. current' = Idle /\ current' \in [run : 0..MaxRuns, target : 0..Targets] /\ Idle' = Idle
    BY <1>2, QualityAssumption DEF Crash, Idle
  <2>2. boots' \in 0..MaxBoots
    BY <1>2, QualityAssumption DEF Crash, IInv, TypeOK
  <2>3. draining' \in BOOLEAN /\ up' \in BOOLEAN
    BY <1>2 DEF Crash
  <2>4. TypeOK'
    BY <1>2, <2>1, <2>2, <2>3 DEF Crash, IInv, TypeOK
  <2>. QED  BY <1>2, <2>1, <2>4 DEF Crash, IInv, Ids
<1>3. CASE Boot
  <2>1. runs' = Interrupted /\ UNCHANGED <<history, knowledge, draining, current, boots, edits>> /\ up' = TRUE
    BY <1>3 DEF Boot, env
  <2> DEFINE f == Interrupted
  <2>2. current = Idle
    BY <1>3 DEF Boot, IInv
  <2>3. ASSUME NEW r \in Ids PROVE f[r] \in Run /\ RunOK(f[r], knowledge.revision)
    <3>1. runs[r] \in Run /\ RunOK(runs[r], knowledge.revision)
      BY ARunIsTyped
    <3>2. CASE runs[r].status \in {"queued", "running"}
      <4> DEFINE run == [runs[r] EXCEPT !.status = "interrupted", !.seen = {}]
      <4>1. f[r] = run
        BY <3>2 DEF Interrupted
      <4>2. run \in Run
        BY <3>1 DEF Run
      <4>3. RunOK(run, knowledge.revision)
        BY <3>1 DEF Run, RunOK
      <4>. QED  BY <4>1, <4>2, <4>3
    <3>3. CASE runs[r].status \notin {"queued", "running"}
      BY <3>1, <3>3 DEF Interrupted
    <3>. QED  BY <3>2, <3>3
  <2>4. runs' = [r \in Ids |-> f[r]]
    BY <2>1 DEF Interrupted
  <2> HIDE DEF f
  <2>5. runs' \in Seq(Run) /\ Len(runs') = Len(runs) /\ Ids' = Ids /\ \A r \in Ids : runs'[r] = f[r]
    BY <2>3, <2>4, EachRun DEF IInv
  <2>6. TypeOK'
    BY <2>1, <2>5 DEF IInv, TypeOK
  <2>7. \A r \in Ids' : RunOK(runs'[r], knowledge'.revision)
    BY <2>1, <2>3, <2>5
  <2>8. current' = Idle'
    BY <2>1, <2>2 DEF Idle
  <2>. QED  BY <2>6, <2>7, <2>8 DEF IInv
<1>. QED  BY <1>1, <1>2, <1>3

-----------------------------------------------------------------------------
(* Theorems.                                                               *)

\* Whatever is cancelled, fails, is interrupted or switched, the invariant holds.
THEOREM Inductive == Spec => []IInv
<1>1. IInv /\ [Next]_vars => IInv'
  BY RequestsKeep, ReadsKeep, SettingsKeep, CancelKeeps, StartKeeps, SearchKeeps, TargetEndsKeeps,
     ProcessKeeps DEF Next
<1>. QED  BY <1>1, InitIInv, PTL DEF Spec

\* The values of the queue, the policies and the loop stay in their types.
THEOREM TypeTheorem == Spec => []TypeOK
<1>1. IInv => TypeOK
  BY DEF IInv
<1>. QED  BY <1>1, Inductive, PTL

\* A run whose cancellation was accepted never publishes results, for any
\* number of backends and whichever await the request met it in (cancelRun,
\* processNext).
THEOREM CancelTheorem == Spec => []CancelledHasNoResult
<1>1. IInv => CancelledHasNoResult
  BY DEF IInv, RunOK, CancelledHasNoResult
<1>. QED  BY <1>1, Inductive, PTL

\* What activateCandidate lets through was measured on the revision of the
\* knowledge that is there now, for any number of edits, runs and crashes
\* (createRun, checkPromotion).
THEOREM PromotionTheorem == Spec => PromotionMeasured
<1>1. ASSUME IInv, NEW r \in Ids, NEW p \in Policies, Activate(r, p)
      PROVE  /\ runs[r].seen # {}
             /\ \A k \in runs[r].seen : k.revision = knowledge.revision
  <2>1. runs[r].status = "completed" /\ runs[r].fp = knowledge
    BY <1>1 DEF Activate, Eligible, fingerprint
  <2>2. RunOK(runs[r], knowledge.revision) /\ knowledge.revision \in Nat
        /\ \A k \in runs[r].seen : k.revision \in Nat
    BY <1>1, ARunIsTyped, RunFields
  <2>. QED  BY <2>1, <2>2 DEF RunOK
<1>2. IInv => [\A r \in Ids, p \in Policies : Activate(r, p) =>
         /\ runs[r].seen # {}
         /\ \A k \in runs[r].seen : k.revision = knowledge.revision]_vars
  BY <1>1
<1>. QED  BY <1>2, Inductive, PTL DEF PromotionMeasured
=================================================================================
