------------------------------ MODULE QualityData ------------------------------
(***************************************************************************)
(* Data sets of test cases and the runs that use them (quality-lab         *)
(* .service.ts, quality-lab.repo.ts): drafts are edited, published and     *)
(* derived from; a run names versions when it is created and reads their   *)
(* cases when its turn comes.                                              *)
(*                                                                         *)
(* Version 1 is the built-in one, whose cases come with the program.  What *)
(* a version holds is a function from the ids of its cases to their texts. *)
(***************************************************************************)
EXTENDS Integers, Sequences, FiniteSets, FiniteSetsExt, Functions

CONSTANTS
    Texts,        \* what a case can say
    Manifests,    \* the built-in cases of one release or another: sets of ids
    CaseLimit,    \* 500 in the code
    MaxVersions, MaxWrites, MaxJobs   \* bounds

VARIABLES
    manifest,     \* the built-in cases of the program that runs
    booted,       \* FALSE: the start was refused
    versions,     \* sequence of [status, held, hash]
    writes,       \* writes so far, which number the ids of new cases
    jobs          \* sequence of [of, total, status, read]: read is <<>> before the cases are

dataVars == <<manifest, booted, versions, writes, jobs>>

Builtin == 1
Released(ids) == [id \in ids |-> <<"released", id>>]
Said(held) == {held[id] : id \in DOMAIN held}
NoHash == <<>>

\* hashCases: the texts and how often each is there, without the ids.
HashOf(held) == [text \in Said(held) |-> Cardinality({id \in DOMAIN held : held[id] = text})]

DataInit ==
    /\ manifest \in Manifests
    /\ booted = TRUE
    /\ versions = <<[status |-> "published", held |-> Released(manifest), hash |-> HashOf(Released(manifest))]>>
    /\ writes = 0 /\ jobs = <<>>

Put(held, id, text) == [k \in DOMAIN held \cup {id} |-> IF k = id THEN text ELSE held[k]]
IsDraft(v) == booted /\ versions[v].status = "draft"
Write(v, held) ==
    /\ writes < MaxWrites /\ writes' = writes + 1
    /\ versions' = [versions EXCEPT ![v].held = held]
    /\ UNCHANGED <<manifest, booted, jobs>>

CreateDataset ==
    /\ booted /\ Len(versions) < MaxVersions
    /\ versions' = Append(versions, [status |-> "draft", held |-> <<>>, hash |-> NoHash])
    /\ UNCHANGED <<manifest, booted, writes, jobs>>

\* A new case, or one of the version under its id.
SaveCase(v) ==
    /\ IsDraft(v)
    /\ \E text \in Texts :
          \/ /\ Cardinality(DOMAIN versions[v].held) < CaseLimit
             /\ Write(v, Put(versions[v].held, <<writes, 1>>, text))
          \/ \E id \in DOMAIN versions[v].held : Write(v, Put(versions[v].held, id, text))

\* replaceCases
ImportCases(v) ==
    /\ IsDraft(v)
    /\ \E n \in 1 .. CaseLimit : \E said \in [1 .. n -> Texts] :
          Write(v, [id \in {<<writes, i>> : i \in 1 .. n} |-> said[id[2]]])

PublishVersion(v) ==
    /\ IsDraft(v) /\ versions[v].held # <<>>
    /\ versions' = [versions EXCEPT ![v].status = "published", ![v].hash = HashOf(versions[v].held)]
    /\ UNCHANGED <<manifest, booted, writes, jobs>>

\* deriveVersion copies a published version of a custom data set under new ids.
DeriveVersion(v) ==
    /\ booted /\ v # Builtin /\ versions[v].status = "published"
    /\ Len(versions) < MaxVersions
    /\ LET source == versions[v].held
           copy == [id \in {<<Len(versions), "copy", k>> : k \in DOMAIN source} |-> source[id[3]]]
       IN  versions' = Append(versions, [status |-> "draft", held |-> copy, hash |-> NoHash])
    /\ UNCHANGED <<manifest, booted, writes, jobs>>

-----------------------------------------------------------------------------
(* Runs.                                                                    *)

Total(of) == SumFunction([v \in of |-> Cardinality(DOMAIN versions[v].held)])

\* Mutant: drafts can be evaluated.
AnyVersion(v) == TRUE

Evaluable(v) == versions[v].status = "published"

\* createRun; a version that is named twice counts once.
CreateJob ==
    /\ booted /\ Len(jobs) < MaxJobs
    /\ \E of \in (SUBSET DOMAIN versions) \ {{}} :
          /\ \A v \in of : Evaluable(v)
          /\ Total(of) \in 1 .. CaseLimit
          /\ jobs' = Append(jobs, [of |-> of, total |-> Total(of), status |-> "queued", read |-> <<>>])
    /\ UNCHANGED <<manifest, booted, versions, writes>>

Queued == {j \in DOMAIN jobs : jobs[j].status = "queued"}

\* processNext takes the oldest run and reads all its cases.
ReadCases ==
    /\ booted /\ Queued # {}
    /\ LET j == Min(Queued)
       IN  jobs' = [jobs EXCEPT ![j].status = "read", ![j].read = [v \in jobs[j].of |-> versions[v].held]]
    /\ UNCHANGED <<manifest, booted, versions, writes>>

\* The program starts again, maybe as another release: queued runs are
\* interrupted; a built-in version whose cases differ refuses the start, and
\* one whose cases are the same misses none (bootstrapBuiltinDataset).
Restart ==
    /\ \E m \in Manifests :
          /\ manifest' = m
          /\ booted' = (HashOf(Released(m)) = versions[Builtin].hash)
          /\ versions' = IF booted' THEN [versions EXCEPT ![Builtin].held = Released(m \cup DOMAIN @)] ELSE versions
          /\ jobs' = IF booted' THEN [j \in DOMAIN jobs |-> IF j \in Queued THEN [jobs[j] EXCEPT !.status = "interrupted"]
                                                            ELSE jobs[j]] ELSE jobs
    /\ UNCHANGED writes

DataNext ==
    \/ CreateDataset \/ CreateJob \/ ReadCases \/ Restart
    \/ \E v \in DOMAIN versions : SaveCase(v) \/ ImportCases(v) \/ PublishVersion(v) \/ DeriveVersion(v)

-----------------------------------------------------------------------------
\* A run evaluates, when its turn comes, the cases its versions were published
\* with, as many as were counted when it was created, whatever was edited,
\* derived or released in between (createRun, processNext, saveCase).
MeasuredAsPublished ==
    /\ \A v \in DOMAIN versions : versions[v].status = "published" => HashOf(versions[v].held) = versions[v].hash
    /\ \A j \in DOMAIN jobs : jobs[j].status = "read" =>
          /\ \A v \in jobs[j].of : HashOf(jobs[j].read[v]) = versions[v].hash
          /\ SumFunction([v \in jobs[j].of |-> Cardinality(DOMAIN jobs[j].read[v])]) = jobs[j].total
=============================================================================
