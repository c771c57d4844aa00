---------------------------- MODULE IndexJobRepo ----------------------------
(***************************************************************************)
(* The retrieval_index_jobs table and the statements of                    *)
(* RetrievalIndexJobRepo.  A job and its versioned collection have the     *)
(* same number, the order of creation.  Each operator is one statement, or *)
(* one transaction, over the whole table t; a transaction that throws is   *)
(* rolled back, so each has a Can... operator that says when it commits.   *)
(***************************************************************************)
EXTENDS IndexKnowledge

CONSTANT MaxJobs      \* bound on the rows of the table

ASSUME MaxJobsAssumption == MaxJobs \in Nat

Jobs         == 1 .. MaxJobs
NoCollection == 0
Collections  == Jobs \cup {NoCollection}

\* "none": the row does not exist yet.
Statuses == {"none", "queued", "running", "interrupted", "ready", "active",
             "stale", "failed", "rolled_back"}
Intents  == {"none", "activate", "rollback"}

Row == [status     : Statuses,
        fp         : Content,       \* knowledge_fingerprint
        checkpoint : Nat,           \* batch_checkpoint = completed_count
        prev       : Collections,   \* previous_collection
        intent     : Intents,       \* activation_intent
        expected   : Collections]   \* activation_expected_collection

JobTable == [Jobs -> Row]

NoRow == [status |-> "none", fp |-> EmptyContent, checkpoint |-> 0,
          prev |-> NoCollection, intent |-> "none", expected |-> NoCollection]

Existing(t)      == {j \in Jobs : t[j].status # "none"}
WithStatus(t, S) == {j \in Jobs : t[j].status \in S}
First1(S)        == CHOOSE j \in S : \A x \in S : j <= x

-----------------------------------------------------------------------------
(* Building. *)

Create(t, j, content) ==
    [t EXCEPT ![j] = [NoRow EXCEPT !.status = "queued", !.fp = content]]

\* Jobs findReusable may return; it takes the newest.
Reusable(t, content) ==
    {j \in WithStatus(t, {"queued", "running", "interrupted", "ready", "active"}) :
        t[j].fp = content}

Pending(t) == WithStatus(t, {"queued", "interrupted"})

\* Interrupted builds go before queued ones, older before newer.
NextPending(t) ==
    LET interrupted == WithStatus(t, {"interrupted"})
    IN  First1(IF interrupted # {} THEN interrupted ELSE Pending(t))

SetStatus(t, j, from, to) ==
    IF t[j].status \in from THEN [t EXCEPT ![j].status = to] ELSE t

MarkRunning(t, j) == SetStatus(t, j, {"queued", "interrupted"}, "running")
MarkReady(t, j)   == SetStatus(t, j, {"running"}, "ready")
MarkFailed(t, j)  == SetStatus(t, j, {"queued", "running", "interrupted"}, "failed")
MarkStale(t, j)   ==
    SetStatus(t, j, {"queued", "running", "interrupted", "ready"}, "stale")

SaveCheckpoint(t, j, n) ==
    IF t[j].status = "running" THEN [t EXCEPT ![j].checkpoint = n] ELSE t

\* Mutant: startup leaves the rows alone.
InterruptNothing(t) == t

InterruptRunning(t) ==
    [j \in Jobs |-> IF t[j].status = "running"
                    THEN [t[j] EXCEPT !.status = "interrupted"] ELSE t[j]]

-----------------------------------------------------------------------------
(* Activation and rollback: an intent is stored before the alias moves and *)
(* cleared by the transaction that records the outcome.                    *)

WithIntent(t) == {j \in Jobs : t[j].intent # "none"}

NoOtherIntent(t, j) == WithIntent(t) \subseteq {j}

CanPrepareActivation(t, j) == NoOtherIntent(t, j) /\ t[j].status = "ready"

\* Mutant: the expected collection is not stored.
PrepareUnexpected(t, j, current) ==
    [t EXCEPT ![j].prev = current, ![j].intent = "activate"]

PrepareActivation(t, j, current) ==
    [t EXCEPT ![j].prev = current, ![j].intent = "activate",
              ![j].expected = current]

CanCompleteActivation(t, j) ==
    t[j].status \in {"ready", "stale"} /\ t[j].intent = "activate"

CompleteActivation(t, j) ==
    [i \in Jobs |->
        IF i = j THEN [t[i] EXCEPT !.status = "active", !.intent = "none",
                                   !.expected = NoCollection]
        ELSE IF t[i].status = "active" THEN [t[i] EXCEPT !.status = "rolled_back"]
        ELSE t[i]]

CanPrepareRollback(t, j) ==
    NoOtherIntent(t, j) /\ t[j].status = "active" /\ t[j].prev # NoCollection

PrepareRollback(t, j) ==
    [t EXCEPT ![j].intent = "rollback", ![j].expected = j]

CanCompleteRollback(t, source, target) ==
    /\ t[source].status = "active" /\ t[source].intent = "rollback"
    /\ target # source => t[target].status = "rolled_back"

CompleteRollback(t, source, target) ==
    [t EXCEPT ![source].status = "rolled_back", ![source].intent = "none",
              ![source].expected = NoCollection,
              ![target].status = "active"]

\* A collection whose build was verified: its job is active or was, or is
\* ready and on its way to become active.
Verified(t, c) ==
    \/ t[c].status \in {"active", "rolled_back"}
    \/ t[c].status = "ready" /\ t[c].intent = "activate"

\* The collection the alias is to name when the intent of j is carried out.
IntentTarget(t, j) ==
    IF t[j].intent = "activate" THEN j ELSE t[j].prev
=============================================================================
