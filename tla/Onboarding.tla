------------------------------ MODULE Onboarding ------------------------------
(***************************************************************************)
(* The guided start (onboarding.service.ts, onboarding.repo.ts) and the    *)
(* pages that drive it (GettingStartedPage.tsx), while an administrator    *)
(* edits or deletes what the sample pack installs and the process may die. *)
(* Each statement of the repository is atomic; an installation gives up    *)
(* the event loop while the FAQ entries and the document are indexed.      *)
(***************************************************************************)
EXTENDS Naturals, Sequences

CONSTANTS
    Pages,       \* browser tabs
    MaxAnswers,  \* bound on the guided questions
    MaxUploads,  \* bound on the uploads of the sample document
    MaxCrashes

ASSUME OnboardingAssumption == MaxAnswers \in Nat /\ MaxUploads \in Nat /\ MaxCrashes \in Nat

VARIABLES
    state,       \* the installation_state row
    pack,        \* the sample_pack_installations row
    sampleFaq,   \* who owns the demo entries
    sampleDoc,   \* the row of the sample document
    installer,   \* where the installation is
    answers,     \* the assistant's messages of the run
    pages,       \* what each tab saw last, and the question it asked
    alive, crashes

onboardingVars == <<state, pack, sampleFaq, sampleDoc, installer, answers, pages, alive, crashes>>
process == <<alive, crashes>>

State == [status : {"not_started", "in_progress", "completed", "dismissed"}, run : BOOLEAN,
          answer : 0..MaxAnswers]
Pack == [status : {"none", "installing", "failed", "ready"}, document : 0..MaxUploads]
SampleDocument == [id : 0..MaxUploads, status : {"absent", "pending", "failed", "ready"}]
\* cites: the id of the sample document, 0 for none.
Message == [cites : 0..MaxUploads, sufficient : BOOLEAN]
Overview == [status : {"not_started", "in_progress", "completed", "dismissed"}, run : BOOLEAN, answer : 0..MaxAnswers, ready : BOOLEAN]

Seen == [status |-> state.status, run |-> state.run, answer |-> state.answer,
         ready |-> pack.status = "ready"]

\* A fresh installation; a legacy one starts in the same way.
OnboardingInit ==
    /\ state = [status |-> "not_started", run |-> FALSE, answer |-> 0]
    /\ pack = [status |-> "none", document |-> 0]
    /\ sampleFaq = "nobody"
    /\ sampleDoc = [id |-> 0, status |-> "absent"]
    /\ installer = "none"
    /\ answers = <<>>
    /\ pages = [p \in Pages |-> [seen |-> Seen, asked |-> 0]]
    /\ alive = TRUE /\ crashes = 0

-----------------------------------------------------------------------------
\* Nothing else runs between the last statements of an installation.
Yielded == alive /\ installer \notin {"saving", "finishing"}

(* The page: a button is enabled by what the tab saw last, and an answer   *)
(* replaces it; a refused call leaves it.                                  *)

Shows(p, row, packRow) == pages' = [pages EXCEPT ![p].seen =
    [status |-> row.status, run |-> row.run, answer |-> row.answer, ready |-> packRow.status = "ready"]]

Load(p) ==
    /\ Yielded /\ pages[p].seen # Seen
    /\ Shows(p, state, pack)
    /\ UNCHANGED <<state, pack, sampleFaq, sampleDoc, installer, answers, process>>

\* A run keeps its id through dismissals.
StartRun(p) ==
    /\ Yielded /\ pages[p].seen.status \notin {"in_progress", "completed"}
    /\ state' = IF state.status = "completed" THEN state
                ELSE [state EXCEPT !.status = "in_progress", !.run = TRUE]
    /\ Shows(p, state', pack)
    /\ UNCHANGED <<pack, sampleFaq, sampleDoc, installer, answers, process>>

\* askQuestion: the chat refuses a run that is not active (assertActiveRun).
\* Otherwise the answer cites the sample document, or not.
Ask(p) ==
    /\ Yielded /\ pages[p].seen.ready /\ pages[p].seen.run /\ pages[p].seen.answer = 0
    /\ pages[p].asked = 0 /\ Len(answers) < MaxAnswers
    /\ state.status = "in_progress"
    /\ \E cited \in {0} \cup {d \in {sampleDoc.id} : sampleDoc.status = "ready"}, ok \in BOOLEAN :
         answers' = Append(answers, [cites |-> cited, sufficient |-> ok])
    /\ pages' = [pages EXCEPT ![p].asked = Len(answers) + 1]
    /\ UNCHANGED <<state, pack, sampleFaq, sampleDoc, installer, process>>

\* Mutant: any answer of the run counts.
AnyAnswer(m) == TRUE

Grounded(m) == m.sufficient /\ m.cites # 0 /\ m.cites = pack.document

\* recordGuidedAnswer: the first answer stays.
RecordAnswer(p) ==
    /\ Yielded /\ pages[p].asked # 0
    /\ IF state.status = "in_progress" /\ pack.status = "ready" /\ Grounded(answers[pages[p].asked])
       THEN /\ state' = [state EXCEPT !.answer = IF @ = 0 THEN pages[p].asked ELSE @]
            /\ pages' = [pages EXCEPT ![p] =
                 [seen |-> [Seen EXCEPT !.answer = state'.answer], asked |-> 0]]
       ELSE pages' = [pages EXCEPT ![p].asked = 0] /\ UNCHANGED state
    /\ UNCHANGED <<pack, sampleFaq, sampleDoc, installer, answers, process>>

\* finish, evidenceReviewed.
Review(p) ==
    /\ Yielded /\ pages[p].seen.answer # 0 /\ pages[p].seen.status # "completed"
    /\ state.answer = pages[p].seen.answer
    /\ state' = [state EXCEPT !.status = "completed"]
    /\ Shows(p, state', pack)
    /\ UNCHANGED <<pack, sampleFaq, sampleDoc, installer, answers, process>>

\* The page leaves: the tab sees the onboarding again when it comes back.
Dismiss(p) ==
    /\ Yielded
    /\ state' = IF state.status = "completed" THEN state ELSE [state EXCEPT !.status = "dismissed"]
    /\ Shows(p, state', pack)
    /\ UNCHANGED <<pack, sampleFaq, sampleDoc, installer, answers, process>>

-----------------------------------------------------------------------------
(* installSamplePack.                                                      *)

\* markPackFailed; the error reaches the page, which keeps what it saw.
InstallFails == pack' = [pack EXCEPT !.status = "failed"] /\ installer' = "none"

\* claimPack and the transaction on the demo entries.
Install(p) ==
    /\ Yielded /\ pages[p].seen.status = "in_progress" /\ ~pages[p].seen.ready
    /\ state.status = "in_progress"
    /\ IF pack.status = "ready"
       THEN Shows(p, state, pack) /\ UNCHANGED <<pack, sampleFaq, installer>>
       ELSE /\ pack.status # "installing"
            /\ IF sampleFaq = "admin"
               THEN InstallFails /\ UNCHANGED sampleFaq
               ELSE /\ pack' = [pack EXCEPT !.status = "installing"]
                    /\ sampleFaq' = "pack" /\ installer' = "indexing"
            /\ UNCHANGED pages
    /\ UNCHANGED <<state, sampleDoc, answers, process>>

\* resolveSampleDocument, once the entries are indexed: the document of the
\* row, or the one with the same content, or an upload; a failed one is retried.
\* One left pending by a crash is neither ready nor failed.
ResolveDocument ==
    /\ alive /\ installer = "indexing"
    /\ LET ingest == installer' = "ingesting" /\ UNCHANGED pack IN
       \/ InstallFails /\ UNCHANGED sampleDoc
       \/ /\ pack.document # 0 => pack.document = sampleDoc.id /\ sampleDoc.status # "absent"
          /\ \/ /\ sampleDoc.status = "absent" /\ sampleDoc.id < MaxUploads
                /\ sampleDoc' = [id |-> sampleDoc.id + 1, status |-> "pending"]
                /\ ingest
             \/ /\ sampleDoc.status = "failed"
                /\ sampleDoc' = [sampleDoc EXCEPT !.status = "pending"]
                /\ ingest
             \/ /\ sampleDoc.status = "ready" /\ installer' = "saving"
                /\ UNCHANGED <<pack, sampleDoc>>
    /\ UNCHANGED <<state, sampleFaq, answers, pages, process>>

\* The upload or the retry returns the document, unless it was deleted.
Ingested ==
    /\ alive /\ installer = "ingesting"
    /\ \/ /\ sampleDoc.status = "pending"
          /\ sampleDoc' = [sampleDoc EXCEPT !.status = "ready"]
          /\ installer' = "saving" /\ UNCHANGED pack
       \/ /\ sampleDoc' = IF sampleDoc.status = "pending"
                          THEN [sampleDoc EXCEPT !.status = "failed"] ELSE sampleDoc
          /\ InstallFails
    /\ UNCHANGED <<state, sampleFaq, answers, pages, process>>

\* saveDocumentId and markPackReady follow each other; the process may die
\* between them.
SaveDocument ==
    /\ alive /\ installer = "saving"
    /\ pack' = [pack EXCEPT !.document = sampleDoc.id]
    /\ installer' = "finishing"
    /\ UNCHANGED <<state, sampleFaq, sampleDoc, answers, pages, process>>
MarkReady ==
    /\ alive /\ installer = "finishing"
    /\ pack' = [pack EXCEPT !.status = "ready"] /\ installer' = "none"
    /\ UNCHANGED <<state, sampleFaq, sampleDoc, answers, pages, process>>

-----------------------------------------------------------------------------
(* An administrator, and the process.                                      *)

EditFaq ==
    /\ Yielded /\ sampleFaq # "nobody"
    /\ sampleFaq' \in {"admin", "nobody"} /\ sampleFaq' # sampleFaq
    /\ UNCHANGED <<state, pack, sampleDoc, installer, answers, pages, process>>

DeleteDocument ==
    /\ Yielded /\ sampleDoc.status # "absent"
    /\ sampleDoc' = [sampleDoc EXCEPT !.status = "absent"]
    /\ UNCHANGED <<state, pack, sampleFaq, installer, answers, pages, process>>

Die ==
    /\ alive /\ crashes < MaxCrashes
    /\ alive' = FALSE /\ crashes' = crashes + 1
    /\ installer' = "none" /\ pages' = [p \in Pages |-> [pages[p] EXCEPT !.asked = 0]]
    /\ UNCHANGED <<state, pack, sampleFaq, sampleDoc, answers>>

\* Mutant: an installation that was interrupted stays so.
LeftInstalling(row) == row

\* createTables: an interrupted installation has failed.
Interrupted(row) == IF row.status = "installing" THEN [row EXCEPT !.status = "failed"] ELSE row

Boot ==
    /\ ~alive /\ alive' = TRUE
    /\ pack' = Interrupted(pack)
    /\ UNCHANGED <<state, sampleFaq, sampleDoc, installer, answers, pages, crashes>>

Installs == ResolveDocument \/ Ingested \/ SaveDocument \/ MarkReady
OnboardingNext ==
    \/ \E p \in Pages : \/ Load(p) \/ StartRun(p) \/ Ask(p) \/ RecordAnswer(p) \/ Review(p)
                        \/ Dismiss(p) \/ Install(p)
    \/ Installs \/ EditFaq \/ DeleteDocument \/ Die \/ Boot

OnboardingSpec == OnboardingInit /\ [][OnboardingNext]_onboardingVars

-----------------------------------------------------------------------------
(* Properties.                                                             *)

OnboardingTypeOK ==
    /\ state \in State /\ pack \in Pack /\ sampleDoc \in SampleDocument
    /\ sampleFaq \in {"nobody", "pack", "admin"}
    /\ installer \in {"none", "indexing", "ingesting", "saving", "finishing"}
    /\ answers \in Seq(Message) /\ alive \in BOOLEAN /\ crashes \in 0..MaxCrashes
    /\ \A p \in Pages : pages[p].asked \in 0..MaxAnswers

\* A completed onboarding rests on an answer that was sufficient and cited the
\* document of the installed pack, whatever was retried, dismissed or deleted
\* in between (recordGuidedAnswer, evidenceReviewed).
CompletedIsProven ==
    state.status = "completed" =>
        /\ pack.status = "ready" /\ state.answer # 0
        /\ answers[state.answer].sufficient /\ answers[state.answer].cites = pack.document

\* An installation that is under way has someone at work on it: a process that
\* died under one does not leave a pack that no administrator can claim again
\* (createTables, claimPack), and one that fails says so (markPackFailed).
InstallIsWorked == alive /\ installer = "none" => pack.status # "installing"
=============================================================================
