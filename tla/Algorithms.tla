------------------------------- MODULE Algorithms -------------------------------
(***************************************************************************)
(* The parts that work on their own input, checked together: a behaviour   *)
(* carries out one task of one part, and the others stand still where they *)
(* begin.                                                                  *)
(***************************************************************************)
EXTENDS KnowledgeScan, Triage, LlmCall, Prompt, QualityEval, QualityData, OcrWorker, DocumentChunks

VARIABLE task

\* The variables of a part that has no task.
NoScan == ScanInit /\ content = EmptyContent /\ size = 1
NoIngest ==
    /\ phase = "none" /\ source = 0 /\ structured = Failure("none yet")
    /\ units = <<>> /\ dist = <<>> /\ groups = <<>> /\ mergeIndex = 1 /\ chunks = <<>>
NoQuestion ==
    /\ step = "none" /\ ask = 0 /\ db = 0 /\ stored = 0 /\ hits = <<>> /\ merged = 0
    /\ ranked = <<>> /\ decision = 0 /\ valid = 0
NoCompare == cases = <<>> /\ measured = <<>> /\ recommended = 0
NoPrompt == stage = "none" /\ history = <<>> /\ window = <<>> /\ system = {} /\ sent = <<>>
NoTriage == TriageInit /\ texts = [m \in Messages |-> {}] /\ intent = "none" /\ grounding = "none"
NoCall == CallInit /\ client.embed = 0
NoCurate == manifest = {} /\ booted = FALSE /\ versions = <<>> /\ writes = 0 /\ jobs = <<>>

Init ==
    \/ task = "scan" /\ ScanInit
       /\ NoIngest /\ NoQuestion /\ NoCompare /\ NoPrompt /\ NoTriage /\ OcrInit /\ NoCall /\ NoCurate
    \/ task = "ingest" /\ IngestInit
       /\ NoScan /\ NoQuestion /\ NoCompare /\ NoPrompt /\ NoTriage /\ OcrInit /\ NoCall /\ NoCurate
    \/ task = "answer" /\ AnswerInit
       /\ NoScan /\ NoIngest /\ NoCompare /\ NoPrompt /\ NoTriage /\ OcrInit /\ NoCall /\ NoCurate
    \/ task = "compare" /\ EvalInit
       /\ NoScan /\ NoIngest /\ NoQuestion /\ NoPrompt /\ NoTriage /\ OcrInit /\ NoCall /\ NoCurate
    \/ task = "prompt" /\ PromptInit
       /\ NoScan /\ NoIngest /\ NoQuestion /\ NoCompare /\ NoTriage /\ OcrInit /\ NoCall /\ NoCurate
    \/ task = "triage" /\ TriageInit
       /\ NoScan /\ NoIngest /\ NoQuestion /\ NoCompare /\ NoPrompt /\ OcrInit /\ NoCall /\ NoCurate
    \/ task = "extract" /\ OcrInit
       /\ NoScan /\ NoIngest /\ NoQuestion /\ NoCompare /\ NoPrompt /\ NoTriage /\ NoCall /\ NoCurate
    \/ task = "call" /\ CallInit
       /\ NoScan /\ NoIngest /\ NoQuestion /\ NoCompare /\ NoPrompt /\ NoTriage /\ OcrInit /\ NoCurate
    \/ task = "curate" /\ DataInit
       /\ NoScan /\ NoIngest /\ NoQuestion /\ NoCompare /\ NoPrompt /\ NoTriage /\ OcrInit /\ NoCall

Next ==
    /\ UNCHANGED task
    /\ \/ task = "scan" /\ ScanNext
          /\ UNCHANGED <<ingestVars, answerVars, evalVars, promptVars, triageVars, ocrVars, callVars, dataVars>>
       \/ task = "ingest" /\ IngestNext
          /\ UNCHANGED <<scanVars, answerVars, evalVars, promptVars, triageVars, ocrVars, callVars, dataVars>>
       \/ task = "answer" /\ AnswerNext
          /\ UNCHANGED <<scanVars, ingestVars, evalVars, promptVars, triageVars, ocrVars, callVars, dataVars>>
       \/ task = "compare" /\ EvalNext
          /\ UNCHANGED <<scanVars, ingestVars, answerVars, promptVars, triageVars, ocrVars, callVars, dataVars>>
       \/ task = "prompt" /\ PromptNext
          /\ UNCHANGED <<scanVars, ingestVars, answerVars, evalVars, triageVars, ocrVars, callVars, dataVars>>
       \/ task = "triage" /\ TriageNext
          /\ UNCHANGED <<scanVars, ingestVars, answerVars, evalVars, promptVars, ocrVars, callVars, dataVars>>
       \/ task = "extract" /\ OcrNext
          /\ UNCHANGED <<scanVars, ingestVars, answerVars, evalVars, promptVars, triageVars, callVars, dataVars>>
       \/ task = "call" /\ CallNext
          /\ UNCHANGED <<scanVars, ingestVars, answerVars, evalVars, promptVars, triageVars, ocrVars, dataVars>>
       \/ task = "curate" /\ DataNext
          /\ UNCHANGED <<scanVars, ingestVars, answerVars, evalVars, promptVars, triageVars, ocrVars, callVars>>

vars == <<task, scanVars, ingestVars, answerVars, evalVars, promptVars, triageVars, ocrVars, callVars, dataVars>>
Spec == Init /\ [][Next]_vars

-----------------------------------------------------------------------------
\* ScanIsComplete is that of KnowledgeScan, TriageAgrees of Triage,
\* ReplyIsOneAnswer of LlmCall, PromptAsksTheQuestion of Prompt and
\* IngestKeepsText of DocumentChunks.

\* Retrieval, retrieveCandidates to evaluateGrounding: an answer rests on text
\* that was active while it was sought, found by its words or by a vector of
\* that very text although entries are edited meanwhile; the best of every
\* source is ranked; an action asked for in so many words is refused; and no
\* entry is quoted while another one answers its question differently.
AnswerIsSound == AnswerIsCurrent /\ RankingSound /\ AnswerIsGrounded

\* QualityEval, compareCandidates: no other policy answers fewer of the cases
\* that must not be answered, and of those as safe none refuses less.
\* QualityData, createRun to processNext: what a policy is measured on is what
\* was published, whatever is edited, derived or released before its turn.
QualityIsMeasured == RecommendedIsSafest /\ MeasuredAsPublished

\* OcrWorker, extract and map_ppstructure_results: one extraction at a time,
\* also while one that timed out goes on, with no file left but by a forced
\* exit; and a result the client takes has every word of the scan once, in
\* order, on its page and under its title.
OcrIsFaithful == OcrSlotHeld /\ OcrResultFaithful
=============================================================================
