------------------------------ MODULE MCAlgorithms ------------------------------
(***************************************************************************)
(* The inputs that Algorithms is checked with.                             *)
(***************************************************************************)
EXTENDS Algorithms

Files == INSTANCE SampleFiles
Questions == INSTANCE SampleQuestions

MCSentences == Files!SampleSentences
MCClean == Files!SampleClean
MCBreaks == Files!SampleBreaks
MCSources == Files!SampleSources
MCScans == Files!SampleScans
MCDefects == Files!SampleDefects
MCRequests == DOMAIN MCScans
MCStores == Questions!SampleStores
MCAsks == Questions!SampleAsks
MCCaseSets == Questions!SampleCaseSets
MCPolicies == Questions!SamplePolicies
MCHistories == Questions!SampleHistories
MCFeatures == Questions!SampleFeatures
MCDistances == 0 .. 2
=============================================================================
