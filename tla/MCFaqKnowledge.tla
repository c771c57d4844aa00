---------------------------- MODULE MCFaqKnowledge ----------------------------
(***************************************************************************)
(* FaqKnowledge for TLC: entries, and operations under way, are            *)
(* interchangeable, and every property is an invariant.                    *)
(***************************************************************************)
EXTENDS FaqKnowledge, TLC

Symmetry == Permutations(Faqs) \cup Permutations(Jobs)
=============================================================================
