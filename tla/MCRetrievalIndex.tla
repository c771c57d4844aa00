-------------------------- MODULE MCRetrievalIndex --------------------------
(***************************************************************************)
(* Values of the constants of RetrievalIndex for TLC.                      *)
(***************************************************************************)
EXTENDS RetrievalIndex

\* The two operations overlap; a single one is "boot" and every request after.
OneSlot  == {"boot"}
TwoSlots == {"boot", "admin"}

NoToggles == {}
AllDocs   == Docs
=============================================================================
