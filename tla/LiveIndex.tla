------------------------------ MODULE LiveIndex ------------------------------
(***************************************************************************)
(* What Retrieval Operations promises about the alias when its operations  *)
(* do not overlap: one switch at a time is intended, the live collection   *)
(* changes only to the intended one, and only a switch that happened is    *)
(* recorded; with nothing intended, the record is what customers are       *)
(* served from.                                                            *)
(***************************************************************************)
EXTENDS Integers

CONSTANTS Collection, Nothing

VARIABLES live,      \* the collection customer searches use
          recorded,  \* the collection SQLite says is active
          goal       \* the collection of the pending intent

Init == live = Nothing /\ recorded = Nothing /\ goal = Nothing

Intend(c) ==
    /\ goal = Nothing /\ live = recorded /\ c # live
    /\ goal' = c
    /\ UNCHANGED <<live, recorded>>

Switch ==
    /\ goal # Nothing /\ live # goal
    /\ live' = goal
    /\ UNCHANGED <<recorded, goal>>

Record ==
    /\ goal # Nothing /\ live = goal
    /\ recorded' = goal /\ goal' = Nothing
    /\ UNCHANGED live

Next == Switch \/ Record \/ \E c \in Collection : Intend(c)
Spec == Init /\ [][Next]_<<live, recorded, goal>>
=============================================================================
