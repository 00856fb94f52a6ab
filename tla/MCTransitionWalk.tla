--------------------------- MODULE MCTransitionWalk ---------------------------
(* The tables for TLC.  All tables of at most MaxTransitions entries over    *)
(* four states reach routes of three transitions and a side branch; the      *)
(* start and the target can be fixed, the set being closed under renaming.   *)
EXTENDS TransitionWalk

CONSTANT MaxTransitions

MCStates == 0 .. 3

Edges == {Edge(p[1], p[2]) : p \in {q \in MCStates \X MCStates : q[1] # q[2]}}

AllTables == UNION {[1 .. n -> Edges] : n \in 0 .. MaxTransitions}
===============================================================================
