------------------------------ MODULE MCPowerRail ------------------------------
(* A rail for TLC: states off (1, the safe one), on (2), and one nobody      *)
(* leads to (3).  The chip has two operations for on, in two nodes, the      *)
(* second a block write, and one for off.                                    *)
EXTENDS PowerRail, StagePack

(* What the task reads of a stage is what was declared: PackingAssumption.   *)
Stage(d, v) == [dev |-> d, state |-> v]
Path(i, t, ign, st) == [initial |-> i, target |-> t, ignore |-> ign, stages |-> st]

MCStates == {1, 2, 3}
MCTransitions ==
  << Path(1, 2, FALSE, << Stage(Reg, 1), Stage(Cfg, 1), Stage(Switch, 1) >>),
     Path(2, 1, TRUE, << Stage(Switch, 0), Stage(Cfg, 0), Stage(Reg, 0) >>) >>
MCFirst ==
  [s \in MCStates \X MCStates |-> IF s = <<1, 2>> THEN 1 ELSE IF s = <<2, 1>> THEN 2 ELSE 0]
MCEntries == [transition : 0 .. 2, stage : 0 .. 4, spec : Devs]
MCExpected == [s \in MCStates |-> [d \in Devs |-> IF s = 2 THEN 1 ELSE 0]]
MCRequests == {2, 3}
OnRequests == {1, 2}

OnWorkOffNone == [on \in BOOLEAN |-> IF on THEN "work" ELSE "none"]

Op(cmd, block, data) == [cmd |-> cmd, block |-> block, data |-> data]
MCNodes ==
  << [state |-> 1, ops |-> << Op(<<7>>, FALSE, <<1, 2>>) >>],
     [state |-> 0, ops |-> << Op(<<8>>, FALSE, << >>) >>],
     [state |-> 1, ops |-> << Op(<<9>>, TRUE, <<3>>) >>] >>

(* The stages are declared as the theorems about PoweredFirst and about rest *)
(* require.                                                                  *)
ASSUME MCStagesAssumption == StagesPowered /\ StagesComplete
=============================================================================
