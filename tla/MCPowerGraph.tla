----------------------------- MODULE MCPowerGraph -----------------------------
(* Graphs for TLC.  State 1 is the safe state.  Rail: off, on, turbo, with a *)
(* common rail switched before the load and after it; the way back to the    *)
(* safe state ignores faults, as a power down does, and the first hop out of *)
(* turbo leaves the common rail alone, whatever has become of it.            *)
EXTENDS PowerGraph, TransitionSearch, StagePack

(* What the task reads of a stage is what was declared: PackingAssumption.   *)
Stage(d, v) == [dev |-> d, state |-> v]
Path(i, t, ign, st) == [initial |-> i, target |-> t, ignore |-> ign, stages |-> st]

MCDevs == {1, 2}
MCDevStates == {0, 1}
MCStates == {1, 2, 3}

Rail ==
  << Path(1, 2, FALSE, << Stage(1, 1), Stage(2, 1) >>),
     Path(2, 1, TRUE, << Stage(2, 0), Stage(1, 0) >>),
     Path(2, 3, FALSE, << Stage(2, 0) >>),
     Path(3, 2, FALSE, << Stage(2, 1) >>) >>

RailEntries == [transition : 0 .. 4, stage : 0 .. 3, spec : MCDevs]

(* The answers of the search, from each state (row) to each, written out for *)
(* TLC and compared with the search once.                                    *)
RailAnswers == << <<1, 1, 1>>, <<2, 2, 3>>, <<4, 4, 4>> >>
RailSearch == [s \in MCStates \X MCStates |-> RailAnswers[s[1]][s[2]]]
ASSUME RailAnswersAssumption == RailSearch = SearchTable(Rail, MCStates)

(* Mixed: as Rail, with a state 4 no transition leads to, a way to state 3   *)
(* that cycles device 2, and a way to state 3 over device 3, which cannot be *)
(* read and has no callback.                                                 *)
Mixed ==
  << Path(1, 2, FALSE, << Stage(1, 1), Stage(2, 1) >>),
     Path(2, 1, TRUE, << Stage(2, 0), Stage(1, 0) >>),
     Path(2, 3, FALSE, << Stage(2, 0), Stage(1, 0), Stage(2, 1) >>),
     Path(3, 1, TRUE, << Stage(2, 0), Stage(1, 0) >>),
     Path(1, 3, FALSE, << Stage(1, 1), Stage(3, 1) >>) >>

MixedDevs == {1, 2, 3}
MixedStates == {1, 2, 3, 4}
MixedAnswers == << <<1, 1, 5, 0>>, <<2, 2, 3, 0>>, <<4, 4, 4, 0>>, <<0, 0, 0, 0>> >>
MixedSearch == [s \in MixedStates \X MixedStates |-> MixedAnswers[s[1]][s[2]]]
ASSUME MixedAnswersAssumption == MixedSearch = SearchTable(Mixed, MixedStates)

MCEntries == [transition : 0 .. 5, stage : 0 .. 4, spec : MixedDevs]

MCRequests == {1, 2, 3}
SafeRequests == {1, 2}
UnsafeRequests == {2, 3}       \* never the safe state
MixedRequests == {2, 3, 4}
===============================================================================
