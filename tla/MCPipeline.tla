----------------------------- MODULE MCPipeline -----------------------------
EXTENDS Pipeline

(* Weights 1 and 1/2.                                                       *)
OneAndHalf == [i \in 0 .. 1 |-> 2 - i]

(* q = x0 / x1; result 0 = max(q, x0); result 1 = x0 + x1                    *)
Quotients ==
  << [op |-> "div", args |-> <<Var("x0"), Var("x1")>>, name |-> "q", id |-> NoId],
     [op |-> "max", args |-> <<Var("q"), Var("x0")>>, name |-> "r", id |-> 0],
     [op |-> "add", args |-> <<Var("x0"), Var("x1")>>, name |-> "s", id |-> 1] >>

(* Source 0 has three values and fails, source 1 has two and is late.        *)
Ok(v) == [rc |-> "ok", val |-> v]
Answers ==
  [i \in 0 .. 1 |-> IF i = 0 THEN {Ok(0), Ok(1), Ok(2), [rc |-> "fault", val |-> 0]}
                    ELSE {Ok(0), Ok(2), [rc |-> "again", val |-> 0]}]

(* The weights suit the limits, as the theorem about NoFalseAlarm requires.  *)
ASSUME MCWeightsAssumption == WeightsFit
=============================================================================
