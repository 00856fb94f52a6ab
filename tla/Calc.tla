-------------------------------- MODULE Calc --------------------------------
(***************************************************************************)
(* The calculator of drivers/value_calc/calc.c: a list of operations over  *)
(* readings, constants and named results, in the order of the devicetree.  *)
(* All scales are 1.                                                       *)
(***************************************************************************)
EXTENDS ValueType, Sequences

CONSTANTS
  Readable,    \* value-names, the names of the readings
  Program,     \* the operations, [op, args, name, id]
  NumResults,  \* cfg->num_results
  CalcOn       \* initial-active

(* An argument is a variable, named, or a constant.  An operation has a name *)
(* for later operations or the identifier of a result, or both.              *)
Var(name) == [name |-> name, const |-> 0]
Const(v) == [name |-> "", const |-> v]
NoId == -1

Results == 0 .. NumResults - 1
Op1 == {"scl", "neg", "inv"}
Op2 == {"add", "sub", "mul", "div", "min", "max"}

Operation ==
  [op : Op1 \cup Op2, args : Seq([name : STRING, const : Int]), name : STRING,
   id : Results \cup {NoId}]

(* The names before operation k.  The generated function declares a variable *)
(* for each, so no two are equal; one that is used before its operation      *)
(* would be read uninitialised.                                              *)
NamesBefore(k) == Readable \cup {Program[j].name : j \in 1 .. k - 1}

ASSUME CalcAssumption ==
  /\ NumResults \in Nat /\ CalcOn \in BOOLEAN
  /\ Readable \subseteq STRING /\ "" \notin Readable
  /\ Program \in Seq(Operation)
  /\ \A k \in 1 .. Len(Program) :
       /\ Len(Program[k].args) = IF Program[k].op \in Op1 THEN 1 ELSE 2
       /\ \A i \in DOMAIN Program[k].args : Program[k].args[i].name \in {""} \cup NamesBefore(k)
       /\ Program[k].name = "" \/ Program[k].name \notin NamesBefore(k)

CalcData == [active |-> CalcOn, ready |-> {}, results |-> [r \in Results |-> 0]]

(* _CALC_OP_IS_SAFE: inv and div of zero are not.                            *)
Safe(op, vals) == op \in {"inv", "div"} => vals[Len(vals)] # 0

(* _CALC_OP *)
Apply(op, vals) ==
  CASE op = "scl" -> vals[1]
    [] op = "neg" -> -vals[1]
    [] op = "inv" -> Quotient(1, vals[1])
    [] op = "add" -> vals[1] + vals[2]
    [] op = "sub" -> vals[1] - vals[2]
    [] op = "mul" -> vals[1] * vals[2]
    [] op = "div" -> Quotient(vals[1], vals[2])
    [] op = "min" -> IF vals[1] < vals[2] THEN vals[1] ELSE vals[2]
    [] op = "max" -> IF vals[1] > vals[2] THEN vals[1] ELSE vals[2]

(* The variables of calc_func: name -> [ready, val].                         *)
ValueOf(vars_, arg) == IF arg.name = "" THEN arg.const ELSE vars_[arg.name].val
ReadyIn(vars_, arg) == arg.name = "" \/ vars_[arg.name].ready

(* Mutant of Runs: the arguments are not asked whether they are ready.       *)
RunsUnready(vars_, o) == Safe(o.op, [k \in DOMAIN o.args |-> ValueOf(vars_, o.args[k])])

(* The condition of _CALC_OP_IMPL.                                           *)
Runs(vars_, o) ==
  /\ \A k \in DOMAIN o.args : ReadyIn(vars_, o.args[k])
  /\ Safe(o.op, [k \in DOMAIN o.args |-> ValueOf(vars_, o.args[k])])

(* _CALC_OP_IMPL on the state of calc_func, [vars, ready, results]: a result *)
(* that cannot be computed keeps its value.                                  *)
OpImpl(s, o) ==
  LET val == Apply(o.op, [k \in DOMAIN o.args |-> ValueOf(s.vars, o.args[k])])
  IN IF Runs(s.vars, o)
     THEN [vars |-> [s.vars EXCEPT ![o.name] = [ready |-> TRUE, val |-> val]],
           ready |-> s.ready \cup ({o.id} \ {NoId}),
           results |-> [r \in Results |-> IF r = o.id THEN val ELSE s.results[r]]]
     ELSE [s EXCEPT !.vars[o.name].ready = FALSE, !.ready = @ \ {o.id}]

(* The state of calc_func when the readings are taken, by their names.       *)
Start(d, inputs) ==
  [vars |-> [n \in Readable \cup {Program[k].name : k \in 1 .. Len(Program)} |->
               IF n \in Readable THEN [ready |-> inputs[n].rc = "ok", val |-> inputs[n].val]
               ELSE [ready |-> FALSE, val |-> 0]],
   ready |-> d.ready, results |-> d.results]

(* calc_func after so many operations.                                       *)
After(d, inputs) ==
  LET after[k \in 0 .. Len(Program)] ==
        IF k = 0 THEN Start(d, inputs) ELSE OpImpl(after[k - 1], Program[k])
  IN after

(* calc_task *)
CalcTask(d, inputs) ==
  LET end == After(d, inputs)[Len(Program)]
  IN [d EXCEPT !.ready = end.ready, !.results = end.results]

(* calc_value_set(CALC_SYNC, _)                                              *)
CalcSync(d, inputs) == IF d.active THEN CalcTask(d, inputs) ELSE d

(* calc_value_get(CALC_RESULT(r), _): always succeeds, ready or not.         *)
CalcGet(d, r) == [rc |-> "ok", val |-> d.results[r]]

(* calc_value_set(CALC_STATE, on), as in Filter.                             *)
CalcSwitch(d, on) == [d EXCEPT !.active = on]
CalcSwitched(d) == [d EXCEPT !.ready = {}]

-----------------------------------------------------------------------------
(* Reference definitions: what the operations mean as equations.             *)

(* The values of an operation whose arguments have these sets of values.     *)
Tuples(sets) ==
  {v \in [DOMAIN sets -> UNION {sets[i] : i \in DOMAIN sets}] :
     \A i \in DOMAIN sets : v[i] \in sets[i]}

Outcomes(op, sets) == {Apply(op, v) : v \in {w \in Tuples(sets) : Safe(op, w)}}

(* The operation that writes a name.                                         *)
Writer(k, name) == CHOOSE j \in 1 .. k - 1 : Program[j].name = name

(* By operation, the values it can have for the readings x: one, or none     *)
(* where a division by zero is behind it.                                    *)
Meaning(x) ==
  LET meaning[k \in 1 .. Len(Program)] ==
        LET Of(a) == IF a.name = "" THEN {a.const}
                     ELSE IF a.name \in Readable THEN {x[a.name]}
                     ELSE meaning[Writer(k, a.name)]
        IN Outcomes(Program[k].op,
                    [i \in DOMAIN Program[k].args |-> Of(Program[k].args[i])])
  IN meaning

(* The operation a result comes from: the last one with its identifier.      *)
Computes(r) ==
  CHOOSE k \in 1 .. Len(Program) :
    Program[k].id = r /\ \A j \in k + 1 .. Len(Program) : Program[j].id # r
=============================================================================
