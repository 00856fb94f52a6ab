------------------------------- MODULE Params -------------------------------
(***************************************************************************)
(* The parameters of drivers/value_params/params.c and how they get into   *)
(* the settings and back.  The values of the device are a function of the  *)
(* identifiers.                                                            *)
(***************************************************************************)
EXTENDS Integers, Sequences, FiniteSets

CONSTANT
  ParamDesc  \* cfg->param_desc: [def, min, max, exists, nv] by identifier

NumParams == Cardinality(DOMAIN ParamDesc)
ParamIds == 0 .. NumParams - 1

Clamp(v, lo, hi) == IF v < lo THEN lo ELSE IF v > hi THEN hi ELSE v

Existing == { p \in ParamIds : ParamDesc[p].exists }
NonVolatile == { p \in Existing : ParamDesc[p].nv }

ASSUME ParamsAssumption ==
  /\ NumParams \in Nat /\ DOMAIN ParamDesc = ParamIds
  /\ \A p \in Existing :
       LET desc == ParamDesc[p]
       IN {desc.min, desc.max} \subseteq Int /\ desc.def \in desc.min .. desc.max

(* params_count(flags, mask), for PARAMS_NUMBER_ALL and PARAMS_NUMBER_NV.    *)
CountAll == Cardinality(Existing)
CountNV == Cardinality(NonVolatile)

(* Mutant of ParamSet: the value is stored as it is.                         *)
ParamSetRaw(values, id, v) ==
  IF id \in Existing THEN [values EXCEPT ![id] = v] ELSE values

(* param_set: -EINVAL for an identifier that does not exist.                 *)
ParamSet(values, id, v) ==
  IF id \in Existing
  THEN [values EXCEPT ![id] = Clamp(v, ParamDesc[id].min, ParamDesc[id].max)]
  ELSE values

(* params_reset of zeroed values.                                            *)
ParamsReset(values) ==
  [p \in ParamIds |-> IF p \in Existing THEN ParamDesc[p].def ELSE values[p]]

(* params_save: the pairs are filled from the last one backwards.            *)
Pairs(values) ==
  LET filled[n \in 0 .. NumParams] ==
        IF n = 0 THEN << >>
        ELSE IF n - 1 \in NonVolatile
             THEN <<[id |-> n - 1, val |-> values[n - 1]]>> \o filled[n - 1]
             ELSE filled[n - 1]
  IN filled[NumParams]

(* The loop of params_settings_set over what was read: from the last pair    *)
(* down to the second, never the first.                                      *)
Restored(values, pairs) ==
  LET done[n \in 0 .. Len(pairs)] ==
        IF n = 0 THEN values
        ELSE LET pair == pairs[Len(pairs) - n + 1]
             IN ParamSet(done[n - 1], pair.id, pair.val)
  IN done[Len(pairs) - 1]

(* params_load, params_settings_set.  The loop starts at the pair numbered   *)
(* as many as read_cb read BYTES, so what lies behind the array is set first *)
(* (stack: those of its pairs whose identifier exists), then what was saved. *)
LoadParams(values, stored, stack) ==
  IF stored = << >> \/ stored[1] = << >> THEN values
  ELSE Restored(values, stored[1] \o stack)

(* params_init *)
ParamsBoot(stored, stack) ==
  LoadParams(ParamsReset([p \in ParamIds |-> 0]), stored, stack)
=============================================================================
