--------------------------------- MODULE Mix ---------------------------------
(***************************************************************************)
(* The mixer of drivers/value_mix/mix.c: a weighted sum of readings, and   *)
(* the weights it keeps in the settings.                                   *)
(***************************************************************************)
EXTENDS Integers, FiniteSetsExt

CONSTANTS
  NumInputs,       \* cfg->num_inputs
  WeightScale,     \* weight-scale: the representation of weight 1
  DefaultWeights,  \* cfg->inputs[i].default_weight
  MixOn            \* initial-active

Inputs == 0 .. NumInputs - 1

ASSUME MixAssumption ==
  /\ NumInputs \in Nat \ {0} /\ WeightScale \in Nat \ {0}
  /\ DefaultWeights \in [Inputs -> Int] /\ MixOn \in BOOLEAN

(* mix_weights_reset                                                         *)
ResetWeights(d) == [d EXCEPT !.weights = DefaultWeights]

(* mix_init before the settings are loaded.                                  *)
MixData == [active |-> MixOn, ready |-> FALSE, output |-> 0, weights |-> DefaultWeights]

(* Mutant of MixSum: the sum does not start from zero.                       *)
MixSumOnTop(d, reads) ==
  FoldSet(LAMBDA i, sum : sum + (reads[i].val * d.weights[i]) \div WeightScale,
          d.output, Inputs)

(* mix_calc, _MIX_CALC_VALUE: the first input that fails ends it before the  *)
(* output is written.                                                        *)
MixSum(d, reads) ==
  FoldSet(LAMBDA i, sum : sum + (reads[i].val * d.weights[i]) \div WeightScale, 0, Inputs)

(* mix_task                                                                  *)
MixTask(d, reads) ==
  IF \A i \in Inputs : reads[i].rc = "ok"
  THEN [d EXCEPT !.output = MixSum(d, reads), !.ready = TRUE]
  ELSE [d EXCEPT !.ready = FALSE]

(* mix_value_set(MIX_SYNC, _)                                                *)
MixSync(d, reads) == IF d.active THEN MixTask(d, reads) ELSE d

(* mix_value_get(MIX_OUTPUT, _)                                              *)
MixGet(d) == [rc |-> IF d.ready THEN "ok" ELSE "again", val |-> d.output]

(* mix_value_set(MIX_STATE, on), as in Filter.                               *)
MixSwitch(d, on) == [d EXCEPT !.active = on]
MixSwitched(d) == [d EXCEPT !.ready = FALSE]

(* mix_value_set(MIX_WEIGHT(i), w)                                           *)
SetWeight(d, i, w) == [d EXCEPT !.weights[i] = w]

(* mix_weights_save *)
WeightsToSave(d) == <<d.weights>>

(* mix_weights_load, mix_settings_set: read into the weights themselves, by  *)
(* the firmware that saved them, so that the count is the expected one.      *)
LoadWeights(d, stored) ==
  IF stored = << >> THEN d ELSE [d EXCEPT !.weights = stored[1]]

(* mix_init *)
MixBoot(stored) == LoadWeights(ResetWeights(MixData), stored)

(* cmd_select of mix_shell.c with an input: the number n of identifiers it   *)
(* writes is an uninitialised variable, and rc, the input to select, is      *)
(* overwritten by the first write.  Past the inputs the writes fail, up to   *)
(* MIX_STATE at 65536: a number above NumInputs stands for one beyond it.    *)
ShellSelect(d, k, n) ==
  LET written ==
        [d EXCEPT !.weights = [i \in Inputs |->
           IF i >= n THEN @[i] ELSE IF i = 0 /\ k = 0 THEN WeightScale ELSE 0]]
  IN IF n <= NumInputs \/ ~d.active THEN written
     ELSE MixSwitched(MixSwitch(written, FALSE))
=============================================================================
