------------------------------- MODULE Tuning -------------------------------
(***************************************************************************)
(* The parameters of a filter, the weights of a mixer and the values of a  *)
(* parameter device, tuned through their shells and value APIs, saved to   *)
(* and loaded from the settings, and brought up again after a power cycle. *)
(***************************************************************************)
EXTENDS Filter, Mix, Params

CONSTANTS
  Written,  \* the values a client writes
  Stacks,   \* what may lie on the stack behind the pairs that were read
  MaxEdits  \* bound on the calls of clients

ASSUME TuningAssumption ==
  /\ Written \subseteq Int /\ MaxEdits \in Nat
  /\ \A s \in Stacks : s \in Seq([id : Existing, val : Int])

VARIABLES
  filter, mix, params,  \* the data of the devices
  store,                \* the settings: by name << >>, or what is saved
  edits,                \* calls made
  kept                  \* history: what each device held when it was last told to save

vars == <<filter, mix, params, store, edits, kept>>

Empty == [vflt |-> << >>, vmix |-> << >>, vpar |-> << >>]

Init ==
  /\ filter = FilterBoot(<< >>)
  /\ mix = MixBoot(<< >>)
  /\ params = ParamsBoot(<< >>, << >>)
  /\ store = Empty
  /\ edits = 0
  /\ kept = [alpha |-> DefaultAlpha, weights |-> DefaultWeights, params |-> params]

Edit == edits < MaxEdits /\ edits' = edits + 1

(* The settings_name of a device; mix_config_##id has no initialiser for it. *)
NoName == "NULL"
MixSettingsName == NoName

(* settings_save_one may fail and leave the settings as they were; without a *)
(* name every backend refuses.                                               *)
Save(name, content, done) ==
  store' = IF done /\ name # NoName THEN [store EXCEPT ![name] = content] ELSE store

(* settings_load_subtree: the handlers below the name are called with what   *)
(* is stored for them, without a name all of them.                           *)
LoadSubtree(name, stack) ==
  /\ filter' = IF name \in {"vflt", NoName} THEN LoadAlpha(filter, store.vflt) ELSE filter
  /\ mix' = IF name \in {"vmix", NoName} THEN LoadWeights(mix, store.vmix) ELSE mix
  /\ params' = IF name \in {"vpar", NoName} THEN LoadParams(params, store.vpar, stack) ELSE params

(* cmd_param of filter_shell.c: alpha, samples, window.  The numbers that    *)
(* make the divisor zero are left out: what such a division does is          *)
(* undefined, and no outcome of it that returns gives an alpha in range.     *)
FilterParam(v) ==
  /\ Edit
  /\ \/ filter' = SetAlpha(filter, v)
     \/ SamplesDivisor(v) # 0 /\ filter' = SetAlpha(filter, SamplesToAlpha(v))
     \/ WindowDivisor(v) # 0 /\ filter' = SetAlpha(filter, WindowToAlpha(v))
  /\ UNCHANGED <<mix, params, store, kept>>

FilterLoad(stack) ==
  /\ Edit /\ LoadSubtree("vflt", stack)
  /\ UNCHANGED <<store, kept>>

FilterSave(done) ==
  /\ Edit /\ Save("vflt", AlphaToSave(filter, store.vflt), done)
  /\ kept' = IF done THEN [kept EXCEPT !.alpha = filter.alpha] ELSE kept
  /\ UNCHANGED <<filter, mix, params>>

FilterReset ==
  /\ Edit /\ filter' = ResetAlpha(filter)
  /\ UNCHANGED <<mix, params, store, kept>>

(* cmd_weight and cmd_select of mix_shell.c.                                 *)
MixWeight(i, w) ==
  /\ Edit /\ mix' = SetWeight(mix, i, w)
  /\ UNCHANGED <<filter, params, store, kept>>

MixSelect(k, n) ==
  /\ Edit /\ mix' = ShellSelect(mix, k, n)
  /\ UNCHANGED <<filter, params, store, kept>>

MixLoad(stack) ==
  /\ Edit /\ LoadSubtree(MixSettingsName, stack)
  /\ UNCHANGED <<store, kept>>

MixSave(done) ==
  /\ Edit /\ Save(MixSettingsName, WeightsToSave(mix), done)
  /\ kept' = IF done THEN [kept EXCEPT !.weights = mix.weights] ELSE kept
  /\ UNCHANGED <<filter, mix, params>>

MixReset ==
  /\ Edit /\ mix' = ResetWeights(mix)
  /\ UNCHANGED <<filter, params, store, kept>>

(* params_value_set *)
ParamWrite(p, v) ==
  /\ Edit /\ params' = ParamSet(params, p, v)
  /\ UNCHANGED <<filter, mix, store, kept>>

ParamsLoad(stack) ==
  /\ Edit /\ LoadSubtree("vpar", stack)
  /\ UNCHANGED <<store, kept>>

ParamsSave(done) ==
  /\ Edit /\ Save("vpar", <<Pairs(params)>>, done)
  /\ kept' = IF done THEN [kept EXCEPT !.params = params] ELSE kept
  /\ UNCHANGED <<filter, mix, params>>

ParamsResetAll ==
  /\ Edit /\ params' = ParamsReset(params)
  /\ UNCHANGED <<filter, mix, store, kept>>

(* Power is lost and returns: the settings survive, and the inits load them, *)
(* in the order of the linker.  Whatever has been up before the mixer is     *)
(* loaded again by its init: the filter with the alpha it has, the           *)
(* parameters with what lies on the stack then.                              *)
Restart(stack, again) ==
  /\ filter' = FilterBoot(store.vflt)
  /\ mix' = MixBoot(store.vmix)
  /\ LET booted == ParamsBoot(store.vpar, stack)
     IN params' \in {booted, LoadParams(booted, store.vpar, again)}
  /\ UNCHANGED <<store, edits, kept>>

Next ==
  \/ \E v \in Written : \/ FilterParam(v)
                        \/ \E i \in Inputs : MixWeight(i, v)
                        \/ \E p \in ParamIds : ParamWrite(p, v)
  \/ \E k \in Inputs, n \in 0 .. NumInputs + 1 : MixSelect(k, n)
  \/ FilterReset \/ MixReset \/ ParamsResetAll
  \/ \E done \in BOOLEAN : FilterSave(done) \/ MixSave(done) \/ ParamsSave(done)
  \/ \E stack \in Stacks : \/ FilterLoad(stack) \/ MixLoad(stack) \/ ParamsLoad(stack)
                            \/ \E again \in Stacks : Restart(stack, again)

Spec == Init /\ [][Next]_vars

-----------------------------------------------------------------------------
(* Besides the types: no parameter ever leaves its limits, whatever was      *)
(* written, saved by accident of the stack, or loaded from it.               *)
TuningTypeOK ==
  /\ filter.alpha \in 0 .. ParamScale /\ filter.oneMinusAlpha \in 0 .. ParamScale
  /\ mix.weights \in [Inputs -> Int]
  /\ \A p \in Existing : params[p] \in ParamDesc[p].min .. ParamDesc[p].max

(* The weights of old and new sample add up to 1, or alpha is the default    *)
(* one: no sequence of writes, loads and restarts takes them apart, only a   *)
(* reset does.                                                               *)
ApartOnlyByReset ==
  filter.alpha + filter.oneMinusAlpha = ParamScale \/ filter.alpha = DefaultAlpha

(* A number of samples that was read can be written back without a change of *)
(* alpha, and a window that was read never smooths more than before: the two *)
(* conversions round against each other.  What is read has to fit: an alpha  *)
(* so small that the samples, or the window, exceed a value_t reads as some  *)
(* other number, which is another alpha when it is written back.             *)
ReadBack ==
  LET a == filter.alpha
      samples == Unit2 \div a
      window == ((samples - ParamScale) * Period) \div ParamScale
  IN a > 0 /\ samples <= ValueMax =>
       /\ SamplesToAlpha(AlphaToSamples(a)) = a
       /\ window <= ValueMax => WindowToAlpha(AlphaToWindow(a)) \in a .. ParamScale

Restarts == \E stack, again \in Stacks : Restart(stack, again)

(* What was saved is there after a power cycle: alpha, with a matching other *)
(* weight, deleted from the settings when it was the default or not; and the *)
(* non-volatile parameters, whatever lay on the stack and whether the mixer  *)
(* loads them again or not, but for the one with the highest identifier,     *)
(* whose pair is the first.                                                  *)
SurvivesRestart ==
  [][Restarts =>
       /\ filter'.alpha = kept.alpha
       /\ filter'.oneMinusAlpha = ParamScale - kept.alpha
       /\ \A p \in NonVolatile : (\E q \in NonVolatile : q > p) => params'[p] = kept.params[p]
    ]_vars

-----------------------------------------------------------------------------
(* "Load previously saved parameters from settings"                          *)
(* (dt-bindings/value/params.h:45): after PARAMS_LOAD every non-volatile     *)
(* parameter has the value it had when it was saved.                         *)
LoadsWhatWasSaved ==
  [][(\E stack \in Stacks : ParamsLoad(stack)) /\ store.vpar # << >> =>
       \A p \in NonVolatile : params'[p] = kept.params[p]]_vars

(* "Save current weight values in settings" (dt-bindings/value/mix.h:67):    *)
(* the weights saved with MIX_WEIGHTS_SAVE, while the settings work, are     *)
(* those of the mixer after a power cycle.                                   *)
WeightsRestored == [][Restarts => mix'.weights = kept.weights]_vars
=============================================================================
