------------------------------- MODULE Filter -------------------------------
(***************************************************************************)
(* The exponential filter of drivers/value_filter/filter.c.  The state of  *)
(* a filter is a record, an operation of its value API a function of it.   *)
(* What a driver reads is an answer [rc, val] with rc "ok", "again"        *)
(* (-EAGAIN) or "fault" (any other error).                                 *)
(***************************************************************************)
EXTENDS ValueType

CONSTANTS
  NumFiltered,   \* cfg->num_values
  ParamScale,    \* cfg->param_scale: the representation of 1
  Period,        \* cfg->period, scaled
  DefaultAlpha,  \* cfg->default_alpha
  FilterOn       \* initial-active

ASSUME FilterAssumption ==
  /\ NumFiltered \in Nat \ {0} /\ ParamScale \in Nat \ {0} /\ Period \in Nat \ {0}
  /\ ParamScale <= ValueMax /\ Period <= ValueMax
  /\ DefaultAlpha \in 0 .. ParamScale /\ FilterOn \in BOOLEAN

Filtered == 0 .. NumFiltered - 1

FilterData ==
  [alpha |-> DefaultAlpha, oneMinusAlpha |-> ParamScale - DefaultAlpha,
   active |-> FilterOn, ready |-> {}, fault |-> {},
   values |-> [i \in Filtered |-> 0]]

(* Mutant of Calculate: the first sample is averaged with what is there.     *)
CalculateAlways(d, i, sample) ==
  (sample * d.alpha + d.values[i] * d.oneMinusAlpha) \div ParamScale

(* filter_calc with equal scales: the first sample is taken as it is.        *)
Calculate(d, i, sample) ==
  IF i \in d.ready
  THEN (sample * d.alpha + d.values[i] * d.oneMinusAlpha) \div ParamScale
  ELSE sample

(* Mutant of FilterTask: a value that cannot be read stays ready.            *)
FilterTaskKeeps(d, reads) ==
  LET got == { i \in Filtered : reads[i].rc = "ok" }
      failed == { i \in Filtered : reads[i].rc = "fault" }
  IN [d EXCEPT
        !.values = [i \in Filtered |->
                      IF i \in got THEN Calculate(d, i, reads[i].val) ELSE @[i]],
        !.ready = @ \cup got,
        !.fault = (@ \ got) \cup failed]

(* filter_task: -EAGAIN leaves an older fault where it is.                   *)
FilterTask(d, reads) ==
  LET got == { i \in Filtered : reads[i].rc = "ok" }
      failed == { i \in Filtered : reads[i].rc = "fault" }
  IN [d EXCEPT
        !.values = [i \in Filtered |->
                      IF i \in got THEN Calculate(d, i, reads[i].val) ELSE @[i]],
        !.ready = got,
        !.fault = (@ \ got) \cup failed]

(* filter_value_set(FILTER_SYNC, _)                                          *)
FilterSync(d, reads) == IF d.active THEN FilterTask(d, reads) ELSE d

(* filter_value_get(FILTER_OUTPUT(i), _)                                     *)
FilterGet(d, i) ==
  [rc |-> IF i \in d.fault THEN "fault" ELSE IF i \in d.ready THEN "ok" ELSE "again",
   val |-> d.values[i]]

(* filter_value_set(FILTER_STATE, on): the flags are cleared after the state *)
(* is written; a call that changes nothing does nothing.                     *)
FilterSwitch(d, on) == [d EXCEPT !.active = on]
FilterSwitched(d) == [d EXCEPT !.ready = {}, !.fault = {}]

(* Mutant of AlphaAccepted: no upper limit.                                  *)
AlphaAcceptedAbove(d, a) == a # d.alpha /\ a \in Nat

(* filter_set_alpha: -EINVAL out of range; one_minus_alpha is written last.  *)
AlphaAccepted(d, a) == a # d.alpha /\ a \in 0 .. ParamScale
AlphaSet(d, a) == [d EXCEPT !.alpha = a]

(* Mutant of AlphaSettled: the other weight is left alone.                   *)
AlphaSettledForgotten(d, a) == d

(* Its last write.                                                           *)
AlphaSettled(d, a) == [d EXCEPT !.oneMinusAlpha = ParamScale - a]

(* filter_set_alpha in one go.                                               *)
SetAlpha(d, a) == IF AlphaAccepted(d, a) THEN AlphaSettled(AlphaSet(d, a), a) ELSE d

(* FILTER_SAMPLES and FILTER_WINDOW to an alpha: twice the square of the     *)
(* scale by a divisor that is a value_t for samples and wider for a window.  *)
Unit2 == 2 * ParamScale * ParamScale

SamplesDivisor(n) == Narrow(n + ParamScale)
WindowDivisor(t) == Quotient(t * ParamScale, Period) + ParamScale
SamplesToAlpha(n) == Narrow(Quotient(Unit2, SamplesDivisor(n)))
WindowToAlpha(t) == Narrow(Quotient(Unit2, WindowDivisor(t)))

(* Mutant of AlphaToSamples: 2 / alpha.                                      *)
AlphaToSamplesShifted(a) == Narrow(Unit2 \div a)

(* filter_value_get(FILTER_SAMPLES, _) and (FILTER_WINDOW, _), narrowed as   *)
(* the casts are; an alpha of 0 is a division by zero.                       *)
AlphaToSamples(a) == Narrow(Narrow(Unit2 \div a) - ParamScale)
AlphaToWindow(a) == Narrow(Quotient(AlphaToSamples(a) * Period, ParamScale))

(* filter_param_reset: one_minus_alpha is not written.                       *)
ResetAlpha(d) == [d EXCEPT !.alpha = DefaultAlpha]

(* Mutant of AlphaToSave: the default alpha is not deleted from the store.   *)
AlphaToSaveKept(d, stored) ==
  IF d.alpha # DefaultAlpha THEN <<d.alpha>> ELSE stored

(* filter_param_save: what the store holds afterwards, nothing for a default *)
(* alpha.                                                                    *)
AlphaToSave(d, stored) == IF d.alpha # DefaultAlpha THEN <<d.alpha>> ELSE << >>

(* filter_param_load, filter_settings_set                                    *)
LoadAlpha(d, stored) == IF stored = << >> THEN d ELSE SetAlpha(d, stored[1])

(* filter_init, after the static initialisation.                             *)
FilterBoot(stored) == LoadAlpha(FilterData, stored)
=============================================================================
