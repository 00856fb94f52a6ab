---------------------------- MODULE Pipeline_proofs ----------------------------
(***************************************************************************)
(* Theorems about Pipeline, for every set of readings and alphas, every    *)
(* scale and limit, every list of operations of the calculator, and any    *)
(* number of calls.                                                        *)
(***************************************************************************)
EXTENDS Pipeline, WellFoundedInduction, TLAPS

(* What the proof needs to know of the records of filter and mixer.          *)
FilterShape ==
  /\ filter = [alpha |-> filter.alpha, oneMinusAlpha |-> filter.oneMinusAlpha,
               active |-> filter.active, ready |-> filter.ready,
               fault |-> filter.fault, values |-> filter.values]
  /\ filter.active \in BOOLEAN

MixShape ==
  /\ mix = [active |-> mix.active, ready |-> mix.ready, output |-> mix.output,
            weights |-> mix.weights]
  /\ mix.active \in BOOLEAN /\ mix.ready \in BOOLEAN

CallShape ==
  call = NoCall \/ call.dev \in {"filter", "mix", "calc", "minmax", "monitor", "alpha"}

(* A driver that is switched off has no marks, unless its call is not over.  *)
OffIsUnready ==
  /\ ~filter.active => filter.ready = {} \/ call.dev = "filter"
  /\ ~mix.active => ~mix.ready \/ call.dev = "mix"

StaleInv == FilterShape /\ MixShape /\ CallShape /\ OffIsUnready /\ NothingStale

LEMMA InitStale == Init => StaleInv
<1> SUFFICES ASSUME Init
             PROVE  StaleInv
  OBVIOUS
<1>1. FilterShape
  BY FilterAssumption DEF Init, FilterData, FilterShape
<1>2. MixShape
  BY MixAssumption DEF Init, MixData, MixShape
<1>3. CallShape
  BY DEF Init, CallShape
<1>4. OffIsUnready /\ NothingStale
  BY DEF Init, FilterData, MixData, OffIsUnready, NothingStale, MixGet
<1> QED BY <1>1, <1>2, <1>3, <1>4 DEF StaleInv

(* A round, without a call under way: the mixer answers only when every      *)
(* source did.                                                               *)
LEMMA RoundReads ==
  ASSUME StaleInv, NEW answers, Round(answers)
  PROVE  StaleInv'
<1> USE DEF StaleInv
<1>1. FilterShape'
  BY DEF FilterShape, Round, FilterSync, FilterTask
<1>2. MixShape'
  BY DEF MixShape, Round, MixSync, MixTask
<1>3. CallShape' /\ call' = call
  BY DEF CallShape, Round
<1>4. filter'.active = filter.active /\ mix'.active = mix.active
  BY DEF FilterShape, MixShape, Round, FilterSync, FilterTask, MixSync, MixTask
<1>5. ~filter.active => filter' = filter
  BY DEF Round, FilterSync
<1>6. ~mix.active => mix' = mix
  BY DEF Round, MixSync
<1>7. OffIsUnready'
  BY <1>3, <1>4, <1>5, <1>6 DEF OffIsUnready
<1>8. ASSUME mix'.ready, call = NoCall
      PROVE  allRead'
  <2>1. mix.active
    BY <1>6, <1>8 DEF OffIsUnready, NoCall, MixShape
  <2>2. \A i \in Inputs : Filters(filter')[i].rc = "ok"
    BY <1>8, <2>1 DEF Round, MixSync, MixTask, MixShape
  <2>3. ASSUME NEW i \in Filtered
        PROVE  i \in filter'.ready
    <3>1. i \in Inputs
      BY <2>3, PipelineAssumption DEF Inputs
    <3>2. FilterGet(filter', i).rc = "ok"
      BY <2>2, <2>3, <3>1 DEF Filters
    <3> QED BY <3>2 DEF FilterGet
  <2>4. filter.active
    BY <1>5, <1>8, <2>3, PipelineAssumption DEF OffIsUnready, NoCall
  <2>5. filter'.ready = { i \in Filtered : answers[i].rc = "ok" }
    BY <2>4 DEF Round, FilterSync, FilterTask, FilterShape
  <2> QED BY <2>3, <2>5 DEF Round
<1>9. NothingStale'
  BY <1>8 DEF Round, NothingStale, MixGet
<1> QED BY <1>1, <1>2, <1>3, <1>7, <1>9

(* A call: only those to filter and mixer touch what is read.                *)
LEMMA CallReads ==
  ASSUME StaleInv, NEW on \in BOOLEAN,
         \/ SwitchFilter(on) \/ SwitchMix(on) \/ SwitchCalc(on)
         \/ SwitchMinMax(on) \/ SwitchMonitor(on)
  PROVE  StaleInv'
<1> USE DEF StaleInv, Calls
<1>1. CASE SwitchFilter(on)
  <2>1. FilterShape' /\ filter'.ready = filter.ready /\ filter'.active = on
    BY <1>1 DEF SwitchFilter, FilterSwitch, FilterShape
  <2>2. mix' = mix /\ call'.dev = "filter" /\ allRead' = allRead /\ torn' = torn
    BY <1>1 DEF SwitchFilter, history
  <2>3. call = NoCall
    BY <1>1 DEF SwitchFilter
  <2> QED BY <2>1, <2>2, <2>3 DEF MixShape, CallShape, OffIsUnready, NothingStale, MixGet, NoCall
<1>2. CASE SwitchMix(on)
  <2>1. MixShape' /\ mix'.ready = mix.ready /\ mix'.active = on
    BY <1>2 DEF SwitchMix, MixSwitch, MixShape
  <2>2. filter' = filter /\ call'.dev = "mix" /\ allRead' = allRead /\ torn' = torn
    BY <1>2 DEF SwitchMix, history
  <2>3. call = NoCall
    BY <1>2 DEF SwitchMix
  <2> QED BY <2>1, <2>2, <2>3 DEF FilterShape, CallShape, OffIsUnready, NothingStale, MixGet, NoCall
<1>3. CASE SwitchCalc(on) \/ SwitchMinMax(on) \/ SwitchMonitor(on)
  <2>1. filter' = filter /\ mix' = mix /\ allRead' = allRead /\ torn' = torn
    BY <1>3 DEF SwitchCalc, SwitchMinMax, SwitchMonitor, history
  <2>2. call = NoCall /\ call'.dev \in {"calc", "minmax", "monitor"}
    BY <1>3 DEF SwitchCalc, SwitchMinMax, SwitchMonitor
  <2> QED
    BY <2>1, <2>2 DEF FilterShape, MixShape, CallShape, OffIsUnready, NothingStale, MixGet, NoCall
<1> QED BY <1>1, <1>2, <1>3

LEMMA TuneReads ==
  ASSUME StaleInv, (\E a \in Alphas : WriteAlpha(a)) \/ ResetFilter
  PROVE  StaleInv'
<1> USE DEF StaleInv, Calls
<1>1. FilterShape' /\ filter'.ready = filter.ready /\ filter'.active = filter.active
  BY DEF WriteAlpha, AlphaSet, ResetFilter, ResetAlpha, FilterShape
<1>2. mix' = mix /\ allRead' = allRead /\ torn' = torn
  BY DEF WriteAlpha, ResetFilter, history
<1>3. call = NoCall /\ (call' = NoCall \/ call'.dev = "alpha")
  BY DEF WriteAlpha, ResetFilter
<1> QED BY <1>1, <1>2, <1>3 DEF MixShape, CallShape, OffIsUnready, NothingStale, MixGet, NoCall

LEMMA FinishReads ==
  ASSUME StaleInv, Finish
  PROVE  StaleInv'
<1> USE DEF StaleInv
<1>1. FilterShape' /\ filter'.active = filter.active
  BY DEF Finish, FilterSwitched, AlphaSettled, FilterShape
<1>2. filter'.ready = IF call.dev = "filter" THEN {} ELSE filter.ready
  BY DEF Finish, FilterSwitched, AlphaSettled, FilterShape
<1>3. MixShape' /\ mix'.active = mix.active
  BY DEF Finish, MixSwitched, MixShape
<1>4. mix'.ready = IF call.dev = "mix" THEN FALSE ELSE mix.ready
  BY DEF Finish, MixSwitched, MixShape
<1>5. call' = NoCall /\ allRead' = allRead /\ torn' = torn
  BY DEF Finish
<1> QED
  BY <1>1, <1>2, <1>3, <1>4, <1>5 DEF CallShape, OffIsUnready, NothingStale, MixGet

(* What the mixer answers at the end of the chain was made in the last round,*)
(* from sources that all answered, unless that round met a call between its  *)
(* writes: for any number of calls, any readings and any alpha (filter_task, *)
(* mix_task, and the marks that filter_value_set and mix_value_set clear).   *)
THEOREM NeverStale == Spec => []NothingStale
<1>1. StaleInv /\ [Next]_vars => StaleInv'
  <2> SUFFICES ASSUME StaleInv, [Next]_vars
               PROVE  StaleInv'
    OBVIOUS
  <2>1. CASE UNCHANGED vars
    BY <2>1 DEF vars, devices, history, StaleInv, FilterShape, MixShape, CallShape,
                OffIsUnready, NothingStale, MixGet
  <2> QED BY <2>1, RoundReads, CallReads, TuneReads, FinishReads DEF Next
<1>2. StaleInv => NothingStale
  BY DEF StaleInv
<1> QED BY InitStale, <1>1, <1>2, PTL DEF Spec

-----------------------------------------------------------------------------
(* A weighted mean, rounded down, lies between the values it is made of.     *)
LEMMA FloorBetween ==
  ASSUME NEW n \in Nat, NEW s \in Nat \ {0}, NEW lo \in Nat, NEW hi \in Nat,
         lo * s <= n, n <= hi * s
  PROVE  n \div s \in lo .. hi
<1> DEFINE m == n \div s
<1>1. m \in Nat /\ s * m <= n /\ n < s * m + s
  OBVIOUS
<1> HIDE DEF m
<1>2. ASSUME m < lo
      PROVE  FALSE
  <2>1. s * (m + 1) <= s * lo
    BY <1>1, <1>2
  <2> QED BY <1>1, <2>1
<1>3. ASSUME m > hi
      PROVE  FALSE
  <2>1. s * (hi + 1) <= s * m
    BY <1>1, <1>3
  <2> QED BY <1>1, <2>1
<1> QED BY <1>1, <1>2, <1>3 DEF m

LEMMA MeanBetween ==
  ASSUME NEW s \in Nat \ {0}, NEW a \in Nat, NEW b \in Nat, a + b = s,
         NEW lo \in Nat, NEW hi \in Nat, NEW x \in lo .. hi, NEW y \in lo .. hi
  PROVE  (x * a + y * b) \div s \in lo .. hi
<1>1. lo * a <= x * a /\ x * a <= hi * a /\ lo * b <= y * b /\ y * b <= hi * b
  OBVIOUS
<1>2. lo * s = lo * a + lo * b /\ hi * s = hi * a + hi * b
  OBVIOUS
<1>3. x * a \in Nat /\ y * b \in Nat
  OBVIOUS
<1>4. lo * s <= x * a + y * b /\ x * a + y * b <= hi * s
  BY <1>1, <1>2, <1>3
<1> QED BY <1>3, <1>4, FloorBetween

(* The fields of the filter, and what the history keeps of its samples.      *)
FilterTypes ==
  /\ FilterShape
  /\ filter.alpha \in 0 .. ParamScale /\ filter.oneMinusAlpha \in 0 .. ParamScale
  /\ filter.ready \subseteq Filtered /\ filter.fault \subseteq Filtered
  /\ filter.values \in [Filtered -> Nat]
  /\ seen \in [Filtered -> SUBSET Nat]
  /\ uneven \in BOOLEAN /\ left \in BOOLEAN
  /\ CallShape
  /\ call.dev = "alpha" => call.alpha \in 0 .. ParamScale

(* A ready value lies between two samples it was made of.                    *)
Smoothed ==
  ~uneven => \A i \in filter.ready : \E lo, hi \in seen[i] :
               lo <= filter.values[i] /\ filter.values[i] <= hi

(* While no sample left the limits, all that the history keeps are inside.   *)
SeenInside ==
  ~left => \A i \in Filtered : seen[i] \subseteq Minimum .. Maximum

RangeInv == FilterTypes /\ Smoothed /\ SeenInside

LEMMA InitRange == Init => RangeInv
<1> SUFFICES ASSUME Init
             PROVE  RangeInv
  OBVIOUS
<1>1. FilterTypes
  <2>1. FilterShape
    BY FilterAssumption DEF Init, FilterData, FilterShape
  <2>2. /\ filter.alpha = DefaultAlpha /\ filter.oneMinusAlpha = ParamScale - DefaultAlpha
        /\ filter.ready = {} /\ filter.fault = {}
        /\ filter.values = [i \in Filtered |-> 0]
    BY DEF Init, FilterData
  <2>3. call = NoCall /\ seen = [i \in Filtered |-> {}] /\ ~uneven /\ ~left
        /\ uneven \in BOOLEAN /\ left \in BOOLEAN
    BY DEF Init
  <2>4. DefaultAlpha \in 0 .. ParamScale /\ ParamScale - DefaultAlpha \in 0 .. ParamScale
    BY FilterAssumption
  <2>5. CallShape /\ call.dev # "alpha"
    BY <2>3 DEF CallShape, NoCall
  <2> QED BY <2>1, <2>2, <2>3, <2>4, <2>5 DEF FilterTypes
<1>2. Smoothed /\ SeenInside
  BY DEF Init, FilterData, Smoothed, SeenInside
<1> QED BY <1>1, <1>2 DEF RangeInv

(* The answers of the sources.                                               *)
Answered(answers) ==
  \A i \in Filtered : answers[i].val \in Nat

LEMMA RoundAnswered ==
  ASSUME NEW r0 \in Readings[0], NEW r1 \in Readings[1]
  PROVE  Answered([i \in Filtered |-> IF i = 0 THEN r0 ELSE r1])
  BY PipelineAssumption DEF Answered

(* What filter_task makes of them, on an active filter.                      *)
LEMMA RoundFilters ==
  ASSUME FilterTypes, filter.active, NEW answers, Round(answers)
  PROVE  /\ filter'.alpha = filter.alpha /\ filter'.oneMinusAlpha = filter.oneMinusAlpha
         /\ filter'.active = filter.active
         /\ filter'.ready = {i \in Filtered : answers[i].rc = "ok"}
         /\ filter'.fault = (filter.fault \ {i \in Filtered : answers[i].rc = "ok"})
                               \cup {i \in Filtered : answers[i].rc = "fault"}
         /\ filter'.values = [i \in Filtered |->
                                IF answers[i].rc = "ok"
                                THEN Calculate(filter, i, answers[i].val)
                                ELSE filter.values[i]]
<1>1. filter' = FilterTask(filter, answers)
  BY DEF Round, FilterSync
<1> DEFINE got == {i \in Filtered : answers[i].rc = "ok"}
<1>2. filter' = [filter EXCEPT
        !.values = [i \in Filtered |->
                      IF i \in got THEN Calculate(filter, i, answers[i].val) ELSE @[i]],
        !.ready = got,
        !.fault = (@ \ got) \cup {i \in Filtered : answers[i].rc = "fault"}]
  BY <1>1 DEF FilterTask
<1> QED BY <1>2 DEF FilterTypes, FilterShape

LEMMA RoundKeepsTypes ==
  ASSUME FilterTypes, NEW answers, Answered(answers), Round(answers)
  PROVE  FilterTypes'
<1> USE DEF FilterTypes
<1>1. FilterShape' /\ call' = call /\ CallShape'
  BY DEF FilterShape, CallShape, Round, FilterSync, FilterTask
<1>2. uneven' \in BOOLEAN /\ left' \in BOOLEAN
  BY DEF Round
<1>3. seen' \in [Filtered -> SUBSET Nat]
  BY DEF Round, Answered
<1>4. CASE ~filter.active
  <2>1. filter' = filter
    BY <1>4 DEF Round, FilterSync
  <2> QED BY <1>1, <1>2, <1>3, <2>1
<1>5. CASE filter.active
  <2>1. ASSUME NEW i \in Filtered
        PROVE  Calculate(filter, i, answers[i].val) \in Nat
    <3>1. /\ answers[i].val \in Nat /\ filter.values[i] \in Nat
          /\ filter.alpha \in Nat /\ filter.oneMinusAlpha \in Nat /\ ParamScale \in Nat \ {0}
      BY FilterAssumption DEF Answered
    <3>2. answers[i].val * filter.alpha + filter.values[i] * filter.oneMinusAlpha \in Nat
      BY <3>1
    <3>3. (answers[i].val * filter.alpha + filter.values[i] * filter.oneMinusAlpha)
            \div ParamScale \in Nat
      BY <3>1, <3>2
    <3> QED BY <3>1, <3>3 DEF Calculate
  <2> HIDE DEF FilterTypes
  <2>2. filter'.values \in [Filtered -> Nat]
    <3>1. filter'.values = [i \in Filtered |->
            IF answers[i].rc = "ok" THEN Calculate(filter, i, answers[i].val)
            ELSE filter.values[i]]
      BY <1>5, RoundFilters
    <3>2. filter.values \in [Filtered -> Nat]
      BY DEF FilterTypes
    <3> QED BY <2>1, <3>1, <3>2
  <2>3. filter'.ready \subseteq Filtered /\ filter'.fault \subseteq Filtered
    <3>1. /\ filter'.ready = {i \in Filtered : answers[i].rc = "ok"}
          /\ filter'.fault = (filter.fault \ {i \in Filtered : answers[i].rc = "ok"})
                                \cup {i \in Filtered : answers[i].rc = "fault"}
      BY <1>5, RoundFilters
    <3> QED BY <3>1 DEF FilterTypes
  <2>4. filter'.alpha = filter.alpha /\ filter'.oneMinusAlpha = filter.oneMinusAlpha
    BY <1>5, RoundFilters
  <2> QED BY <1>1, <1>2, <1>3, <2>2, <2>3, <2>4 DEF FilterTypes
<1> QED BY <1>4, <1>5

(* The step of filter_calc: the new output lies between the samples it is    *)
(* made of, the older ones by the invariant.                                 *)
LEMMA RoundSmooths ==
  ASSUME RangeInv, NEW answers, Answered(answers), Round(answers)
  PROVE  Smoothed'
<1> USE DEF RangeInv
<1> SUFFICES ASSUME ~uneven', NEW i \in filter'.ready
             PROVE  \E lo, hi \in seen'[i] : lo <= filter'.values[i] /\ filter'.values[i] <= hi
  BY DEF Smoothed
<1>1. ~uneven /\ filter.alpha + filter.oneMinusAlpha = ParamScale
  BY DEF Round
<1>2. CASE ~filter.active
  BY <1>1, <1>2 DEF Round, FilterSync, Smoothed
<1>3. CASE filter.active
  <2> DEFINE new == answers[i].val
             old == filter.values[i]
  <2>1. /\ i \in Filtered /\ answers[i].rc = "ok" /\ new \in Nat
        /\ filter'.values[i] = Calculate(filter, i, new)
    <3>1. filter'.values = [k \in Filtered |->
            IF answers[k].rc = "ok" THEN Calculate(filter, k, answers[k].val)
            ELSE filter.values[k]]
      BY <1>3, RoundFilters
    <3>2. filter'.ready = {k \in Filtered : answers[k].rc = "ok"}
      BY <1>3, RoundFilters
    <3> QED BY <3>1, <3>2 DEF Answered
  <2>2. seen'[i] = seen[i] \cup {new}
    BY <1>3, <2>1 DEF Round
  <2>3. CASE i \notin filter.ready
    <3>1. Calculate(filter, i, new) = new
      BY <2>3 DEF Calculate
    <3> QED BY <2>1, <2>2, <3>1
  <2>4. CASE i \in filter.ready
    <3>1. PICK lo \in seen[i], hi \in seen[i] : lo <= old /\ old <= hi
      BY <1>1, <2>4 DEF Smoothed
    <3> DEFINE low == IF new < lo THEN new ELSE lo
               high == IF new > hi THEN new ELSE hi
    <3>2. lo \in Nat /\ hi \in Nat /\ old \in Nat
      BY <2>1, <3>1 DEF FilterTypes
    <3>3. low \in seen'[i] /\ high \in seen'[i] /\ low \in Nat /\ high \in Nat
      BY <2>1, <2>2, <3>1, <3>2
    <3>4. new \in low .. high /\ old \in low .. high
      BY <2>1, <3>1, <3>2
    <3>5. Calculate(filter, i, new) =
            (new * filter.alpha + old * filter.oneMinusAlpha) \div ParamScale
      BY <2>4 DEF Calculate
    <3>6. filter.alpha \in Nat /\ filter.oneMinusAlpha \in Nat /\ ParamScale \in Nat \ {0}
      BY FilterAssumption DEF FilterTypes
    <3> HIDE DEF low, high, new, old
    <3>7. Calculate(filter, i, new) \in low .. high
      BY <1>1, <3>3, <3>4, <3>5, <3>6, MeanBetween
    <3>8. low <= filter'.values[i] /\ filter'.values[i] <= high
      BY <2>1, <3>3, <3>7
    <3> QED BY <3>3, <3>8
  <2> QED BY <2>3, <2>4
<1> QED BY <1>2, <1>3

LEMMA RoundRange ==
  ASSUME RangeInv, NEW answers, Answered(answers), Round(answers)
  PROVE  RangeInv'
<1>1. FilterTypes'
  BY RoundKeepsTypes DEF RangeInv
<1>2. SeenInside'
  <2> SUFFICES ASSUME ~left', NEW i \in Filtered, NEW v \in seen'[i]
               PROVE  v \in Minimum .. Maximum
    BY DEF SeenInside
  <2>1. ~left /\ ~Outside(answers[i])
    BY DEF Round
  <2>2. v \in seen[i] \/ (answers[i].rc = "ok" /\ v = answers[i].val)
    BY DEF Round, RangeInv, FilterTypes
  <2>3. CASE v \in seen[i]
    BY <2>1, <2>3 DEF RangeInv, SeenInside
  <2>4. CASE answers[i].rc = "ok" /\ v = answers[i].val
    BY <2>1, <2>4, MonitorAssumption DEF Outside, Answered
  <2> QED BY <2>2, <2>3, <2>4
<1> QED BY <1>1, <1>2, RoundSmooths DEF RangeInv

(* Nothing but a round and the end of a switch touches what a filtered value *)
(* is made of.                                                               *)
LEMMA SwitchRange ==
  ASSUME RangeInv, NEW on \in BOOLEAN,
         \/ SwitchFilter(on) \/ SwitchMix(on) \/ SwitchCalc(on)
         \/ SwitchMinMax(on) \/ SwitchMonitor(on)
  PROVE  RangeInv'
<1>1. /\ FilterShape' /\ filter'.alpha = filter.alpha
      /\ filter'.oneMinusAlpha = filter.oneMinusAlpha /\ filter'.ready = filter.ready
      /\ filter'.fault = filter.fault /\ filter'.values = filter.values
  BY DEF SwitchFilter, FilterSwitch, SwitchMix, SwitchCalc, SwitchMinMax, SwitchMonitor,
         RangeInv, FilterTypes, FilterShape
<1>2. call'.dev \in {"filter", "mix", "calc", "minmax", "monitor"}
  BY DEF SwitchFilter, SwitchMix, SwitchCalc, SwitchMinMax, SwitchMonitor, Calls
<1>3. UNCHANGED history
  BY DEF SwitchFilter, SwitchMix, SwitchCalc, SwitchMinMax, SwitchMonitor
<1> QED
  BY <1>1, <1>2, <1>3 DEF RangeInv, FilterTypes, CallShape, Smoothed, SeenInside, history

LEMMA TuneRange ==
  ASSUME RangeInv, (\E a \in Alphas : WriteAlpha(a)) \/ ResetFilter
  PROVE  RangeInv'
<1>1. /\ FilterShape' /\ filter'.oneMinusAlpha = filter.oneMinusAlpha
      /\ filter'.ready = filter.ready
      /\ filter'.fault = filter.fault /\ filter'.values = filter.values
  BY DEF WriteAlpha, AlphaSet, ResetFilter, ResetAlpha, RangeInv, FilterTypes, FilterShape
<1>2. /\ filter'.alpha \in 0 .. ParamScale
      /\ CallShape' /\ (call'.dev = "alpha" => call'.alpha \in 0 .. ParamScale)
  <2>1. CASE \E a \in Alphas : WriteAlpha(a)
    BY <2>1 DEF WriteAlpha, AlphaAccepted, AlphaSet, Calls, CallShape, RangeInv, FilterTypes,
                FilterShape
  <2>2. CASE ResetFilter
    BY <2>2, FilterAssumption DEF ResetFilter, ResetAlpha, CallShape, RangeInv, FilterTypes,
                                  FilterShape
  <2> QED BY <2>1, <2>2
<1>3. UNCHANGED history
  BY DEF WriteAlpha, ResetFilter
<1> QED BY <1>1, <1>2, <1>3 DEF RangeInv, FilterTypes, Smoothed, SeenInside, history

LEMMA FinishRange ==
  ASSUME RangeInv, Finish
  PROVE  RangeInv'
<1> USE DEF RangeInv, FilterTypes
<1>1. /\ FilterShape' /\ filter'.alpha = filter.alpha /\ filter'.values = filter.values
      /\ filter'.ready = (IF call.dev = "filter" THEN {} ELSE filter.ready)
      /\ filter'.fault = (IF call.dev = "filter" THEN {} ELSE filter.fault)
      /\ filter'.oneMinusAlpha = (IF call.dev = "alpha" THEN ParamScale - call.alpha
                                  ELSE filter.oneMinusAlpha)
  BY DEF Finish, FilterSwitched, AlphaSettled, FilterShape
<1>2. filter'.oneMinusAlpha \in 0 .. ParamScale
  BY <1>1, FilterAssumption
<1>3. CallShape' /\ call'.dev = "none"
  BY DEF Finish, CallShape, NoCall
<1>4. /\ seen' = IF call.dev = "filter" THEN [i \in Filtered |-> {}] ELSE seen
      /\ uneven' = uneven /\ left' = left
  BY DEF Finish
<1>5. FilterTypes'
  BY <1>1, <1>2, <1>3, <1>4
<1>6. Smoothed' /\ SeenInside'
  BY <1>1, <1>4 DEF Smoothed, SeenInside
<1> QED BY <1>5, <1>6

LEMMA RangeInductive == RangeInv /\ [Next]_vars => RangeInv'
<1> SUFFICES ASSUME RangeInv, [Next]_vars
             PROVE  RangeInv'
  OBVIOUS
<1>1. CASE UNCHANGED vars
  BY <1>1 DEF vars, devices, history, RangeInv, FilterTypes, FilterShape, CallShape,
              Smoothed, SeenInside
<1>2. ASSUME NEW r0 \in Readings[0], NEW r1 \in Readings[1],
             Round([i \in Filtered |-> IF i = 0 THEN r0 ELSE r1])
      PROVE  RangeInv'
  <2> DEFINE answers == [i \in Filtered |-> IF i = 0 THEN r0 ELSE r1]
  <2>1. Answered(answers) /\ Round(answers)
    BY <1>2, RoundAnswered
  <2> HIDE DEF answers
  <2> QED BY <2>1, RoundRange
<1> QED BY <1>1, <1>2, SwitchRange, TuneRange, FinishRange DEF Next

LEMMA RangeInvariant == Spec => []RangeInv
  BY InitRange, RangeInductive, PTL DEF Spec

(* A filtered value that reads without an error lies between two of the      *)
(* samples it was made of, for every scale, alpha and reading, as long as no *)
(* round met alpha and the other weight apart (filter_calc, filter_task).    *)
THEOREM StaysBetweenSamples == Spec => []SmoothedInRange
<1>1. RangeInv => SmoothedInRange
  BY DEF RangeInv, Smoothed, SmoothedInRange, FilterGet
<1> QED BY <1>1, RangeInvariant, PTL

-----------------------------------------------------------------------------
(* The fields of the peak values.                                            *)
PeakTypes ==
  /\ minmax = [active |-> minmax.active, ready |-> minmax.ready,
               minimum |-> minmax.minimum, maximum |-> minmax.maximum]
  /\ minmax.ready \subseteq Peaks
  /\ minmax.minimum \in [Peaks -> Nat] /\ minmax.maximum \in [Peaks -> Nat]
  /\ peaks \in SUBSET Nat

(* The extremes are those of the history, and without a ready flag there is  *)
(* no history.                                                               *)
Extreme ==
  IF 0 \in minmax.ready
  THEN /\ minmax.minimum[0] \in peaks /\ minmax.maximum[0] \in peaks
       /\ \A v \in peaks : minmax.minimum[0] <= v /\ v <= minmax.maximum[0]
  ELSE peaks = {}

PeakInv == PeakTypes /\ Extreme

LEMMA InitPeaks == Init => PeakInv
<1>1. Peaks = {0}
  BY PipelineAssumption DEF Peaks
<1> QED BY <1>1 DEF Init, MinMaxData, PeakInv, PeakTypes, Extreme

LEMMA RoundPeaks ==
  ASSUME RangeInv, RangeInv', PeakInv, NEW answers, Round(answers)
  PROVE  PeakInv'
<1> DEFINE value == filter'.values[0]
           got == FilterGet(filter', 0).rc = "ok"
<1>1. Peaks = {0} /\ 0 \in Filtered
  BY PipelineAssumption DEF Peaks
<1>2. value \in Nat
  BY <1>1 DEF RangeInv, FilterTypes
<1>3. CASE ~(minmax.active /\ got)
  <2>1. peaks' = peaks
    BY <1>3 DEF Round
  <2>2. minmax' = minmax
    <3>1. CASE ~minmax.active
      BY <3>1 DEF Round, MinMaxSync
    <3>2. CASE minmax.active
      <4> DEFINE reads == Filters(filter')
      <4>1. reads[0].rc # "ok"
        BY <1>1, <1>3, <3>2 DEF Filters
      <4>2. {p \in Peaks : reads[p].rc = "ok"} = {}
        BY <1>1, <4>1
      <4>3. minmax' = MinMaxTask(minmax, reads)
        BY <3>2 DEF Round, MinMaxSync
      <4>4. minmax' = [minmax EXCEPT
              !.minimum = [p \in Peaks |->
                IF p \in {} /\ (p \notin minmax.ready \/ reads[p].val < minmax.minimum[p])
                THEN reads[p].val ELSE minmax.minimum[p]],
              !.maximum = [p \in Peaks |->
                IF p \in {} /\ (p \notin minmax.ready \/ reads[p].val > minmax.maximum[p])
                THEN reads[p].val ELSE minmax.maximum[p]],
              !.ready = minmax.ready \cup {}]
        BY <4>2, <4>3, Zenon DEF MinMaxTask
      <4> HIDE DEF reads
      <4> QED BY <4>4 DEF PeakInv, PeakTypes
    <3> QED BY <3>1, <3>2
  <2> QED BY <2>1, <2>2 DEF PeakInv, PeakTypes, Extreme
<1>4. CASE minmax.active /\ got
  <2> DEFINE first == 0 \notin minmax.ready
  <2>1. /\ minmax' = MinMaxTask(minmax, Filters(filter'))
        /\ peaks' = peaks \cup {value}
    BY <1>4 DEF Round, MinMaxSync
  <2>2. Filters(filter')[0].rc = "ok" /\ Filters(filter')[0].val = value
    BY <1>1, <1>4 DEF Filters, FilterGet
  <2>3. {p \in Peaks : Filters(filter')[p].rc = "ok"} = {0}
    BY <1>1, <2>2
  <2>4. /\ minmax'.ready = {0}
        /\ minmax'.minimum = [p \in Peaks |-> IF first \/ value < minmax.minimum[0]
                                              THEN value ELSE minmax.minimum[0]]
        /\ minmax'.maximum = [p \in Peaks |-> IF first \/ value > minmax.maximum[0]
                                              THEN value ELSE minmax.maximum[0]]
        /\ minmax' = [active |-> minmax'.active, ready |-> minmax'.ready,
                      minimum |-> minmax'.minimum, maximum |-> minmax'.maximum]
    <3> DEFINE reads == Filters(filter')
    <3>1. minmax' = [minmax EXCEPT
            !.minimum = [p \in Peaks |->
              IF p \in {0} /\ (p \notin minmax.ready \/ reads[p].val < minmax.minimum[p])
              THEN reads[p].val ELSE minmax.minimum[p]],
            !.maximum = [p \in Peaks |->
              IF p \in {0} /\ (p \notin minmax.ready \/ reads[p].val > minmax.maximum[p])
              THEN reads[p].val ELSE minmax.maximum[p]],
            !.ready = minmax.ready \cup {0}]
      BY <2>1, <2>3, Zenon DEF MinMaxTask
    <3> HIDE DEF value, reads
    <3>2. minmax.ready \cup {0} = {0}
      BY <1>1 DEF PeakInv, PeakTypes
    <3>3. reads[0].val = value
      BY <2>2 DEF reads
    <3>4. /\ minmax'.ready = {0}
          /\ minmax' = [active |-> minmax'.active, ready |-> minmax'.ready,
                        minimum |-> minmax'.minimum, maximum |-> minmax'.maximum]
      BY <3>1, <3>2 DEF PeakInv, PeakTypes
    <3>5. minmax'.minimum = [p \in Peaks |-> IF first \/ value < minmax.minimum[0]
                                              THEN value ELSE minmax.minimum[0]]
      BY <1>1, <3>1, <3>3 DEF PeakInv, PeakTypes
    <3>6. minmax'.maximum = [p \in Peaks |-> IF first \/ value > minmax.maximum[0]
                                              THEN value ELSE minmax.maximum[0]]
      BY <1>1, <3>1, <3>3 DEF PeakInv, PeakTypes
    <3> QED BY <3>4, <3>5, <3>6
  <2>5. PeakTypes'
    BY <1>1, <1>2, <2>1, <2>4 DEF PeakInv, PeakTypes
  <2> HIDE DEF value
  <2>6. Extreme'
    BY <1>1, <1>2, <2>1, <2>4 DEF PeakInv, PeakTypes, Extreme
  <2> QED BY <2>5, <2>6 DEF PeakInv
<1> QED BY <1>3, <1>4

LEMMA StepPeaks ==
  ASSUME RangeInv, RangeInv', PeakInv, [Next]_vars
  PROVE  PeakInv'
<1> USE DEF PeakInv, PeakTypes, Extreme
<1>1. ASSUME NEW r0 \in Readings[0], NEW r1 \in Readings[1],
             Round([i \in Filtered |-> IF i = 0 THEN r0 ELSE r1])
      PROVE  PeakInv'
  <2> DEFINE answers == [i \in Filtered |-> IF i = 0 THEN r0 ELSE r1]
  <2> HIDE DEF answers
  <2> QED BY <1>1, RoundPeaks DEF answers
<1>2. ASSUME NEW on \in BOOLEAN, SwitchMinMax(on)
      PROVE  PeakInv'
  BY <1>2 DEF SwitchMinMax, MinMaxSwitch, history
<1>3. ASSUME NEW on \in BOOLEAN,
             SwitchFilter(on) \/ SwitchMix(on) \/ SwitchCalc(on) \/ SwitchMonitor(on)
      PROVE  PeakInv'
  <2>1. minmax' = minmax /\ peaks' = peaks
    BY <1>3 DEF SwitchFilter, SwitchMix, SwitchCalc, SwitchMonitor, history
  <2> QED BY <2>1
<1>4. CASE (\E a \in Alphas : WriteAlpha(a)) \/ ResetFilter \/ UNCHANGED vars
  <2>1. minmax' = minmax /\ peaks' = peaks
    BY <1>4 DEF WriteAlpha, ResetFilter, history, vars, devices
  <2> QED BY <2>1
<1>5. CASE Finish
  <2>1. CASE call.dev = "minmax"
    BY <1>5, <2>1 DEF Finish, MinMaxSwitched
  <2>2. CASE call.dev # "minmax"
    BY <1>5, <2>2 DEF Finish
  <2> QED BY <2>1, <2>2
<1> QED BY <1>1, <1>2, <1>3, <1>4, <1>5 DEF Next

(* The peak values are the extremes of the filter outputs since they were    *)
(* reset, whatever rounds come between the two writes of a call (minmax_task,*)
(* minmax_value_set).                                                        *)
THEOREM PeaksAreExtremes == Spec => []PeaksExact
<1>1. RangeInv /\ PeakInv /\ [Next]_vars => (RangeInv /\ PeakInv)'
  BY RangeInductive, StepPeaks
<1>2. PeakInv => PeaksExact
  <2> SUFFICES ASSUME PeakInv, 0 \in minmax.ready
               PROVE  /\ peaks # {}
                      /\ minmax.minimum[0] = Low(peaks) /\ minmax.maximum[0] = High(peaks)
    BY DEF PeaksExact, MinMaxGet, ChIdx, IsMinimum
  <2>1. /\ minmax.minimum[0] \in peaks /\ minmax.maximum[0] \in peaks /\ peaks \in SUBSET Nat
        /\ \A v \in peaks : minmax.minimum[0] <= v /\ v <= minmax.maximum[0]
    BY DEF PeakInv, PeakTypes, Extreme
  <2>2. Low(peaks) \in peaks /\ \A v \in peaks : Low(peaks) <= v
    BY <2>1 DEF Low, Min
  <2>3. High(peaks) \in peaks /\ \A v \in peaks : High(peaks) >= v
    BY <2>1 DEF High, Max
  <2> DEFINE least == minmax.minimum[0]
             most == minmax.maximum[0]
  <2>4. \A v \in peaks : v \in Nat
    BY <2>1
  <2>5. least \in Nat /\ most \in Nat /\ Low(peaks) \in Nat /\ High(peaks) \in Nat
    BY <2>1, <2>2, <2>3, <2>4
  <2>6. least <= Low(peaks) /\ Low(peaks) <= least
    BY <2>1, <2>2
  <2>7. most <= High(peaks) /\ High(peaks) <= most
    BY <2>1, <2>3, <2>5
  <2> HIDE DEF least, most
  <2>8. least = Low(peaks) /\ most = High(peaks)
    BY <2>5, <2>6, <2>7
  <2> QED BY <2>1, <2>8 DEF least, most
<1> QED BY InitRange, InitPeaks, <1>1, <1>2, PTL DEF Spec

-----------------------------------------------------------------------------
(* The sum of the mixer over its two inputs, in either order.                *)
Part(d, reads, i) == (reads[i].val * d.weights[i]) \div WeightScale

LEMMA MixSumOfTwo ==
  ASSUME NEW d, NEW reads
  PROVE  MixSum(d, reads) \in {0 + Part(d, reads, 0) + Part(d, reads, 1),
                              0 + Part(d, reads, 1) + Part(d, reads, 0)}
<1> DEFINE part(i) == Part(d, reads, i)
           pick(s) == CHOOSE x \in s : TRUE
           step(f, s) == IF s = {} THEN 0 ELSE f[s \ {pick(s)}] + part(pick(s))
           one(s) == IF s = {} THEN 0 ELSE 0 + part(pick(s))
           sums == [s \in SUBSET Inputs |->
                      IF s = Inputs THEN one(s \ {pick(s)}) + part(pick(s)) ELSE one(s)]
           fold == CHOOSE f : f = [s \in SUBSET Inputs |-> step(f, s)]
<1>1. Inputs = {0, 1}
  BY PipelineAssumption DEF Inputs
<1>2. MixSum(d, reads) = fold[Inputs]
  BY DEF MixSum, FoldSet, MapThenFoldSet, Part
<1>3. pick({0}) = 0 /\ pick({1}) = 1 /\ pick({0, 1}) \in {0, 1}
  OBVIOUS
<1> HIDE DEF part, pick
<1>4. sums = [s \in SUBSET Inputs |-> step(sums, s)]
  <2>1. ASSUME NEW s \in SUBSET Inputs
        PROVE  sums[s] = step(sums, s)
    <3>1. CASE s = {}
      BY <1>1, <3>1
    <3>2. CASE s = {0} \/ s = {1}
      <4>1. s \ {pick(s)} = {}
        BY <1>3, <3>2
      <4>2. sums[s \ {pick(s)}] = 0
        BY <1>1, <4>1
      <4> QED BY <1>1, <3>2, <4>2
    <3>3. CASE s = {0, 1}
      <4>1. s \ {pick(s)} \in {{0}, {1}}
        BY <1>3, <3>3
      <4>2. sums[s \ {pick(s)}] = one(s \ {pick(s)})
        BY <1>1, <4>1
      <4>3. s = Inputs /\ s # {}
        BY <1>1, <3>3
      <4> QED BY <4>2, <4>3
    <3>4. s = {} \/ s = {0} \/ s = {1} \/ s = {0, 1}
      BY <1>1
    <3> QED BY <3>1, <3>2, <3>3, <3>4
  <2> DEFINE steps == [s \in SUBSET Inputs |-> step(sums, s)]
  <2>2. \A s \in SUBSET Inputs : sums[s] = steps[s]
    BY <2>1
  <2>3. sums = [s \in SUBSET Inputs |-> sums[s]]
    OBVIOUS
  <2> HIDE DEF sums, step
  <2> QED BY <2>2, <2>3
<1>5. \A s \in SUBSET Inputs : fold[s] = step(fold, s)
  <2> HIDE DEF sums, step
  <2>1. fold = [s \in SUBSET Inputs |-> step(fold, s)]
    BY <1>4
  <2> HIDE DEF fold
  <2> QED BY <2>1
<1> HIDE DEF fold
<1>6. fold[{}] = 0
  BY <1>5
<1>7. \A x \in {0, 1} : fold[{x}] = 0 + part(x)
  <2> TAKE x \in {0, 1}
  <2>1. {x} \in SUBSET Inputs /\ {x} # {} /\ pick({x}) = x /\ {x} \ {x} = {}
    BY <1>1, <1>3
  <2> QED BY <1>5, <1>6, <2>1
<1>8. \A x, y \in {0, 1} : pick({0, 1}) = x /\ y # x => fold[{0, 1}] = 0 + part(y) + part(x)
  <2> TAKE x \in {0, 1}, y \in {0, 1}
  <2> HAVE pick({0, 1}) = x /\ y # x
  <2>1. {0, 1} \ {x} = {y}
    OBVIOUS
  <2>2. {0, 1} \in SUBSET Inputs /\ {0, 1} # {}
    BY <1>1
  <2>3. fold[{0, 1}] = fold[{0, 1} \ {x}] + part(x)
    BY <1>5, <2>2
  <2> QED BY <1>7, <2>1, <2>3
<1> QED BY <1>1, <1>2, <1>3, <1>8 DEF part

(* The monitor and the mixer it watches.                                     *)
AlarmTypes ==
  /\ monitor = [active |-> monitor.active, fault |-> monitor.fault, calls |-> monitor.calls]
  /\ monitor.fault \in BOOLEAN
  /\ MixShape /\ mix.weights = DefaultWeights

(* A fault has been told once and has its reason, and a mixed value that is  *)
(* ready gives none.                                                         *)
Justified ==
  /\ monitor.calls = IF monitor.fault THEN 1 ELSE 0
  /\ monitor.fault /\ ~uneven => left
  /\ mix.ready /\ ~uneven /\ ~left => mix.output \in Minimum .. Maximum

AlarmInv == AlarmTypes /\ Justified

LEMMA InitAlarm == Init => AlarmInv
  BY MixAssumption DEF Init, MonitorData, MixData, AlarmInv, AlarmTypes, MixShape, Justified

(* A round, with what the drivers behind the filter read of it in between.   *)
LEMMA RoundAlarm ==
  ASSUME WeightsFit, RangeInv', AlarmInv, NEW answers, Round(answers)
  PROVE  AlarmInv'
<1>1. AlarmTypes'
  BY DEF AlarmInv, AlarmTypes, MixShape, Round, MixSync, MixTask, MonitorSync, MonitorTask
<1>2. ASSUME ~uneven', ~left', NEW i \in Filtered, FilterGet(filter', i).rc = "ok"
      PROVE  FilterGet(filter', i).val \in Nat \cap Minimum .. Maximum
  <2>1. i \in filter'.ready /\ FilterGet(filter', i).val = filter'.values[i]
    BY <1>2 DEF FilterGet
  <2>2. PICK lo \in seen'[i], hi \in seen'[i] : lo <= filter'.values[i] /\ filter'.values[i] <= hi
    BY <1>2, <2>1 DEF RangeInv, Smoothed
  <2>3. lo \in Minimum .. Maximum /\ hi \in Minimum .. Maximum /\ filter'.values[i] \in Nat
    BY <1>2 DEF RangeInv, SeenInside, FilterTypes
  <2> QED BY <2>1, <2>2, <2>3, MonitorAssumption
<1>3. ASSUME mix'.ready, ~uneven', ~left'
      PROVE  mix'.output \in Minimum .. Maximum
  <2>1. CASE ~mix.active
    BY <1>3, <2>1 DEF Round, MixSync, AlarmInv, Justified
  <2>2. CASE mix.active
    <3> DEFINE reads == Filters(filter')
    <3>1. /\ \A i \in Inputs : reads[i].rc = "ok"
          /\ mix'.output = MixSum(mix, reads)
      BY <1>3, <2>2 DEF Round, MixSync, MixTask, AlarmInv, AlarmTypes, MixShape
    <3>2. \A i \in {0, 1} : i \in Inputs /\ i \in Filtered
      BY PipelineAssumption DEF Inputs
    <3>3. \A i \in {0, 1} : reads[i].val \in Nat \cap Minimum .. Maximum
      BY <1>2, <1>3, <3>1, <3>2 DEF Filters
    <3> HIDE DEF reads
    <3>4. /\ Part(mix, reads, 0) = (reads[0].val * DefaultWeights[0]) \div WeightScale
          /\ Part(mix, reads, 1) = (reads[1].val * DefaultWeights[1]) \div WeightScale
      BY DEF Part, AlarmInv, AlarmTypes
    <3>5. Part(mix, reads, 0) + Part(mix, reads, 1) \in Minimum .. Maximum
      BY <3>3, <3>4 DEF WeightsFit
    <3>6. Part(mix, reads, 0) \in Int /\ Part(mix, reads, 1) \in Int
      <4>1. /\ DefaultWeights[0] \in Int /\ DefaultWeights[1] \in Int
            /\ WeightScale \in Nat \ {0}
        BY <3>2, MixAssumption
      <4>2. \A i \in {0, 1} : reads[i].val * DefaultWeights[i] \in Int
        BY <3>3, <4>1
      <4> QED BY <3>4, <4>1, <4>2
    <3> QED BY <3>1, <3>5, <3>6, MixSumOfTwo
  <2> QED BY <2>1, <2>2
<1>4. ASSUME ~uneven', ~left', NEW w \in Watched
      PROVE  ~Outside(Monitored(mix', filter')[w])
  <2>1. w \in {0, 1} /\ 1 \in Filtered
    BY PipelineAssumption DEF Watched
  <2>2. CASE w = 0
    BY <1>3, <1>4, <2>2, MonitorAssumption DEF Monitored, MixGet, Outside
  <2>3. CASE w = 1
    BY <1>2, <1>4, <2>1, <2>3, MonitorAssumption DEF Monitored, Outside
  <2> QED BY <2>1, <2>2, <2>3
<1>5. (uneven => uneven') /\ (left => left')
  BY DEF Round
<1>6. CASE monitor' = monitor
  BY <1>1, <1>3, <1>5, <1>6 DEF AlarmInv, Justified
<1>7. CASE monitor' # monitor
  <2>1. /\ ~monitor.fault /\ monitor'.fault /\ monitor'.calls = monitor.calls + 1
        /\ \E w \in Watched : Outside(Monitored(mix', filter')[w])
    BY <1>7 DEF Round, MonitorSync, MonitorTask, AlarmInv, AlarmTypes
  <2> QED BY <1>1, <1>3, <1>4, <2>1 DEF AlarmInv, Justified
<1> QED BY <1>1, <1>6, <1>7 DEF AlarmInv

LEMMA StepAlarm ==
  ASSUME WeightsFit, RangeInv', AlarmInv, [Next]_vars
  PROVE  AlarmInv'
<1> USE DEF AlarmInv, AlarmTypes, Justified
<1>1. ASSUME NEW r0 \in Readings[0], NEW r1 \in Readings[1],
             Round([i \in Filtered |-> IF i = 0 THEN r0 ELSE r1])
      PROVE  AlarmInv'
  <2> DEFINE answers == [i \in Filtered |-> IF i = 0 THEN r0 ELSE r1]
  <2> HIDE DEF answers, AlarmInv
  <2> QED BY <1>1, RoundAlarm DEF answers
<1>2. ASSUME NEW on \in BOOLEAN,
             SwitchFilter(on) \/ SwitchMix(on) \/ SwitchCalc(on) \/ SwitchMinMax(on)
               \/ SwitchMonitor(on)
      PROVE  AlarmInv'
  <2>1. uneven' = uneven /\ left' = left
    BY <1>2 DEF SwitchFilter, SwitchMix, SwitchCalc, SwitchMinMax, SwitchMonitor, history
  <2>2. /\ MixShape' /\ mix'.weights = mix.weights /\ mix'.ready = mix.ready
        /\ mix'.output = mix.output
    BY <1>2 DEF SwitchFilter, SwitchMix, MixSwitch, SwitchCalc, SwitchMinMax, SwitchMonitor,
                MixShape
  <2>3. /\ monitor' = [active |-> monitor'.active, fault |-> monitor'.fault,
                       calls |-> monitor'.calls]
        /\ monitor'.fault = monitor.fault /\ monitor'.calls = monitor.calls
    BY <1>2 DEF SwitchFilter, SwitchMix, SwitchCalc, SwitchMinMax, SwitchMonitor, MonitorSwitch
  <2> QED BY <2>1, <2>2, <2>3
<1>3. CASE (\E a \in Alphas : WriteAlpha(a)) \/ ResetFilter \/ UNCHANGED vars
  <2>1. UNCHANGED <<mix, monitor, uneven, left>>
    BY <1>3 DEF WriteAlpha, ResetFilter, history, vars, devices
  <2> QED BY <2>1 DEF MixShape
<1>4. CASE Finish
  <2>1. uneven' = uneven /\ left' = left
    BY <1>4 DEF Finish
  <2>2. /\ MixShape' /\ mix'.weights = mix.weights /\ mix'.output = mix.output
        /\ mix'.ready => mix.ready
    BY <1>4 DEF Finish, MixSwitched, MixShape
  <2>3. \/ monitor' = monitor
        \/ monitor' = [active |-> monitor.active, fault |-> FALSE, calls |-> 0]
    BY <1>4 DEF Finish, MonitorSwitched
  <2>4. /\ monitor' = [active |-> monitor'.active, fault |-> monitor'.fault,
                       calls |-> monitor'.calls]
        /\ monitor'.fault \in BOOLEAN /\ (monitor'.fault => monitor.fault)
        /\ monitor'.calls = IF monitor'.fault THEN 1 ELSE 0
    <3>1. CASE monitor' = monitor
      BY <3>1
    <3>2. CASE monitor' = [active |-> monitor.active, fault |-> FALSE, calls |-> 0]
      BY <3>2
    <3> QED BY <2>3, <3>1, <3>2
  <2> QED BY <2>1, <2>2, <2>4
<1> QED BY <1>1, <1>2, <1>3, <1>4 DEF Next

(* With weights that suit the limits, the monitor of the mixed and the       *)
(* filtered value never latches a fault while every sample was inside the    *)
(* limits and no round met alpha and the other weight apart, and a fault is  *)
(* told once (monitor_task, behind mix_task and filter_task).                *)
THEOREM AlarmsHaveReasons ==
  ASSUME WeightsFit
  PROVE  Spec => []NoFalseAlarm
<1>1. RangeInv /\ AlarmInv /\ [Next]_vars => (RangeInv /\ AlarmInv)'
  BY RangeInductive, StepAlarm
<1>2. AlarmInv => NoFalseAlarm
  BY DEF AlarmInv, AlarmTypes, Justified, NoFalseAlarm
<1> QED BY InitRange, InitAlarm, <1>1, <1>2, PTL DEF Spec

-----------------------------------------------------------------------------
(* What starts at 0 and never stops holds for every natural number.          *)
LEMMA NatSteps ==
  ASSUME NEW S, 0 \in S, \A n \in Nat : n \in S => n + 1 \in S
  PROVE  Nat \subseteq S
<1> DEFINE T == {n \in Nat : n \notin S}
<1> SUFFICES ASSUME T # {}
             PROVE  FALSE
  OBVIOUS
<1>1. IsWellFoundedOn(OpToRel(<, Nat), Nat)
  BY NatLessThanWellFounded, Zenon
<1>2. T \subseteq Nat
  OBVIOUS
<1> HIDE DEF T
<1>3. PICK m \in T : \A k \in T : ~(<<k, m>> \in OpToRel(<, Nat))
  BY <1>1, <1>2, WFMin, Zenon
<1>4. \A k \in T : ~(k < m)
  <2>1. \A k \in T : k < m => <<k, m>> \in OpToRel(<, Nat)
    BY <1>2, Zenon DEF OpToRel
  <2> QED BY <1>3, <2>1, Zenon
<1> HIDE <1>3
<1>5. m \in Nat /\ m \notin S
  BY DEF T
<1>6. m # 0 /\ m - 1 \in Nat /\ m - 1 < m
  BY <1>5
<1>7. m - 1 \notin T
  BY <1>4, <1>6
<1> QED BY <1>5, <1>6, <1>7 DEF T

(* A declared operation, taken apart.                                        *)
Names == Readable \cup {Program[k].name : k \in 1 .. Len(Program)}

LEMMA ProgramIsList == Program \in Seq(Operation) /\ Len(Program) \in Nat
<1>1. Program \in Seq(Operation)
  BY CalcAssumption, Zenon
<1> QED BY <1>1

LEMMA OperationFacts ==
  ASSUME NEW k \in 1 .. Len(Program)
  PROVE  /\ Program[k].op \in Op1 \cup Op2
         /\ Program[k].id \in Results \cup {NoId}
         /\ Len(Program[k].args) = IF Program[k].op \in Op1 THEN 1 ELSE 2
         /\ DOMAIN Program[k].args = IF Program[k].op \in Op1 THEN {1} ELSE {1, 2}
         /\ \A i \in DOMAIN Program[k].args :
              /\ Program[k].args[i].const \in Int
              /\ Program[k].args[i].name \in {""} \cup NamesBefore(k)
         /\ Program[k].name = "" \/ Program[k].name \notin NamesBefore(k)
         /\ NamesBefore(k) \subseteq Names /\ Program[k].name \in Names
<1>1. Program[k] \in Operation
  BY ProgramIsList
<1> DEFINE o == Program[k]
<1>2. o.op \in Op1 \cup Op2 /\ o.id \in Results \cup {NoId}
  BY <1>1 DEF Operation
<1>3. o.args \in Seq([name : STRING, const : Int])
  BY <1>1 DEF Operation
<1>4. /\ Len(o.args) = IF o.op \in Op1 THEN 1 ELSE 2
      /\ \A i \in DOMAIN o.args : o.args[i].name \in {""} \cup NamesBefore(k)
      /\ o.name = "" \/ o.name \notin NamesBefore(k)
  BY CalcAssumption, Zenon
<1>5. DOMAIN o.args = IF o.op \in Op1 THEN {1} ELSE {1, 2}
  <2>1. DOMAIN o.args = 1 .. Len(o.args)
    BY <1>3
  <2>2. 1 .. 1 = {1} /\ 1 .. 2 = {1, 2}
    OBVIOUS
  <2> HIDE DEF o
  <2> QED BY <1>4, <2>1, <2>2
<1>6. \A i \in DOMAIN o.args : o.args[i].const \in Int
  <2> TAKE i \in DOMAIN o.args
  <2> DEFINE A == [name : STRING, const : Int]
             args == o.args
  <2>0. args \in Seq(A)
    BY <1>3
  <2> HIDE DEF A, args, o
  <2>2. \A j \in DOMAIN args : args[j] \in A
    BY <2>0
  <2>3. i \in DOMAIN args
    BY DEF args
  <2> USE DEF A, args
  <2>1. o.args[i] \in [name : STRING, const : Int]
    BY <2>2, <2>3
  <2> QED BY <2>1
<1>7. NamesBefore(k) \subseteq Names /\ o.name \in Names
  <2>1. \A j \in 1 .. k - 1 : j \in 1 .. Len(Program)
    BY ProgramIsList
  <2>2. {Program[j].name : j \in 1 .. k - 1} \subseteq {Program[j].name : j \in 1 .. Len(Program)}
    BY <2>1, Zenon
  <2>3. o.name \in {Program[j].name : j \in 1 .. Len(Program)}
    BY Zenon
  <2> QED BY <2>2, <2>3 DEF NamesBefore, Names
<1> QED BY <1>2, <1>4, <1>5, <1>6, <1>7, Zenon

(* The loop of calc_func: an operation after the other.                      *)
LEMMA AfterDefined ==
  ASSUME NEW d, NEW inputs
  PROVE  \A k \in 0 .. Len(Program) :
           After(d, inputs)[k] = IF k = 0 THEN Start(d, inputs)
                                 ELSE OpImpl(After(d, inputs)[k - 1], Program[k])
<1> DEFINE n == Len(Program)
           More(f, k) == IF k = 0 THEN Start(d, inputs) ELSE OpImpl(f[k - 1], Program[k])
           Ends(f, k) == f = [j \in 0 .. k |-> More(f, j)]
           Far == {k \in Nat : \E f : Ends(f, k)}
<1>1. 0 \in Far
  <2>1. Ends([j \in 0 .. 0 |-> Start(d, inputs)], 0)
    OBVIOUS
  <2> HIDE DEF Ends
  <2> QED BY <2>1
<1>2. ASSUME NEW k \in Nat, k \in Far
      PROVE  k + 1 \in Far
  <2>1. PICK f : Ends(f, k)
    <3> HIDE DEF Ends
    <3> QED BY <1>2
  <2> DEFINE g == [j \in 0 .. k + 1 |-> IF j = k + 1 THEN More(f, j) ELSE f[j]]
  <2>2. ASSUME NEW j \in 0 .. k + 1
        PROVE  g[j] = More(g, j)
    <3>1. More(g, j) = More(f, j)
      <4>1. CASE j = 0
        BY <4>1
      <4>2. CASE j # 0
        <5>1. j - 1 \in 0 .. k + 1 /\ j - 1 # k + 1
          BY <4>2
        <5>2. g[j - 1] = f[j - 1]
          BY <5>1
        <5> QED BY <4>2, <5>2
      <4> QED BY <4>1, <4>2
    <3>2. CASE j = k + 1
      BY <3>1, <3>2
    <3>3. CASE j # k + 1
      <4>1. j \in 0 .. k
        BY <3>3
      <4>2. f[j] = More(f, j)
        BY <2>1, <4>1
      <4> QED BY <3>1, <3>3, <4>2
    <3> QED BY <3>2, <3>3
  <2>3. Ends(g, k + 1)
    BY <2>2
  <2> HIDE DEF Ends
  <2> QED BY <2>3
<1>3. n \in Far
  <2>1. n \in Nat
    BY ProgramIsList
  <2> HIDE DEF Far
  <2> QED BY <1>1, <1>2, <2>1, NatSteps
<1>4. \E f : f = [j \in 0 .. n |-> More(f, j)]
  BY <1>3
<1> QED BY <1>4 DEF After

(* The meaning of an operation is made of those before it.                   *)
Of(f, x, k, a) ==
  IF a.name = "" THEN {a.const}
  ELSE IF a.name \in Readable THEN {x[a.name]} ELSE f[Writer(k, a.name)]

Operands(f, x, k) == [i \in DOMAIN Program[k].args |-> Of(f, x, k, Program[k].args[i])]

LEMMA WriterBefore ==
  ASSUME NEW k \in 1 .. Len(Program), NEW i \in DOMAIN Program[k].args,
         Program[k].args[i].name # "", Program[k].args[i].name \notin Readable
  PROVE  /\ Writer(k, Program[k].args[i].name) \in 1 .. k - 1
         /\ Program[Writer(k, Program[k].args[i].name)].name = Program[k].args[i].name
<1>1. Program[k].args[i].name \in NamesBefore(k)
  BY OperationFacts, Zenon
<1>2. \E j \in 1 .. k - 1 : Program[j].name = Program[k].args[i].name
  BY <1>1, Zenon DEF NamesBefore
<1> QED BY <1>2, Zenon DEF Writer

LEMMA MeaningDefined ==
  ASSUME NEW x
  PROVE  \A k \in 1 .. Len(Program) :
           Meaning(x)[k] = Outcomes(Program[k].op, Operands(Meaning(x), x, k))
<1> DEFINE n == Len(Program)
           More(f, k) == Outcomes(Program[k].op, Operands(f, x, k))
           Ends(f, k) == f = [j \in 1 .. k |-> More(f, j)]
           Far == {k \in Nat : k <= n => \E f : Ends(f, k)}
<1>0. n \in Nat
  BY ProgramIsList
<1>1. 0 \in Far
  <2>1. Ends([j \in 1 .. 0 |-> {}], 0)
    OBVIOUS
  <2> HIDE DEF Ends
  <2> QED BY <2>1
<1>2. ASSUME NEW k \in Nat, k \in Far
      PROVE  k + 1 \in Far
  <2> SUFFICES ASSUME k + 1 <= n
               PROVE  \E f : Ends(f, k + 1)
    <3> HIDE DEF Ends
    <3> QED OBVIOUS
  <2>1. PICK f : Ends(f, k)
    <3> HIDE DEF Ends
    <3> QED BY <1>0, <1>2
  <2> DEFINE g == [j \in 1 .. k + 1 |-> IF j = k + 1 THEN More(f, j) ELSE f[j]]
  <2>2. ASSUME NEW j \in 1 .. k + 1
        PROVE  g[j] = More(g, j)
    <3>0. j \in 1 .. n
      BY <1>0
    <3>1. More(g, j) = More(f, j)
      <4>1. ASSUME NEW i \in DOMAIN Program[j].args
            PROVE  Of(g, x, j, Program[j].args[i]) = Of(f, x, j, Program[j].args[i])
        <5> DEFINE a == Program[j].args[i]
        <5>1. CASE a.name = "" \/ a.name \in Readable
          BY <5>1 DEF Of
        <5>2. CASE a.name # "" /\ a.name \notin Readable
          <6>1. Writer(j, a.name) \in 1 .. j - 1
            BY <3>0, <5>2, WriterBefore
          <6>2. Writer(j, a.name) \in 1 .. k + 1 /\ Writer(j, a.name) # k + 1
            BY <6>1
          <6> HIDE DEF a
          <6>3. g[Writer(j, a.name)] = f[Writer(j, a.name)]
            BY <6>2
          <6> USE DEF a
          <6> HIDE DEF g
          <6> QED BY <5>2, <6>3, Zenon DEF Of
        <5> QED BY <5>1, <5>2
      <4> HIDE DEF g
      <4>2. Operands(g, x, j) = Operands(f, x, j)
        BY <4>1 DEF Operands
      <4> QED BY <4>2
    <3>2. CASE j = k + 1
      <4> HIDE DEF More
      <4> QED BY <3>1, <3>2
    <3>3. CASE j # k + 1
      <4>1. j \in 1 .. k
        BY <3>3
      <4> HIDE DEF More
      <4>2. f[j] = More(f, j)
        BY <2>1, <4>1
      <4> QED BY <3>1, <3>3, <4>2
    <3> QED BY <3>2, <3>3
  <2>3. Ends(g, k + 1)
    <3> HIDE DEF More
    <3> QED BY <2>2
  <2> HIDE DEF Ends
  <2> QED BY <2>3
<1>3. n \in Far
  <2> HIDE DEF Far
  <2> QED BY <1>0, <1>1, <1>2, NatSteps
<1>4. \E f : f = [j \in 1 .. n |-> More(f, j)]
  <2> HIDE DEF More
  <2> QED BY <1>0, <1>3
<1>5. Meaning(x) = CHOOSE f : f = [j \in 1 .. n |-> More(f, j)]
  BY Zenon DEF Meaning, Operands, Of
<1>6. Meaning(x) = [j \in 1 .. n |-> More(Meaning(x), j)]
  <2> DEFINE Is(f) == f = [j \in 1 .. n |-> More(f, j)]
  <2>1. \E f : Is(f)
    BY <1>4
  <2>2. Meaning(x) = CHOOSE f : Is(f)
    BY <1>5
  <2> HIDE DEF Is
  <2>3. Is(Meaning(x))
    BY <2>1, <2>2
  <2> QED BY <2>3 DEF Is
<1> HIDE DEF More
<1> QED BY <1>6 DEF More

(* What an operation makes of a single value for each operand.               *)
LEMMA OutcomesOne ==
  ASSUME NEW op, NEW D, NEW v, v = [i \in D |-> v[i]], NEW sets, sets = [i \in D |-> {v[i]}]
  PROVE  Outcomes(op, sets) = IF Safe(op, v) THEN {Apply(op, v)} ELSE {}
<1>1. Tuples(sets) = {v}
  <2>1. v \in Tuples(sets)
    BY DEF Tuples
  <2>2. ASSUME NEW w \in Tuples(sets)
        PROVE  w = v
    BY DEF Tuples
  <2> QED BY <2>1, <2>2
<1> QED BY <1>1 DEF Outcomes

LEMMA QuotientInt ==
  ASSUME NEW a \in Int, NEW b \in Int, b # 0
  PROVE  Quotient(a, b) \in Int
<1> DEFINE abs(x) == IF x < 0 THEN -x ELSE x
<1>1. abs(a) \in Nat /\ abs(b) \in Nat \ {0}
  OBVIOUS
<1> HIDE DEF abs
<1>2. abs(a) \div abs(b) \in Int
  BY <1>1
<1>3. -(abs(a) \div abs(b)) \in Int
  BY <1>2
<1> QED BY <1>2, <1>3 DEF Quotient, abs

LEMMA ApplyInt ==
  ASSUME NEW op \in Op1 \cup Op2, NEW v \in [IF op \in Op1 THEN {1} ELSE {1, 2} -> Int],
         Safe(op, v)
  PROVE  Apply(op, v) \in Int
<1>1. op \in {"scl", "neg", "inv", "add", "sub", "mul", "div", "min", "max"}
  BY DEF Op1, Op2
<1>2. v[1] \in Int /\ (op \in Op2 => v[2] \in Int)
  BY DEF Op1, Op2
<1>3. CASE op = "inv"
  <2>1. v \in [1 .. 1 -> Int]
    BY <1>3 DEF Op1
  <2>2. Len(v) = 1
    BY <2>1
  <2>3. v[1] # 0
    BY <1>3, <2>2 DEF Safe
  <2> QED BY <1>2, <1>3, <2>3, QuotientInt DEF Apply
<1>4. CASE op = "div"
  <2>1. v \in [1 .. 2 -> Int]
    BY <1>4 DEF Op1
  <2>2. Len(v) = 2
    BY <2>1
  <2>3. v[2] # 0
    BY <1>4, <2>2 DEF Safe
  <2>4. v[2] \in Int
    BY <1>2, <1>4 DEF Op2
  <2> QED BY <1>2, <1>4, <2>3, <2>4, QuotientInt DEF Apply
<1>5. CASE op = "mul"
  BY <1>2, <1>5 DEF Apply, Op2
<1>6. CASE op \in {"scl", "neg", "add", "sub", "min", "max"}
  BY <1>2, <1>6 DEF Apply, Op2
<1> QED BY <1>1, <1>3, <1>4, <1>5, <1>6

Variable == [ready : BOOLEAN, val : Int]

(* The state of calc_func has its shape.                                     *)
CalcState(s) ==
  /\ s = [vars |-> s.vars, ready |-> s.ready, results |-> s.results]
  /\ s.vars \in [Names -> Variable]
  /\ s.ready \subseteq Results
  /\ s.results \in [Results -> Int]

(* The result r was last written by operation j of the first k.              *)
LastOf(r, j, k) == Program[j].id = r /\ \A i \in j + 1 .. k : Program[i].id # r

(* After k operations every variable and every result that is ready has the  *)
(* one value its operation has; a result not reached yet is as before.       *)
Calculated(s, d, x, k) ==
  /\ \A n \in Readable : s.vars[n].ready => s.vars[n].val = x[n]
  /\ \A j \in 1 .. k : Program[j].name # "" /\ s.vars[Program[j].name].ready =>
       Meaning(x)[j] = {s.vars[Program[j].name].val}
  /\ \A r \in s.ready :
       \/ r \in d.ready /\ \A j \in 1 .. k : Program[j].id # r
       \/ \E j \in 1 .. k : LastOf(r, j, k) /\ Meaning(x)[j] = {s.results[r]}

(* What operation k computes.                                                *)
Computed(s, k) ==
  Apply(Program[k].op,
        [i \in DOMAIN Program[k].args |-> ValueOf(s.vars, Program[k].args[i])])

(* An operation whose arguments are ready is made of their values.           *)
LEMMA RunsOnMeaning ==
  ASSUME NEW s, NEW d, NEW x, NEW k \in 1 .. Len(Program), CalcState(s),
         Calculated(s, d, x, k - 1), Runs(s.vars, Program[k])
  PROVE  Computed(s, k) \in Int /\ Meaning(x)[k] = {Computed(s, k)}
<1> DEFINE o == Program[k]
           D == DOMAIN o.args
           v == [i \in D |-> ValueOf(s.vars, o.args[i])]
<1>1. Safe(o.op, v) /\ \A i \in D : ReadyIn(s.vars, o.args[i])
  BY Zenon DEF Runs
<1>2. ASSUME NEW i \in D
      PROVE  ValueOf(s.vars, o.args[i]) \in Int /\ Of(Meaning(x), x, k, o.args[i]) = {v[i]}
  <2> DEFINE a == o.args[i]
  <2>1. a.const \in Int /\ a.name \in {""} \cup NamesBefore(k) /\ NamesBefore(k) \subseteq Names
    BY OperationFacts, Zenon
  <2>2. v[i] = ValueOf(s.vars, a)
    OBVIOUS
  <2>3. ReadyIn(s.vars, a)
    BY <1>1, Zenon
  <2> HIDE DEF v
  <2>4. CASE a.name = ""
    <3> HIDE DEF a
    <3> QED BY <2>1, <2>2, <2>4, Zenon DEF Of, ValueOf, a
  <2>5. CASE a.name # ""
    <3>1. a.name \in Names /\ s.vars[a.name] \in Variable
      <4> HIDE DEF a
      <4> QED BY <2>1, <2>5 DEF CalcState
    <3>2. s.vars[a.name].ready /\ v[i] = s.vars[a.name].val
      BY <2>2, <2>3, <2>5, Zenon DEF ReadyIn, ValueOf
    <3>3. s.vars[a.name].val \in Int
      BY <3>1 DEF Variable
    <3>4. CASE a.name \in Readable
      <4>1. s.vars[a.name].val = x[a.name]
        BY <3>2, <3>4, Zenon DEF Calculated
      <4>2. Of(Meaning(x), x, k, a) = {x[a.name]}
        BY <2>5, <3>4, Zenon DEF Of
      <4> QED BY <2>2, <3>2, <3>3, <4>1, <4>2, Zenon
    <3>5. CASE a.name \notin Readable
      <4> DEFINE w == Writer(k, a.name)
      <4>1. w \in 1 .. k - 1 /\ Program[w].name = a.name
        BY <2>5, <3>5, WriterBefore, Zenon
      <4>2. Of(Meaning(x), x, k, a) = Meaning(x)[w]
        BY <2>5, <3>5, Zenon DEF Of
      <4> HIDE DEF w
      <4>3. Meaning(x)[w] = {s.vars[a.name].val}
        BY <2>5, <3>2, <4>1, Zenon DEF Calculated
      <4> QED BY <2>2, <3>2, <3>3, <4>2, <4>3, Zenon
    <3> QED BY <3>4, <3>5
  <2> QED BY <2>4, <2>5
<1>3. Operands(Meaning(x), x, k) = [i \in D |-> {v[i]}]
  <2> HIDE DEF v
  <2> QED BY <1>2, Zenon DEF Operands
<1>4. v = [i \in D |-> v[i]]
  OBVIOUS
<1>5. D = (IF o.op \in Op1 THEN {1} ELSE {1, 2}) /\ o.op \in Op1 \cup Op2
  BY OperationFacts, Zenon
<1>6. v \in [D -> Int]
  BY <1>2
<1>7. Apply(o.op, v) \in Int
  <2> HIDE DEF v, o, D
  <2> QED BY <1>1, <1>5, <1>6, ApplyInt
<1>8. Meaning(x)[k] = Outcomes(o.op, Operands(Meaning(x), x, k))
  BY MeaningDefined, Zenon
<1>9. Outcomes(o.op, [i \in D |-> {v[i]}]) = {Apply(o.op, v)}
  <2> HIDE DEF v, o, D
  <2> QED BY <1>1, <1>4, OutcomesOne
<1> HIDE DEF v, o, D
<1>10. Apply(o.op, v) \in Int /\ Meaning(x)[k] = {Apply(o.op, v)}
  BY <1>3, <1>7, <1>8, <1>9
<1> QED BY <1>10, Zenon DEF v, o, D, Computed
LEMMA OpRuns ==
  ASSUME NEW s, NEW d, NEW x, NEW k \in 1 .. Len(Program), CalcState(s),
         Calculated(s, d, x, k - 1), Runs(s.vars, Program[k])
  PROVE  CalcState(OpImpl(s, Program[k])) /\ Calculated(OpImpl(s, Program[k]), d, x, k)
<1> DEFINE o == Program[k]
           val == Computed(s, k)
           t == OpImpl(s, o)
<1>0. Computed(s, k) \in Int /\ Meaning(x)[k] = {Computed(s, k)}
  BY RunsOnMeaning
<1>1. val \in Int /\ Meaning(x)[k] = {val}
  BY <1>0
<1>2. /\ o.id \in Results \cup {NoId} /\ o.name \in Names
      /\ o.name = "" \/ o.name \notin NamesBefore(k)
  BY OperationFacts, Zenon
<1>3. /\ t = [vars |-> t.vars, ready |-> t.ready, results |-> t.results]
      /\ t.vars = [s.vars EXCEPT ![o.name] = [ready |-> TRUE, val |-> val]]
      /\ t.ready = s.ready \cup ({o.id} \ {NoId})
      /\ t.results = [r \in Results |-> IF r = o.id THEN val ELSE s.results[r]]
  BY DEF OpImpl, Computed
<1> HIDE DEF t, o, val
<1>3a. /\ s.vars \in [Names -> Variable] /\ s.ready \subseteq Results
      /\ s.results \in [Results -> Int]
  BY DEF CalcState
<1>3b. [ready |-> TRUE, val |-> val] \in Variable
  BY <1>1 DEF Variable
<1>4. CalcState(t)
  <2>1. t.vars \in [Names -> Variable]
    <3>1. s.vars \in [Names -> Variable]
      BY <1>3a
    <3>2. t.vars = [s.vars EXCEPT ![o.name] = [ready |-> TRUE, val |-> val]]
      BY <1>3
    <3> DEFINE new == [ready |-> TRUE, val |-> val]
    <3> HIDE DEF new
    <3>3. new \in Variable /\ t.vars = [s.vars EXCEPT ![o.name] = new]
      BY <1>3b, <3>2 DEF new
    <3> QED BY <3>1, <3>3
  <2>2. t.ready \subseteq Results
    <3>1. o.id \in Results \/ o.id = NoId
      BY <1>2
    <3>2. ASSUME NEW r \in t.ready
          PROVE  r \in Results
      BY <1>3, <1>3a, <3>1, <3>2, Zenon
    <3> QED BY <3>2
  <2>3. t.results \in [Results -> Int]
    BY <1>1, <1>3, <1>3a
  <2> QED BY <1>3, <2>1, <2>2, <2>3 DEF CalcState
<1>5. t.vars[o.name].val = val
  <2>1. t.vars[o.name] = [ready |-> TRUE, val |-> val]
    BY <1>2, <1>3, <1>3a
  <2> QED BY <2>1
<1>6. \A n \in Names : n # o.name => t.vars[n] = s.vars[n]
  BY <1>3 DEF CalcState
<1>7. /\ \A n \in Readable : n \in Names /\ n # o.name
      /\ \A j \in 1 .. k - 1 : Program[j].name # "" =>
           Program[j].name \in Names /\ Program[j].name # o.name
  <2>1. NamesBefore(k) \subseteq Names /\ "" \notin Readable
    BY OperationFacts, CalcAssumption, Zenon
  <2>2. \A j \in 1 .. k - 1 : Program[j].name \in NamesBefore(k)
    BY Zenon DEF NamesBefore
  <2>3. \A n \in Readable : n \in NamesBefore(k)
    BY Zenon DEF NamesBefore
  <2> QED BY <1>2, <2>1, <2>2, <2>3, Zenon
<1>8. \A n \in Readable : t.vars[n].ready => t.vars[n].val = x[n]
  BY <1>6, <1>7, Zenon DEF Calculated
<1>9. ASSUME NEW j \in 1 .. k, Program[j].name # "", t.vars[Program[j].name].ready
      PROVE  Meaning(x)[j] = {t.vars[Program[j].name].val}
  <2>1. CASE j = k
    BY <1>1, <1>5, <2>1, Zenon DEF o
  <2>2. CASE j # k
    <3>1. j \in 1 .. k - 1
      BY <2>2, ProgramIsList
    <3> QED BY <1>6, <1>7, <1>9, <3>1, Zenon DEF Calculated
  <2> QED BY <2>1, <2>2
<1>10. ASSUME NEW r \in t.ready
       PROVE  \/ r \in d.ready /\ \A j \in 1 .. k : Program[j].id # r
              \/ \E j \in 1 .. k : LastOf(r, j, k) /\ Meaning(x)[j] = {t.results[r]}
  <2>1. CASE r = o.id
    <3>1. r \in Results /\ t.results[r] = val
      BY <1>2, <1>3, <2>1 DEF CalcState
    <3>2. LastOf(r, k, k) /\ k \in 1 .. k
      BY <2>1, ProgramIsList DEF LastOf, o
    <3> QED BY <1>1, <3>1, <3>2, Zenon
  <2>2. CASE r # o.id
    <3>1. r \in s.ready /\ r \in Results /\ t.results[r] = s.results[r]
      BY <1>3, <2>2 DEF CalcState
    <3>2. \A j \in 1 .. k : j \in 1 .. k - 1 \/ j = k
      BY ProgramIsList
    <3>3. CASE r \in d.ready /\ \A j \in 1 .. k - 1 : Program[j].id # r
      BY <2>2, <3>2, <3>3, Zenon DEF o
    <3>4. CASE \E j \in 1 .. k - 1 : LastOf(r, j, k - 1) /\ Meaning(x)[j] = {s.results[r]}
      <4>1. PICK j \in 1 .. k - 1 : LastOf(r, j, k - 1) /\ Meaning(x)[j] = {s.results[r]}
        BY <3>4, Zenon
      <4>2. \A i \in j + 1 .. k : i \in j + 1 .. k - 1 \/ i = k
        BY ProgramIsList
      <4>3. LastOf(r, j, k)
        BY <2>2, <4>1, <4>2, Zenon DEF LastOf, o
      <4>4. j \in 1 .. k
        BY ProgramIsList
      <4> QED BY <3>1, <4>1, <4>3, <4>4, Zenon
    <3> QED BY <3>1, <3>3, <3>4, Zenon DEF Calculated
  <2> QED BY <2>1, <2>2
<1>11. Calculated(t, d, x, k)
  BY <1>8, <1>9, <1>10, Zenon DEF Calculated
<1> QED BY <1>4, <1>11 DEF t, o

LEMMA OpSkipped ==
  ASSUME NEW s, NEW d, NEW x, NEW k \in 1 .. Len(Program), CalcState(s),
         Calculated(s, d, x, k - 1), ~Runs(s.vars, Program[k])
  PROVE  CalcState(OpImpl(s, Program[k])) /\ Calculated(OpImpl(s, Program[k]), d, x, k)
<1> DEFINE o == Program[k]
           t == OpImpl(s, o)
<1>1. o.name \in Names /\ NamesBefore(k) \subseteq Names
  BY OperationFacts, Zenon
<1>2. t = [s EXCEPT !.vars[o.name].ready = FALSE, !.ready = @ \ {o.id}]
  BY DEF OpImpl
<1> HIDE DEF t, o
<1>3. /\ t = [vars |-> t.vars, ready |-> t.ready, results |-> t.results]
      /\ t.vars = [s.vars EXCEPT ![o.name].ready = FALSE]
      /\ t.ready = s.ready \ {o.id} /\ t.results = s.results
  BY <1>2 DEF CalcState
<1>4. CalcState(t)
  <2>1. s.vars \in [Names -> Variable] /\ s.vars[o.name] \in Variable
    BY <1>1 DEF CalcState
  <2>2. [s.vars[o.name] EXCEPT !.ready = FALSE] \in Variable
    BY <2>1 DEF Variable
  <2>3. t.vars = [s.vars EXCEPT ![o.name] = [s.vars[o.name] EXCEPT !.ready = FALSE]]
    BY <1>1, <1>3, <2>1, Zenon
  <2>4. t.vars \in [Names -> Variable]
    BY <2>1, <2>2, <2>3
  <2> QED BY <1>3, <2>4 DEF CalcState
<1>5. /\ ~t.vars[o.name].ready
      /\ \A n \in Names : n # o.name => t.vars[n] = s.vars[n]
  BY <1>1, <1>3 DEF CalcState
<1>6. /\ \A n \in Readable : n \in Names
      /\ \A j \in 1 .. k - 1 : Program[j].name \in Names
  <2>1. \A j \in 1 .. k - 1 : Program[j].name \in NamesBefore(k)
    BY Zenon DEF NamesBefore
  <2>2. \A n \in Readable : n \in NamesBefore(k)
    BY Zenon DEF NamesBefore
  <2> QED BY <1>1, <2>1, <2>2, Zenon
<1>7. \A n \in Readable : t.vars[n].ready => t.vars[n].val = x[n]
  BY <1>5, <1>6, Zenon DEF Calculated
<1>8. \A j \in 1 .. k : j \in 1 .. k - 1 \/ j = k
  BY ProgramIsList
<1>9. \A j \in 1 .. k : Program[j].name # "" /\ t.vars[Program[j].name].ready =>
        Meaning(x)[j] = {t.vars[Program[j].name].val}
  BY <1>5, <1>6, <1>8, Zenon DEF Calculated, o
<1>10. ASSUME NEW r \in t.ready
       PROVE  \/ r \in d.ready /\ \A j \in 1 .. k : Program[j].id # r
              \/ \E j \in 1 .. k : LastOf(r, j, k) /\ Meaning(x)[j] = {t.results[r]}
  <2>1. r \in s.ready /\ r # o.id /\ t.results[r] = s.results[r]
    BY <1>3
  <2>2. CASE r \in d.ready /\ \A j \in 1 .. k - 1 : Program[j].id # r
    BY <1>8, <2>1, <2>2, Zenon DEF o
  <2>3. CASE \E j \in 1 .. k - 1 : LastOf(r, j, k - 1) /\ Meaning(x)[j] = {s.results[r]}
    <3>1. PICK j \in 1 .. k - 1 : LastOf(r, j, k - 1) /\ Meaning(x)[j] = {s.results[r]}
      BY <2>3, Zenon
    <3>2. \A i \in j + 1 .. k : i \in j + 1 .. k - 1 \/ i = k
      BY ProgramIsList
    <3>3. LastOf(r, j, k)
      BY <2>1, <3>1, <3>2, Zenon DEF LastOf, o
    <3>4. j \in 1 .. k
      BY ProgramIsList
    <3> QED BY <2>1, <3>1, <3>3, <3>4, Zenon
  <2> QED BY <2>1, <2>2, <2>3, Zenon DEF Calculated
<1>11. Calculated(t, d, x, k)
  BY <1>7, <1>9, <1>10, Zenon DEF Calculated
<1> QED BY <1>4, <1>11 DEF t, o

(* The last operation with an identifier is the one Computes finds.          *)
LEMMA LastComputes ==
  ASSUME NEW r, NEW j \in 1 .. Len(Program), LastOf(r, j, Len(Program))
  PROVE  Computes(r) = j
<1> DEFINE n == Len(Program)
           Is(k) == Program[k].id = r /\ \A i \in k + 1 .. n : Program[i].id # r
<1>1. \A k \in 1 .. n : Is(k) => k = j
  <2> SUFFICES ASSUME NEW k \in 1 .. n, Is(k), k # j
               PROVE  FALSE
    OBVIOUS
  <2>1. k \in j + 1 .. n \/ j \in k + 1 .. n
    BY ProgramIsList
  <2> QED BY <2>1, Zenon DEF LastOf
<1>2. Is(j)
  BY Zenon DEF LastOf
<1>3. Computes(r) = CHOOSE k \in 1 .. n : Is(k)
  BY Zenon DEF Computes
<1> HIDE DEF Is, n
<1>4. (CHOOSE k \in 1 .. n : Is(k)) \in 1 .. n /\ Is(CHOOSE k \in 1 .. n : Is(k))
  BY <1>2, Zenon DEF n
<1> QED BY <1>1, <1>3, <1>4, Zenon

(* A call of calc_func: it starts with the results d, has the values x of    *)
(* the readings and comes to an end.                                         *)
Called(d, inputs, x, end) ==
  /\ d.ready \subseteq Results /\ d.results \in [Results -> Int]
  /\ \A r \in d.ready : \E j \in 1 .. Len(Program) : Program[j].id = r
  /\ \A n \in Readable : inputs[n].val \in Int /\ x[n] = inputs[n].val
  /\ end = After(d, inputs)[Len(Program)]

(* For any list of operations, what is ready in the end is what the          *)
(* equations say of the readings.                                            *)
LEMMA CalcFuncMeans ==
  ASSUME NEW d, NEW inputs, NEW x, NEW end, Called(d, inputs, x, end)
  PROVE  /\ end.ready \subseteq Results /\ end.results \in [Results -> Int]
         /\ \A r \in end.ready : /\ \E j \in 1 .. Len(Program) : Program[j].id = r
                                 /\ Meaning(x)[Computes(r)] = {end.results[r]}
<1> DEFINE n == Len(Program)
           s(k) == After(d, inputs)[k]
           Holds(k) == CalcState(s(k)) /\ Calculated(s(k), d, x, k)
           Far == {k \in Nat : k <= n => Holds(k)}
<1> USE DEF Called
<1>0. n \in Nat
  BY ProgramIsList
<1>1. 0 \in Far
  <2> DEFINE t == Start(d, inputs)
  <2>1. s(0) = t
    BY <1>0, AfterDefined
  <2>2. CalcState(t)
    <3>1. ASSUME NEW m \in Names
          PROVE  t.vars[m] \in Variable
      <4>1. CASE m \in Readable
        <5> DEFINE got == inputs[m].rc = "ok"
        <5>1. t.vars[m] = [ready |-> got, val |-> inputs[m].val]
          BY <4>1 DEF Start, Names
        <5>2. inputs[m].val \in Int /\ got \in BOOLEAN
          BY <4>1, Zenon
        <5> HIDE DEF got, t
        <5> QED BY <5>1, <5>2 DEF Variable
      <4>2. CASE m \notin Readable
        BY <4>2 DEF Start, Names, Variable
      <4> QED BY <4>1, <4>2
    <3>2. t.vars = [m \in Names |-> t.vars[m]]
      BY DEF Start, Names
    <3>3. /\ t = [vars |-> t.vars, ready |-> t.ready, results |-> t.results]
          /\ t.ready = d.ready /\ t.results = d.results
      BY DEF Start
    <3> HIDE DEF t
    <3> QED BY <3>1, <3>2, <3>3 DEF CalcState
  <2>3. \A m \in Readable : m \in Names
    BY DEF Names
  <2>4. \A m \in Readable : t.vars[m].val = x[m]
    BY <2>3 DEF Start, Names
  <2>5. t.ready = d.ready
    BY DEF Start
  <2> HIDE DEF t
  <2>6. Calculated(t, d, x, 0)
    BY <2>4, <2>5 DEF Calculated
  <2> QED BY <2>1, <2>2, <2>6
<1>2. ASSUME NEW k \in Nat, k \in Far
      PROVE  k + 1 \in Far
  <2> SUFFICES ASSUME k + 1 <= n
               PROVE  Holds(k + 1)
    BY <1>0
  <2>1. Holds(k) /\ k + 1 \in 1 .. n /\ k + 1 - 1 = k /\ k + 1 # 0 /\ k + 1 \in 0 .. n
    BY <1>0, <1>2
  <2>2. s(k + 1) = OpImpl(s(k), Program[k + 1])
    BY <2>1, AfterDefined
  <2> HIDE DEF s, n
  <2> DEFINE t == s(k)
             m == k + 1
  <2>3. CalcState(t) /\ Calculated(t, d, x, m - 1) /\ m \in 1 .. Len(Program)
    BY <2>1 DEF n
  <2> HIDE DEF t, m
  <2>4. CalcState(OpImpl(t, Program[m])) /\ Calculated(OpImpl(t, Program[m]), d, x, m)
    <3>1. CASE Runs(t.vars, Program[m])
      BY <2>3, <3>1, OpRuns
    <3>2. CASE ~Runs(t.vars, Program[m])
      BY <2>3, <3>2, OpSkipped
    <3> QED BY <3>1, <3>2
  <2>5. /\ CalcState(OpImpl(s(k), Program[k + 1]))
        /\ Calculated(OpImpl(s(k), Program[k + 1]), d, x, k + 1)
    BY <2>4 DEF t, m
  <2> QED BY <2>2, <2>5
<1>3. Holds(n)
  <2> HIDE DEF Far, Holds
  <2>1. n \in Far
    BY <1>0, <1>1, <1>2, NatSteps
  <2> QED BY <1>0, <2>1 DEF Far
<1>4. ASSUME NEW r \in s(n).ready
      PROVE  /\ \E j \in 1 .. n : Program[j].id = r
             /\ Meaning(x)[Computes(r)] = {s(n).results[r]}
  <2>1. PICK j \in 1 .. n : LastOf(r, j, n) /\ Meaning(x)[j] = {s(n).results[r]}
    <3> HIDE DEF s
    <3> QED BY <1>3, <1>4, Zenon DEF Calculated
  <2>2. Computes(r) = j
    BY <2>1, LastComputes
  <2> QED BY <2>1, <2>2, Zenon DEF LastOf
<1>5. s(n).ready \subseteq Results /\ s(n).results \in [Results -> Int]
  BY <1>3 DEF CalcState
<1> QED BY <1>4, <1>5

(* The readings the calculator takes from a filter.                          *)
Taken(f) == [n \in Readable |-> Named(f)[n].val]

LEMMA TakenValues ==
  ASSUME NEW f
  PROVE  /\ \A n \in Readable : /\ Named(f)[n].val = f.values[IF n = "x0" THEN 0 ELSE 1]
                                /\ Taken(f)[n] = Named(f)[n].val
         /\ Taken(f) = [n \in Readable |-> f.values[IF n = "x0" THEN 0 ELSE 1]]
  BY DEF Taken, Named, FilterGet

(* The calculator: a ready result is what the equations say, and when it is  *)
(* switched off none is ready, unless the call is not over.                  *)
CalcTypes ==
  /\ calc = [active |-> calc.active, ready |-> calc.ready, results |-> calc.results]
  /\ calc.active \in BOOLEAN
  /\ calc.ready \subseteq Results /\ calc.results \in [Results -> Int]
  /\ \A r \in calc.ready : \E j \in 1 .. Len(Program) : Program[j].id = r

CalcInv ==
  /\ CalcTypes
  /\ ~calc.active => calc.ready = {} \/ call.dev = "calc"
  /\ ResultsCurrent

LEMMA InitCalc == Init => CalcInv
<1> SUFFICES ASSUME Init
             PROVE  CalcInv
  OBVIOUS
<1>1. calc = [active |-> CalcOn, ready |-> {}, results |-> [r \in Results |-> 0]]
  BY DEF Init, CalcData
<1>2. CalcOn \in BOOLEAN
  BY CalcAssumption, Zenon
<1>3. CalcTypes /\ calc.ready = {}
  BY <1>1, <1>2 DEF CalcTypes
<1> QED BY <1>3 DEF CalcInv, ResultsCurrent

(* A round on an active calculator makes every result anew.                  *)
LEMMA RoundCalc ==
  ASSUME RangeInv', CalcInv, NEW answers, Round(answers)
  PROVE  CalcInv'
<1> USE DEF CalcInv
<1>1. call' = call /\ calc' = CalcSync(calc, Named(filter'))
  BY DEF Round
<1>2. CASE ~calc.active
  <2>1. calc' = calc
    BY <1>1, <1>2 DEF CalcSync
  <2>2. CalcTypes'
    BY <2>1 DEF CalcTypes
  <2>3. calc.ready = {} \/ call'.dev = "calc"
    BY <1>1, <1>2
  <2> QED BY <1>1, <2>1, <2>2, <2>3 DEF ResultsCurrent
<1>3. CASE calc.active
  <2> DEFINE inputs == Named(filter')
             x == Taken(filter')
             s == After(calc, inputs)[Len(Program)]
  <2>1. calc' = CalcTask(calc, inputs)
    BY <1>1, <1>3 DEF CalcSync
  <2>2. /\ calc' = [active |-> calc'.active, ready |-> calc'.ready, results |-> calc'.results]
        /\ calc'.active = calc.active /\ calc'.ready = s.ready /\ calc'.results = s.results
    <3> HIDE DEF s
    <3>1. calc' = [calc EXCEPT !.ready = s.ready, !.results = s.results]
      BY <2>1 DEF CalcTask, s
    <3> QED BY <3>1 DEF CalcTypes
  <2>3. \A n \in Readable : inputs[n].val \in Int /\ x[n] = inputs[n].val
    <3> SUFFICES ASSUME NEW n \in Readable
                 PROVE  inputs[n].val \in Int
      BY TakenValues
    <3>1. filter'.values \in [{0, 1} -> Nat]
      BY PipelineAssumption DEF RangeInv, FilterTypes
    <3>2. inputs[n].val = filter'.values[IF n = "x0" THEN 0 ELSE 1]
      BY TakenValues
    <3> QED BY <3>1, <3>2
  <2> HIDE DEF inputs, x
  <2>4. /\ s.ready \subseteq Results /\ s.results \in [Results -> Int]
        /\ \A r \in s.ready : /\ \E j \in 1 .. Len(Program) : Program[j].id = r
                              /\ Meaning(x)[Computes(r)] = {s.results[r]}
    <3>1. s = After(calc, inputs)[Len(Program)]
      OBVIOUS
    <3> HIDE DEF s
    <3>2. Called(calc, inputs, x, s)
      BY <2>3, <3>1 DEF Called, CalcTypes
    <3> QED BY <3>2, CalcFuncMeans
  <2> HIDE DEF s
  <2>5. CalcTypes'
    BY <1>3, <2>2, <2>4 DEF CalcTypes
  <2>6. ResultsCurrent'
    BY <2>2, <2>4, Zenon DEF ResultsCurrent, x, Taken
  <2> QED BY <1>3, <2>2, <2>5, <2>6
<1> QED BY <1>2, <1>3

(* Nothing else touches the filtered values.                                 *)
LEMMA KeepsCalc ==
  ASSUME CalcInv, calc' = calc, filter'.values = filter.values,
         calc.ready = {} \/ (call.dev # "calc" /\ calc.active) \/ call'.dev = "calc"
  PROVE  CalcInv'
<1>1. CalcTypes'
  BY DEF CalcInv, CalcTypes
<1>2. /\ Taken(filter) = [n \in Readable |-> filter.values[IF n = "x0" THEN 0 ELSE 1]]
      /\ Taken(filter') = [n \in Readable |-> filter'.values[IF n = "x0" THEN 0 ELSE 1]]
  BY TakenValues
<1>3. Taken(filter') = Taken(filter)
  BY <1>2, Zenon
<1>4. ResultsCurrent'
  <2>1. CASE calc.ready = {} \/ call'.dev = "calc"
    BY <2>1 DEF ResultsCurrent
  <2>2. CASE call.dev # "calc"
    BY <1>3, <2>2, Zenon DEF CalcInv, ResultsCurrent, Taken
  <2> QED BY <2>1, <2>2
<1> QED BY <1>1, <1>4 DEF CalcInv, CalcTypes

LEMMA StepCalc ==
  ASSUME RangeInv, RangeInv', CalcInv, [Next]_vars
  PROVE  CalcInv'
<1>0. calc.ready = {} \/ calc.active \/ call.dev = "calc"
  BY DEF CalcInv
<1>1. ASSUME NEW r0 \in Readings[0], NEW r1 \in Readings[1],
             Round([i \in Filtered |-> IF i = 0 THEN r0 ELSE r1])
      PROVE  CalcInv'
  <2> DEFINE answers == [i \in Filtered |-> IF i = 0 THEN r0 ELSE r1]
  <2> HIDE DEF answers
  <2> QED BY <1>1, RoundCalc DEF answers
<1>2. ASSUME NEW on \in BOOLEAN, SwitchCalc(on)
      PROVE  CalcInv'
  <2>1. /\ calc' = [active |-> calc'.active, ready |-> calc'.ready, results |-> calc'.results]
        /\ calc'.active = on /\ calc'.ready = calc.ready /\ calc'.results = calc.results
    BY <1>2 DEF SwitchCalc, CalcSwitch, CalcInv, CalcTypes
  <2>2. CalcTypes'
    BY <2>1 DEF CalcInv, CalcTypes
  <2>3. call'.dev = "calc"
    BY <1>2 DEF SwitchCalc, Calls
  <2> QED BY <2>2, <2>3 DEF CalcInv, ResultsCurrent
<1>3. ASSUME NEW on \in BOOLEAN,
             SwitchFilter(on) \/ SwitchMix(on) \/ SwitchMinMax(on) \/ SwitchMonitor(on)
      PROVE  CalcInv'
  <2>1. calc' = calc /\ filter'.values = filter.values /\ call = NoCall
    BY <1>3 DEF SwitchFilter, FilterSwitch, SwitchMix, SwitchMinMax, SwitchMonitor, Calls,
                RangeInv, FilterTypes, FilterShape
  <2> QED BY <1>0, <2>1, KeepsCalc DEF NoCall
<1>4. CASE (\E a \in Alphas : WriteAlpha(a)) \/ ResetFilter
  <2>1. calc' = calc /\ filter'.values = filter.values /\ call = NoCall
    BY <1>4 DEF WriteAlpha, AlphaSet, ResetFilter, ResetAlpha, Calls,
                RangeInv, FilterTypes, FilterShape
  <2> QED BY <1>0, <2>1, KeepsCalc DEF NoCall
<1>5. CASE UNCHANGED vars
  <2>1. calc' = calc /\ filter'.values = filter.values /\ call' = call
    BY <1>5 DEF vars, devices
  <2> QED BY <1>0, <2>1, KeepsCalc
<1>6. CASE Finish
  <2>1. filter'.values = filter.values
    BY <1>6 DEF Finish, FilterSwitched, AlphaSettled, RangeInv, FilterTypes, FilterShape
  <2>2. CASE call.dev = "calc"
    <3>1. /\ calc' = [active |-> calc'.active, ready |-> {}, results |-> calc'.results]
          /\ calc'.active = calc.active /\ calc'.ready = {} /\ calc'.results = calc.results
      BY <1>6, <2>2 DEF Finish, CalcSwitched, CalcInv, CalcTypes
    <3>2. CalcTypes'
      BY <3>1 DEF CalcInv, CalcTypes
    <3> QED BY <3>1, <3>2 DEF CalcInv, ResultsCurrent
  <2>3. CASE call.dev # "calc"
    <3>1. calc' = calc
      BY <1>6, <2>3 DEF Finish
    <3> QED BY <1>0, <2>1, <2>3, <3>1, KeepsCalc
  <2> QED BY <2>2, <2>3
<1> QED BY <1>1, <1>2, <1>3, <1>4, <1>5, <1>6 DEF Next

(* For every list of operations the devicetree may declare, a result that is *)
(* ready has the value the operations, read as equations, give for the       *)
(* filter outputs as they are (calc_func, calc_task).                        *)
THEOREM ResultsAreMeant == Spec => []ResultsCurrent
<1>1. RangeInv /\ CalcInv /\ [Next]_vars => (RangeInv /\ CalcInv)'
  BY RangeInductive, StepCalc
<1>2. CalcInv => ResultsCurrent
  BY DEF CalcInv
<1> QED BY InitRange, InitCalc, <1>1, <1>2, PTL DEF Spec

-----------------------------------------------------------------------------
(* What is left of the fields of mixer, peak values and monitor.             *)
OtherTypes ==
  /\ AlarmTypes /\ mix.output \in Int
  /\ minmax.active \in BOOLEAN /\ monitor.active \in BOOLEAN

LEMMA InitOther == Init => OtherTypes
<1> SUFFICES ASSUME Init
             PROVE  OtherTypes
  OBVIOUS
<1>1. AlarmTypes
  BY InitAlarm DEF AlarmInv
<1> QED BY <1>1, MinMaxAssumption, MonitorAssumption
        DEF Init, MixData, MinMaxData, MonitorData, OtherTypes

LEMMA RoundOther ==
  ASSUME RangeInv', PeakInv, OtherTypes, NEW answers, Round(answers)
  PROVE  OtherTypes'
<1> USE DEF OtherTypes
<1>1. AlarmTypes'
  BY DEF AlarmTypes, MixShape, Round, MixSync, MixTask, MonitorSync, MonitorTask
<1>2. monitor'.active = monitor.active
  BY DEF AlarmTypes, Round, MonitorSync, MonitorTask
<1>3. minmax'.active = minmax.active
  <2>1. CASE ~minmax.active
    BY <2>1 DEF Round, MinMaxSync
  <2>2. CASE minmax.active
    <3>1. minmax' = MinMaxTask(minmax, Filters(filter'))
      BY <2>2 DEF Round, MinMaxSync
    <3>2. \E a, b, c : minmax' = [minmax EXCEPT !.minimum = a, !.maximum = b, !.ready = c]
      BY <3>1, Zenon DEF MinMaxTask
    <3>3. PICK a, b, c : minmax' = [minmax EXCEPT !.minimum = a, !.maximum = b, !.ready = c]
      BY <3>2
    <3> QED BY <3>3 DEF PeakInv, PeakTypes
  <2> QED BY <2>1, <2>2
<1>4. mix'.output \in Int
  <2> DEFINE reads == Filters(filter')
  <2>1. mix'.output = mix.output \/ mix'.output = MixSum(mix, reads)
    BY DEF AlarmTypes, MixShape, Round, MixSync, MixTask
  <2>2. \A i \in {0, 1} : reads[i].val \in Int /\ i \in Inputs
    BY PipelineAssumption DEF Filters, FilterGet, RangeInv, FilterTypes, Inputs
  <2> HIDE DEF reads
  <2>3. \A i \in {0, 1} : Part(mix, reads, i) \in Int
    <3> TAKE i \in {0, 1}
    <3>1. mix.weights[i] \in Int /\ WeightScale \in Nat \ {0}
      BY <2>2, MixAssumption DEF AlarmTypes
    <3>2. reads[i].val * mix.weights[i] \in Int
      BY <2>2, <3>1
    <3> QED BY <3>1, <3>2 DEF Part
  <2>4. MixSum(mix, reads) \in Int
    <3>1. Part(mix, reads, 0) \in Int /\ Part(mix, reads, 1) \in Int
      BY <2>3
    <3> QED BY <3>1, MixSumOfTwo
  <2> QED BY <2>1, <2>4
<1> QED BY <1>1, <1>2, <1>3, <1>4

LEMMA StepOther ==
  ASSUME RangeInv', PeakInv, OtherTypes, [Next]_vars
  PROVE  OtherTypes'
<1> USE DEF OtherTypes, AlarmTypes
<1>1. ASSUME NEW r0 \in Readings[0], NEW r1 \in Readings[1],
             Round([i \in Filtered |-> IF i = 0 THEN r0 ELSE r1])
      PROVE  OtherTypes'
  <2> DEFINE answers == [i \in Filtered |-> IF i = 0 THEN r0 ELSE r1]
  <2> HIDE DEF answers, OtherTypes
  <2> QED BY <1>1, RoundOther DEF answers
<1>2. ASSUME NEW on \in BOOLEAN, SwitchMix(on)
      PROVE  OtherTypes'
  BY <1>2 DEF SwitchMix, MixSwitch, MixShape
<1>3. ASSUME NEW on \in BOOLEAN, SwitchMinMax(on)
      PROVE  OtherTypes'
  BY <1>3 DEF SwitchMinMax, MinMaxSwitch, MixShape, PeakInv, PeakTypes
<1>4. ASSUME NEW on \in BOOLEAN, SwitchMonitor(on)
      PROVE  OtherTypes'
  BY <1>4 DEF SwitchMonitor, MonitorSwitch, MixShape
<1>5. CASE \/ \E on \in BOOLEAN : SwitchFilter(on) \/ SwitchCalc(on)
           \/ \E a \in Alphas : WriteAlpha(a)
           \/ ResetFilter \/ UNCHANGED vars
  <2>1. UNCHANGED <<mix, minmax, monitor>>
    BY <1>5 DEF SwitchFilter, SwitchCalc, WriteAlpha, ResetFilter, vars, devices
  <2> QED BY <2>1 DEF MixShape
<1>6. CASE Finish
  <2>1. /\ MixShape' /\ mix'.weights = mix.weights /\ mix'.output = mix.output
    BY <1>6 DEF Finish, MixSwitched, MixShape
  <2>2. minmax'.active = minmax.active
    BY <1>6 DEF Finish, MinMaxSwitched, PeakInv, PeakTypes
  <2>3. \/ monitor' = monitor
        \/ monitor' = [active |-> monitor.active, fault |-> FALSE, calls |-> 0]
    BY <1>6 DEF Finish, MonitorSwitched
  <2>4. /\ monitor' = [active |-> monitor'.active, fault |-> monitor'.fault,
                       calls |-> monitor'.calls]
        /\ monitor'.fault \in BOOLEAN /\ monitor'.active = monitor.active
    <3>1. CASE monitor' = monitor
      BY <3>1
    <3>2. CASE monitor' = [active |-> monitor.active, fault |-> FALSE, calls |-> 0]
      BY <3>2
    <3> QED BY <2>3, <3>1, <3>2
  <2> QED BY <2>1, <2>2, <2>4
<1> QED BY <1>1, <1>2, <1>3, <1>4, <1>5, <1>6 DEF Next

(* Every field of every device of the chain keeps its type, the outputs of   *)
(* mixer and calculator included, whatever the weights and operations are.   *)
THEOREM PipelineTypes == Spec => []PipelineTypeOK
<1> DEFINE Inv == RangeInv /\ PeakInv /\ CalcInv /\ OtherTypes
<1>1. Init => Inv
  BY InitRange, InitPeaks, InitCalc, InitOther
<1>2. Inv /\ [Next]_vars => Inv'
  BY RangeInductive, StepPeaks, StepCalc, StepOther
<1>3. Inv => PipelineTypeOK
  <2> SUFFICES ASSUME Inv
               PROVE  PipelineTypeOK
    OBVIOUS
  <2>1. call.dev \in {"none", "filter", "mix", "calc", "minmax", "monitor", "alpha"}
    BY DEF RangeInv, FilterTypes, CallShape, NoCall
  <2>2. {filter.active, mix.active, mix.ready, calc.active, minmax.active,
         monitor.active, monitor.fault} \subseteq BOOLEAN
    BY DEF RangeInv, FilterTypes, FilterShape, CalcInv, CalcTypes, OtherTypes, AlarmTypes, MixShape
  <2>3. /\ filter.alpha \in 0 .. ParamScale /\ filter.oneMinusAlpha \in 0 .. ParamScale
        /\ filter.ready \subseteq Filtered /\ filter.fault \subseteq Filtered
        /\ filter.values \in [Filtered -> Nat]
    BY DEF RangeInv, FilterTypes
  <2>4. calc.ready \subseteq Results /\ calc.results \in [Results -> Int]
    BY DEF CalcInv, CalcTypes
  <2>5. minmax.ready \subseteq Peaks /\ mix.output \in Int
    BY DEF PeakInv, PeakTypes, OtherTypes
  <2> QED BY <2>1, <2>2, <2>3, <2>4, <2>5, Zenon DEF PipelineTypeOK
<1> HIDE DEF Inv
<1> QED BY <1>1, <1>2, <1>3, PTL DEF Spec
===============================================================================
