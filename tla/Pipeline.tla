------------------------------ MODULE Pipeline ------------------------------
(***************************************************************************)
(* A chain of value drivers on one synchronisation loop: sources, a filter *)
(* over them, and a mixer, peak values, a calculator and a monitor behind  *)
(* the filter.  The loop writes their sync values one after the other from *)
(* the cooperative work queue: nothing comes between two of them, but it   *)
(* does come between the two writes of a client's call.                    *)
(***************************************************************************)
EXTENDS Filter, Mix, Calc, MinMax, ConditionMonitor

CONSTANTS
  Readings,  \* by source, what it may answer
  Alphas,    \* the alphas a client writes
  MaxCalls,  \* bound on the calls of clients
  MaxOutput  \* bound on the filter outputs: weights apart may sum up to more than 1

ASSUME PipelineAssumption ==
  /\ Filtered = {0, 1} /\ NumInputs = 2 /\ NumPeaks = 1 /\ NumWatched = 2
  /\ Readable = {"x0", "x1"}
  /\ Alphas \subseteq Nat /\ {MaxCalls, MaxOutput} \subseteq Nat
  /\ \A r \in Readings[0] \cup Readings[1] :
       r.rc \in {"ok", "again", "fault"} /\ r.val \in Nat

VARIABLES
  filter, mix, calc, minmax, monitor,  \* the data of the devices
  call,    \* the call between whose two writes a client was preempted
  calls,   \* calls made
  allRead, \* history: every source answered in the last round
  torn,    \* history: the last round came between two writes of a call
  seen,    \* history: by filter value, the samples in its output
  peaks,   \* history: the filter outputs since the peak values were reset
  uneven,  \* history: a round found alpha and one_minus_alpha apart
  left     \* history: a source answered with a value outside the limits

devices == <<filter, mix, calc, minmax, monitor>>
history == <<allRead, torn, seen, peaks, uneven, left>>
vars == <<devices, call, calls, history>>

NoCall == [dev |-> "none", alpha |-> 0]

Init ==
  /\ filter = FilterData /\ mix = MixData /\ calc = CalcData
  /\ minmax = MinMaxData /\ monitor = MonitorData
  /\ call = NoCall /\ calls = 0
  /\ allRead = FALSE /\ torn = FALSE
  /\ seen = [i \in Filtered |-> {}] /\ peaks = {}
  /\ uneven = FALSE /\ left = FALSE

(* The readings of a driver behind the filter, and of the monitor.           *)
Filters(f) == [i \in Filtered |-> FilterGet(f, i)]
Named(f) == [n \in Readable |-> FilterGet(f, IF n = "x0" THEN 0 ELSE 1)]
Monitored(m, f) == [w \in Watched |-> IF w = 0 THEN MixGet(m) ELSE FilterGet(f, 1)]

(* sync_work over the targets filter, mix, minmax, calc, monitor.            *)
Round(answers) ==
  /\ filter' = FilterSync(filter, answers)
  /\ \A i \in Filtered : filter'.values[i] <= MaxOutput
  /\ mix' = MixSync(mix, Filters(filter'))
  /\ minmax' = MinMaxSync(minmax, Filters(filter'))
  /\ calc' = CalcSync(calc, Named(filter'))
  /\ monitor' = MonitorSync(monitor, Monitored(mix', filter'))
  /\ UNCHANGED <<call, calls>>
  /\ allRead' = \A i \in Filtered : answers[i].rc = "ok"
  /\ torn' = (call # NoCall)
  /\ seen' = IF ~filter.active THEN seen
             ELSE [i \in Filtered |->
                     IF answers[i].rc # "ok" THEN {}
                     ELSE seen[i] \cup {answers[i].val}]
  /\ peaks' = IF minmax.active /\ FilterGet(filter', 0).rc = "ok"
              THEN peaks \cup {filter'.values[0]} ELSE peaks
  /\ uneven' = (uneven \/ filter.alpha + filter.oneMinusAlpha # ParamScale)
  /\ left' = (left \/ \E i \in Filtered : Outside(answers[i]))

Calls(c) == call = NoCall /\ calls < MaxCalls /\ calls' = calls + 1 /\ call' = c

(* The first write of a call, and the rest of it.                            *)
SwitchFilter(on) ==
  /\ filter.active # on /\ Calls([dev |-> "filter", alpha |-> 0])
  /\ filter' = FilterSwitch(filter, on)
  /\ UNCHANGED <<mix, calc, minmax, monitor, history>>

SwitchMix(on) ==
  /\ mix.active # on /\ Calls([dev |-> "mix", alpha |-> 0])
  /\ mix' = MixSwitch(mix, on)
  /\ UNCHANGED <<filter, calc, minmax, monitor, history>>

SwitchCalc(on) ==
  /\ calc.active # on /\ Calls([dev |-> "calc", alpha |-> 0])
  /\ calc' = CalcSwitch(calc, on)
  /\ UNCHANGED <<filter, mix, minmax, monitor, history>>

SwitchMinMax(on) ==
  /\ minmax.active # on /\ Calls([dev |-> "minmax", alpha |-> 0])
  /\ minmax' = MinMaxSwitch(minmax, on)
  /\ UNCHANGED <<filter, mix, calc, monitor, history>>

SwitchMonitor(on) ==
  /\ Calls([dev |-> "monitor", alpha |-> 0])
  /\ monitor' = MonitorSwitch(monitor, on)
  /\ UNCHANGED <<filter, mix, calc, minmax, history>>

WriteAlpha(a) ==
  /\ AlphaAccepted(filter, a) /\ Calls([dev |-> "alpha", alpha |-> a])
  /\ filter' = AlphaSet(filter, a)
  /\ UNCHANGED <<mix, calc, minmax, monitor, history>>

(* FILTER_PARAM_RESET is a single write.                                     *)
ResetFilter ==
  /\ call = NoCall /\ calls < MaxCalls /\ calls' = calls + 1
  /\ filter' = ResetAlpha(filter)
  /\ UNCHANGED <<mix, calc, minmax, monitor, call, history>>

Finish ==
  /\ call # NoCall /\ call' = NoCall
  /\ filter' = CASE call.dev = "filter" -> FilterSwitched(filter)
                 [] call.dev = "alpha" -> AlphaSettled(filter, call.alpha)
                 [] OTHER -> filter
  /\ mix' = IF call.dev = "mix" THEN MixSwitched(mix) ELSE mix
  /\ calc' = IF call.dev = "calc" THEN CalcSwitched(calc) ELSE calc
  /\ minmax' = IF call.dev = "minmax" THEN MinMaxSwitched(minmax) ELSE minmax
  /\ monitor' = IF call.dev = "monitor" THEN MonitorSwitched(monitor) ELSE monitor
  /\ seen' = IF call.dev = "filter" THEN [i \in Filtered |-> {}] ELSE seen
  /\ peaks' = IF call.dev = "minmax" THEN {} ELSE peaks
  /\ UNCHANGED <<calls, allRead, torn, uneven, left>>

Next ==
  \/ \E r0 \in Readings[0], r1 \in Readings[1] :
       Round([i \in Filtered |-> IF i = 0 THEN r0 ELSE r1])
  \/ \E on \in BOOLEAN : \/ SwitchFilter(on) \/ SwitchMix(on) \/ SwitchCalc(on)
                         \/ SwitchMinMax(on) \/ SwitchMonitor(on)
  \/ \E a \in Alphas : WriteAlpha(a)
  \/ ResetFilter \/ Finish

Spec == Init /\ [][Next]_vars

-----------------------------------------------------------------------------
PipelineTypeOK ==
  /\ filter.alpha \in 0 .. ParamScale /\ filter.oneMinusAlpha \in 0 .. ParamScale
  /\ filter.ready \subseteq Filtered /\ filter.fault \subseteq Filtered
  /\ filter.values \in [Filtered -> Nat]
  /\ {filter.active, mix.active, mix.ready, calc.active, minmax.active,
      monitor.active, monitor.fault} \subseteq BOOLEAN
  /\ mix.output \in Int
  /\ calc.ready \subseteq Results /\ calc.results \in [Results -> Int]
  /\ minmax.ready \subseteq Peaks
  /\ call.dev \in {"none", "filter", "mix", "calc", "minmax", "monitor", "alpha"}

Low(S) == Min(S)
High(S) == Max(S)

(* A filtered value that reads without an error lies between the smallest    *)
(* and the largest sample it was made of, those since the filter was         *)
(* switched or its source last failed, whatever was done to alpha: as long   *)
(* as no round met the two weights apart.                                    *)
SmoothedInRange ==
  \A i \in Filtered : FilterGet(filter, i).rc = "ok" /\ ~uneven =>
    \E lo, hi \in seen[i] : lo <= filter.values[i] /\ filter.values[i] <= hi

(* What is read at the end of the chain was made in the last round: when the *)
(* mixer answers without an error, every source behind it did, two drivers   *)
(* upstream and whatever was switched since; a round in between the writes   *)
(* of a call is the exception.                                               *)
NothingStale ==
  MixGet(mix).rc = "ok" /\ ~torn => allRead

(* The peak values are those of the filter outputs since they were reset,    *)
(* and no value of before: a round after the state was written and before    *)
(* the flags are cleared leaves nothing behind.                              *)
PeaksExact ==
  MinMaxGet(minmax, 2).rc = "ok" =>
    /\ peaks # {}
    /\ MinMaxGet(minmax, 2).val = Low(peaks)
    /\ MinMaxGet(minmax, 3).val = High(peaks)

(* A result with its ready flag set has the value its operation has for the  *)
(* filter outputs as they are, read as an equation: nothing of an earlier    *)
(* round, nothing made of an argument that was not ready, and nothing behind *)
(* a division by zero.                                                       *)
ResultsCurrent ==
  call.dev # "calc" =>
    \A r \in calc.ready :
      {calc.results[r]} = Meaning([n \in Readable |-> Named(filter)[n].val])[Computes(r)]

(* What the next property asks of weights and limits: the mixture of two     *)
(* samples inside the limits is inside as well.                              *)
WeightsFit ==
  \A x, y \in (Minimum .. Maximum) \cap Nat :
    (x * DefaultWeights[0]) \div WeightScale + (y * DefaultWeights[1]) \div WeightScale
      \in Minimum .. Maximum

(* No alarm without a reason: while every sample lies inside the limits, no  *)
(* interleaving of rounds with calls makes the monitor of the mixed and the  *)
(* filtered value latch.  One that latched was told to the subscribers once, *)
(* counted from the end of the call that cleared the one before.             *)
NoFalseAlarm ==
  /\ monitor.fault /\ ~uneven => left
  /\ call.dev # "monitor" => monitor.calls = IF monitor.fault THEN 1 ELSE 0
=============================================================================
