------------------------------- MODULE MinMax -------------------------------
(***************************************************************************)
(* The peak values of drivers/value_minmax/minmax.c.                       *)
(***************************************************************************)
EXTENDS Integers

CONSTANTS
  NumPeaks,  \* cfg->num_values
  MinMaxOn   \* initial-active

ASSUME MinMaxAssumption == NumPeaks \in Nat \ {0} /\ MinMaxOn \in BOOLEAN

Peaks == 0 .. NumPeaks - 1

MinMaxData ==
  [active |-> MinMaxOn, ready |-> {},
   minimum |-> [p \in Peaks |-> 0], maximum |-> [p \in Peaks |-> 0]]

(* Mutant of MinMaxTask: the extremes start from what the entry held.        *)
MinMaxTaskStale(d, reads) ==
  LET got == { p \in Peaks : reads[p].rc = "ok" }
  IN [d EXCEPT
        !.minimum = [p \in Peaks |-> IF p \in got /\ reads[p].val < @[p]
                                     THEN reads[p].val ELSE @[p]],
        !.maximum = [p \in Peaks |-> IF p \in got /\ reads[p].val > @[p]
                                     THEN reads[p].val ELSE @[p]],
        !.ready = @ \cup got]

(* minmax_task *)
MinMaxTask(d, reads) ==
  LET got == { p \in Peaks : reads[p].rc = "ok" }
      first(p) == p \notin d.ready
  IN [d EXCEPT
        !.minimum = [p \in Peaks |-> IF p \in got /\ (first(p) \/ reads[p].val < @[p])
                                     THEN reads[p].val ELSE @[p]],
        !.maximum = [p \in Peaks |-> IF p \in got /\ (first(p) \/ reads[p].val > @[p])
                                     THEN reads[p].val ELSE @[p]],
        !.ready = @ \cup got]

(* minmax_value_set(MINMAX_SYNC, _)                                          *)
MinMaxSync(d, reads) == IF d.active THEN MinMaxTask(d, reads) ELSE d

(* MINMAX_CH_IDX and MINMAX_CH_TYPE of an identifier, from 2 on.             *)
ChIdx(id) == (id - 2) \div 2
IsMinimum(id) == (id - 2) % 2 = 0

(* minmax_value_get *)
MinMaxGet(d, id) ==
  [rc |-> IF ChIdx(id) \in d.ready THEN "ok" ELSE "again",
   val |-> IF IsMinimum(id) THEN d.minimum[ChIdx(id)] ELSE d.maximum[ChIdx(id)]]

(* minmax_value_set(MINMAX_STATE, on), as in Filter.                         *)
MinMaxSwitch(d, on) == [d EXCEPT !.active = on]
MinMaxSwitched(d) == [d EXCEPT !.ready = {}]
=============================================================================
