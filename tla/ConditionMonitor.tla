-------------------------- MODULE ConditionMonitor --------------------------
(***************************************************************************)
(* drivers/condition_monitor/monitor.c: readings are compared with limits, *)
(* the first one outside latches a fault and notifies the subscribers.     *)
(***************************************************************************)
EXTENDS Integers

CONSTANTS
  NumWatched,  \* config->num_values
  Minimum,     \* config->minimum
  Maximum,     \* config->maximum
  MonitorOn    \* initial-active

ASSUME MonitorAssumption ==
  NumWatched \in Nat /\ {Minimum, Maximum} \subseteq Int /\ MonitorOn \in BOOLEAN

Watched == 0 .. NumWatched - 1

(* calls counts the notifications since the fault was cleared (history).     *)
MonitorData == [active |-> MonitorOn, fault |-> FALSE, calls |-> 0]

Outside(reading) ==
  reading.rc = "ok" /\ (reading.val > Maximum \/ reading.val < Minimum)

(* monitor_task *)
MonitorTask(d, reads) ==
  IF ~d.fault /\ \E w \in Watched : Outside(reads[w])
  THEN [d EXCEPT !.fault = TRUE, !.calls = @ + 1] ELSE d

(* monitor_value_set(MONITOR_SYNC, _)                                        *)
MonitorSync(d, reads) == IF d.active THEN MonitorTask(d, reads) ELSE d

(* monitor_value_get(MONITOR_STATE, _)                                       *)
MonitorGet(d) ==
  [rc |-> IF d.fault THEN "fault" ELSE "ok", val |-> IF d.active THEN 1 ELSE 0]

(* monitor_value_set(MONITOR_STATE, on): clears the fault whatever the state *)
(* was, and notifies nobody.                                                 *)
MonitorSwitch(d, on) == [d EXCEPT !.active = on]
MonitorSwitched(d) == [d EXCEPT !.fault = FALSE, !.calls = 0]
=============================================================================
