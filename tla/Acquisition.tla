----------------------------- MODULE Acquisition -----------------------------
(***************************************************************************)
(* A synchronisation loop that drives an ADC poller, on one cooperative    *)
(* work queue; a thread starts and stops both.  A work item that waits for *)
(* the converter lets threads in.                                          *)
(***************************************************************************)
EXTENDS ValueSync, AdcValues

CONSTANTS
  Adc,       \* the position of the poller among the targets of the loop
  SlowSync   \* TRUE: the period is longer than loop and sweep

ASSUME AcquisitionAssumption == Adc \in 1 .. NumValues /\ SlowSync \in BOOLEAN

vars == <<syncVars, adcVars>>

Init == SyncInit /\ AdcInit

(* The timer of the loop.                                                    *)
Timer ==
  /\ SlowSync => ~Sweeping /\ "running" \notin flags
  /\ Expire
  /\ UNCHANGED adcVars

(* The loop's item and the poller's do not run at the same time.             *)
LoopStart == task = "idle" /\ Run /\ UNCHANGED adcVars

LoopHead == Rearm /\ UNCHANGED adcVars

(* The targets other than the poller are somebody else's.                    *)
LoopTarget(i) ==
  /\ i # Adc \/ ~active
  /\ task = "idle"
  /\ Target(i)
  /\ UNCHANGED adcVars

LoopAdc ==
  /\ at = Adc /\ "running" \in flags
  /\ SyncBegin
  /\ UNCHANGED syncVars

LoopAdcRead(n) == SyncRead(n) /\ Target(Adc)

LoopEnd == End /\ UNCHANGED adcVars

PollerWork ==
  /\ "running" \notin flags
  /\ WorkBegin
  /\ UNCHANGED syncVars

PollerNext(next) == ContRead(next) /\ UNCHANGED syncVars

Interrupt == Converted /\ UNCHANGED syncVars

(* A thread.                                                                 *)
StartStop(on) == SetActive(on) /\ UNCHANGED adcVars

SwitchPoller(on) == SetState(on) /\ UNCHANGED syncVars

PollerOff == (ClearFaults \/ SetInactive) /\ UNCHANGED syncVars

Loop ==
  \/ LoopStart \/ LoopHead \/ LoopAdc \/ LoopEnd
  \/ \E i \in 1 .. NumValues : LoopTarget(i)
  \/ \E n \in 0 .. NumChannels : LoopAdcRead(n)

Poller == PollerWork \/ \E next \in Channels \cup {NumChannels} : PollerNext(next)

Next ==
  \/ Timer \/ Loop \/ Poller \/ Interrupt \/ PollerOff
  \/ \E on \in BOOLEAN : StartStop(on) \/ SwitchPoller(on)

(* The timer expires, the queue runs its items, the converter finishes.      *)
Spec ==
  /\ Init /\ [][Next]_vars
  /\ WF_vars(Timer) /\ WF_vars(Loop) /\ WF_vars(Poller) /\ WF_vars(Interrupt)

-----------------------------------------------------------------------------
AcquisitionTypeOK ==
  /\ SyncTypeOK /\ AdcTypeOK
  /\ task = "sync" => at = Adc

(* A loop that is left running, with its poller left on, takes sweep after   *)
(* sweep, and every one of them ends: a channel that is not marked as failed *)
(* gets new samples for ever.  A start that comes while the item is being    *)
(* cancelled is lost.                                                        *)
KeepsSampling ==
  <>[](wanted /\ ~lost /\ active) =>
    \A c \in Channels, s \in {0, 1} : []<>(c \in fault \/ values[c].sweep = s)

=============================================================================
