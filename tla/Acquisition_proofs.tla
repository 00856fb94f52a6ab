-------------------------- MODULE Acquisition_proofs --------------------------
(***************************************************************************)
(* Theorems about Acquisition, for every number of targets and channels.   *)
(***************************************************************************)
EXTENDS Acquisition, TLAPS

LEMMA SyncAcquisition ==
  ASSUME StoppedStays, [Next]_vars
  PROVE  StoppedStays'
<1> USE DEF StoppedStays
<1>1. CASE Timer  BY <1>1 DEF Timer, Expire
<1>2. CASE LoopStart  BY <1>2 DEF LoopStart, Run
<1>3. CASE LoopHead  BY <1>3 DEF LoopHead, Rearm, Schedule
<1>4. CASE LoopAdc  BY <1>4 DEF LoopAdc, syncVars
<1>5. CASE LoopEnd  BY <1>5 DEF LoopEnd, End
<1>6. ASSUME NEW i \in 1 .. NumValues, LoopTarget(i)
      PROVE  StoppedStays'
  BY <1>6 DEF LoopTarget, Target
<1>7. ASSUME NEW n \in 0 .. NumChannels, LoopAdcRead(n)
      PROVE  StoppedStays'
  BY <1>7 DEF LoopAdcRead, Target
<1>8. CASE Poller \/ Interrupt
  BY <1>8 DEF Poller, PollerWork, PollerNext, Interrupt, syncVars
<1>9. ASSUME NEW on \in BOOLEAN, StartStop(on)
      PROVE  StoppedStays'
  <2>1. CASE on  BY <1>9, <2>1 DEF StartStop, SetActive
  <2>2. CASE ~on /\ flags = {}
    BY <1>9, <2>2 DEF StartStop, SetActive, IsActive
  <2>3. CASE ~on /\ flags # {}
    BY <1>9, <2>3 DEF StartStop, SetActive, IsActive, Cancel
  <2> QED BY <2>1, <2>2, <2>3
<1>10. ASSUME NEW on \in BOOLEAN, SwitchPoller(on)
       PROVE  StoppedStays'
  BY <1>10 DEF SwitchPoller, syncVars
<1>11. CASE PollerOff \/ UNCHANGED vars  BY <1>11 DEF PollerOff, vars, syncVars
<1> QED
  BY <1>1, <1>2, <1>3, <1>4, <1>5, <1>6, <1>7, <1>8, <1>9, <1>10, <1>11 DEF Next, Loop

(* A loop that was stopped is never scheduled or queued again before         *)
(* somebody starts it, however many targets it writes and wherever the stop  *)
(* met it (sync_work, sync_set_active).                                      *)
THEOREM StopIsFinal == Spec => []StoppedStays
<1>1. Init => StoppedStays
  BY SyncAssumption DEF Init, SyncInit, StoppedStays
<1>2. StoppedStays /\ [Next]_vars => StoppedStays'
  BY SyncAcquisition
<1> QED BY <1>1, <1>2, PTL DEF Spec

-----------------------------------------------------------------------------
(* A sweep under way, from the first conversion to the last work item.       *)
Started == conv # NoSample \/ adcWork \/ task = "cont"

(* Who is at work: nothing of the poller while the loop's item waits on the  *)
(* queue or has not come to the poller yet; and one thing at a time of the   *)
(* converter, the work item and the task.                                    *)
Turns ==
  /\ "queued" \in flags => "running" \notin flags /\ ~Sweeping
  /\ "running" \in flags /\ at <= Adc => ~Started
  /\ task = "sync" => "running" \in flags /\ at = Adc
  /\ conv # NoSample => ~adcWork /\ task # "cont"
  /\ adcWork => task # "cont"

(* What is converted, or waits in the buffer, belongs to the channel, and a  *)
(* sweep starts with the first one.                                          *)
Current == [of |-> channel, sweep |-> sweep]

InFlight ==
  /\ conv # NoSample => conv = Current
  /\ adcWork => buffer = Current
  /\ task = "sync" => channel = 0

(* In a sweep the channels before the current one are done.                  *)
Done == IF Started THEN 0 .. channel - 1 ELSE Channels

OwnValues ==
  \A c \in (ready \ fault) \ torn :
    /\ values[c].of = c
    /\ c \in Done => values[c].sweep = sweep

AcquisitionInv == AdcTypeOK /\ at \in Nat /\ Turns /\ InFlight /\ OwnValues

LEMMA InitAcquisition == Init => AcquisitionInv
<1> USE SyncAssumption, AdcAssumption, AcquisitionAssumption
<1>1. ASSUME Init
      PROVE  AdcTypeOK /\ at \in Nat
  <2>1. active \in BOOLEAN /\ adcWork \in BOOLEAN
    BY <1>1, Zenon DEF Init, AdcInit
  <2>2. failures \in 0 .. MaxFailures
    BY <1>1 DEF Init, AdcInit
  <2>3. {ready, fault, torn} \subseteq SUBSET Channels /\ closing = "no"
    BY <1>1 DEF Init, AdcInit
  <2>4. channel \in Channels /\ sweep \in {0, 1} /\ at \in Nat
    BY <1>1 DEF Init, AdcInit, SyncInit, Channels
  <2>5. values \in [Channels -> Samples \cup {NoSample}]
    BY <1>1 DEF Init, AdcInit
  <2> QED BY <1>1, <2>1, <2>2, <2>3, <2>4, <2>5 DEF Init, AdcInit, AdcTypeOK
<1>2. ASSUME Init
      PROVE  Turns /\ InFlight /\ OwnValues
  BY <1>2 DEF Init, SyncInit, AdcInit, Turns, InFlight, OwnValues, Started, Sweeping
<1> QED BY <1>1, <1>2 DEF AcquisitionInv

LEMMA TypeAcquisition ==
  ASSUME AdcTypeOK, at \in Nat, [Next]_vars
  PROVE  AdcTypeOK' /\ at' \in Nat
<1> USE SyncAssumption, AdcAssumption, AcquisitionAssumption
        DEF AdcTypeOK, Channels
<1>1. CASE Timer \/ LoopStart \/ LoopHead \/ LoopEnd
  <2>1. UNCHANGED adcVars
    BY <1>1 DEF Timer, LoopStart, LoopHead, LoopEnd
  <2>2. at' \in Nat
    BY <1>1 DEF Timer, Expire, LoopStart, Run, LoopHead, Rearm, LoopEnd, End
  <2> QED BY <2>1, <2>2 DEF adcVars
<1>2. CASE LoopAdc  BY <1>2 DEF LoopAdc, SyncBegin, syncVars
<1>3. ASSUME NEW i \in 1 .. NumValues, LoopTarget(i)
      PROVE  AdcTypeOK' /\ at' \in Nat
  BY <1>3 DEF LoopTarget, Target, adcVars
<1>4. ASSUME NEW n \in 0 .. NumChannels, LoopAdcRead(n)
      PROVE  AdcTypeOK' /\ at' \in Nat
  BY <1>4 DEF LoopAdcRead, SyncRead, Fails, Target, Samples
<1>5. CASE PollerWork
  <2>1. values' \in [Channels -> Samples \cup {NoSample}]
    BY <1>5 DEF PollerWork, WorkBegin
  <2>2. channel' \in Channels /\ task' \in {"idle", "sync", "cont"}
    BY <1>5 DEF PollerWork, WorkBegin
  <2>3. ready' \subseteq Channels
    BY <1>5 DEF PollerWork, WorkBegin
  <2> QED BY <1>5, <2>1, <2>2, <2>3 DEF PollerWork, WorkBegin, syncVars
<1>6. ASSUME NEW next \in Channels \cup {NumChannels}, PollerNext(next)
      PROVE  AdcTypeOK' /\ at' \in Nat
  BY <1>6 DEF PollerNext, ContRead, Fails, Samples, syncVars
<1>7. CASE Interrupt  BY <1>7 DEF Interrupt, Converted, NoSample, syncVars
<1>8. ASSUME NEW on \in BOOLEAN, StartStop(on) \/ SwitchPoller(on)
      PROVE  AdcTypeOK' /\ at' \in Nat
  BY <1>8 DEF StartStop, SetActive, SwitchPoller, SetState, adcVars, syncVars
<1>9. CASE PollerOff
  BY <1>9 DEF PollerOff, ClearFaults, SetInactive, syncVars
<1>10. CASE UNCHANGED vars  BY <1>10 DEF vars, syncVars, adcVars
<1> QED
  BY <1>1, <1>2, <1>3, <1>4, <1>5, <1>6, <1>7, <1>8, <1>9, <1>10 DEF Next, Loop, Poller

LEMMA TurnsAcquisition ==
  ASSUME SlowSync, AdcTypeOK, at \in Nat, Turns, [Next]_vars
  PROVE  Turns'
<1> USE SyncAssumption, AdcAssumption, AcquisitionAssumption
        DEF Turns, Started, Sweeping
<1>1. CASE Timer  BY <1>1 DEF Timer, Expire, adcVars
<1>2. CASE LoopStart  BY <1>2 DEF LoopStart, Run, adcVars
<1>3. CASE LoopHead  BY <1>3 DEF LoopHead, Rearm, Schedule, adcVars
<1>4. CASE LoopAdc  BY <1>4 DEF LoopAdc, SyncBegin, syncVars
<1>5. CASE LoopEnd  BY <1>5 DEF LoopEnd, End, adcVars
<1>6. ASSUME NEW i \in 1 .. NumValues, LoopTarget(i)
      PROVE  Turns'
  BY <1>6 DEF LoopTarget, Target, adcVars
<1>7. ASSUME NEW n \in 0 .. NumChannels, LoopAdcRead(n)
      PROVE  Turns'
  BY <1>7 DEF LoopAdcRead, SyncRead, Target
<1>8. CASE PollerWork  BY <1>8 DEF PollerWork, WorkBegin, syncVars
<1>9. ASSUME NEW next \in Channels \cup {NumChannels}, PollerNext(next)
      PROVE  Turns'
  BY <1>9 DEF PollerNext, ContRead, syncVars
<1>10. CASE Interrupt  BY <1>10 DEF Interrupt, Converted, syncVars
<1>11. ASSUME NEW on \in BOOLEAN, StartStop(on)
       PROVE  Turns'
  BY <1>11 DEF StartStop, SetActive, Schedule, Cancel, adcVars
<1>12. ASSUME NEW on \in BOOLEAN, SwitchPoller(on)
       PROVE  Turns'
  BY <1>12 DEF SwitchPoller, SetState, syncVars
<1>13. CASE PollerOff
  BY <1>13 DEF PollerOff, ClearFaults, SetInactive, syncVars
<1>14. CASE UNCHANGED vars  BY <1>14 DEF vars, syncVars, adcVars
<1> QED
  BY <1>1, <1>2, <1>3, <1>4, <1>5, <1>6, <1>7, <1>8, <1>9, <1>10, <1>11, <1>12, <1>13, <1>14
  DEF Next, Loop, Poller

LEMMA InFlightAcquisition ==
  ASSUME AdcTypeOK, Turns, InFlight, [Next]_vars
  PROVE  InFlight'
<1> USE SyncAssumption, AdcAssumption, AcquisitionAssumption
        DEF InFlight, Current
<1>1. CASE UNCHANGED adcVars  BY <1>1 DEF adcVars
<1>2. CASE LoopAdc  BY <1>2 DEF LoopAdc, SyncBegin, Turns, Started
<1>3. ASSUME NEW n \in 0 .. NumChannels, LoopAdcRead(n)
      PROVE  InFlight'
  BY <1>3 DEF LoopAdcRead, SyncRead, Turns, Started
<1>4. CASE PollerWork
  BY <1>4 DEF PollerWork, WorkBegin, Turns
<1>5. ASSUME NEW next \in Channels \cup {NumChannels}, PollerNext(next)
      PROVE  InFlight'
  BY <1>5 DEF PollerNext, ContRead, Turns
<1>6. CASE Interrupt  BY <1>6 DEF Interrupt, Converted
<1>7. ASSUME NEW on \in BOOLEAN, SwitchPoller(on)
      PROVE  InFlight'
  BY <1>7 DEF SwitchPoller, SetState
<1>8. CASE PollerOff  BY <1>8 DEF PollerOff, ClearFaults, SetInactive
<1> QED
  BY <1>1, <1>2, <1>3, <1>4, <1>5, <1>6, <1>7, <1>8
  DEF Next, Loop, Poller, Timer, LoopStart, LoopHead, LoopEnd, LoopTarget, StartStop, vars

LEMMA OwnValuesAcquisition ==
  ASSUME AcquisitionInv, [Next]_vars
  PROVE  OwnValues'
<1> USE SyncAssumption, AdcAssumption, AcquisitionAssumption
        DEF AcquisitionInv, OwnValues, Done
<1>1. CASE UNCHANGED adcVars  BY <1>1 DEF adcVars, Started
<1>2. CASE LoopAdc
  BY <1>2 DEF LoopAdc, SyncBegin, Turns, Started, Channels
<1>3. ASSUME NEW n \in 0 .. NumChannels, LoopAdcRead(n)
      PROVE  OwnValues'
  <2>1. task = "sync" /\ channel = 0 /\ ~Started
    BY <1>3 DEF LoopAdcRead, SyncRead, Turns, InFlight, Started
  <2>2. CASE n < NumChannels
    <3>1. Started'
      BY <1>3, <2>1, <2>2 DEF LoopAdcRead, SyncRead, Started, NoSample
    <3> QED BY <1>3, <2>1, <3>1 DEF LoopAdcRead, SyncRead, Channels
  <2>3. CASE n = NumChannels
    BY <1>3, <2>1, <2>3 DEF LoopAdcRead, SyncRead, Started, Channels
  <2> QED BY <2>2, <2>3
<1>4. CASE PollerWork
  BY <1>4 DEF PollerWork, WorkBegin, Turns, InFlight, Current, Started, Channels, AdcTypeOK
<1>5. ASSUME NEW next \in Channels \cup {NumChannels}, PollerNext(next)
      PROVE  OwnValues'
  BY <1>5 DEF PollerNext, ContRead, Turns, Started, Channels, AdcTypeOK, NoSample
<1>6. CASE Interrupt
  BY <1>6 DEF Interrupt, Converted, Started
<1>7. ASSUME NEW on \in BOOLEAN, SwitchPoller(on)
      PROVE  OwnValues'
  BY <1>7 DEF SwitchPoller, SetState, Started
<1>8. CASE PollerOff  BY <1>8 DEF PollerOff, ClearFaults, SetInactive, Started
<1> QED
  BY <1>1, <1>2, <1>3, <1>4, <1>5, <1>6, <1>7, <1>8
  DEF Next, Loop, Poller, Timer, LoopStart, LoopHead, LoopEnd, LoopTarget, StartStop, vars

LEMMA AcquisitionInvOwns ==
  ASSUME AcquisitionInv
  PROVE  OwnSample
BY DEF AcquisitionInv, AdcTypeOK, OwnValues, OwnSample, Get, Done, Started, Sweeping

(* A channel that reads without an error shows a sample of its own, for any  *)
(* number of channels and of failing starts, as long as the period is longer *)
(* than a sweep (adc_values_task, adc_values_value_get).                     *)
THEOREM SamplesAreOwn ==
  ASSUME SlowSync
  PROVE  Spec => []OwnSample
<1>1. AcquisitionInv /\ [Next]_vars => AcquisitionInv'
  <2> SUFFICES ASSUME AcquisitionInv, [Next]_vars
               PROVE  AcquisitionInv'
    OBVIOUS
  <2>1. AdcTypeOK' /\ at' \in Nat
    BY TypeAcquisition DEF AcquisitionInv
  <2>2. Turns' /\ InFlight'
    BY TurnsAcquisition, InFlightAcquisition DEF AcquisitionInv
  <2>3. OwnValues'
    BY OwnValuesAcquisition
  <2> QED BY <2>1, <2>2, <2>3 DEF AcquisitionInv
<1> QED
  BY InitAcquisition, <1>1, AcquisitionInvOwns, PTL DEF Spec

-----------------------------------------------------------------------------
(* The loop is in its run, at the poller, while the poller takes its sync.   *)
SyncHeld == task = "sync" => at = Adc /\ "running" \in flags

TypeInv == AdcTypeOK /\ SyncTypeOK /\ SyncHeld

LEMMA LoopTypes ==
  ASSUME TypeInv, [Next]_vars
  PROVE  SyncTypeOK' /\ SyncHeld'
<1> USE SyncAssumption, AcquisitionAssumption
        DEF TypeInv, SyncTypeOK, SyncHeld, WorkFlags
<1>1. CASE Timer  BY <1>1 DEF Timer, Expire, adcVars
<1>2. CASE LoopStart  BY <1>2 DEF LoopStart, Run, adcVars
<1>3. CASE LoopHead
  <2>1. flags' \in {flags, flags \cup {"delayed"}}
    BY <1>3 DEF LoopHead, Rearm, Schedule
  <2>2. "running" \in flags /\ at' = 1 /\ UNCHANGED <<wanted, lost, adcVars>>
    BY <1>3 DEF LoopHead, Rearm
  <2>3. at' \in 0 .. NumValues + 1 /\ task # "sync"
    BY <1>3, <2>2 DEF LoopHead, Rearm
  <2> QED BY <2>1, <2>2, <2>3 DEF adcVars
<1>4. CASE LoopAdc  BY <1>4 DEF LoopAdc, SyncBegin, syncVars
<1>5. CASE LoopEnd  BY <1>5 DEF LoopEnd, End, adcVars
<1>6. ASSUME NEW i \in 1 .. NumValues, LoopTarget(i)
      PROVE  SyncTypeOK' /\ SyncHeld'
  BY <1>6 DEF LoopTarget, Target, adcVars
<1>7. ASSUME NEW n \in 0 .. NumChannels, LoopAdcRead(n)
      PROVE  SyncTypeOK' /\ SyncHeld'
  BY <1>7 DEF LoopAdcRead, SyncRead, Target
<1>8. CASE PollerWork  BY <1>8 DEF PollerWork, WorkBegin, syncVars
<1>9. ASSUME NEW next \in Channels \cup {NumChannels}, PollerNext(next)
      PROVE  SyncTypeOK' /\ SyncHeld'
  BY <1>9 DEF PollerNext, ContRead, syncVars
<1>10. CASE Interrupt  BY <1>10 DEF Interrupt, Converted, syncVars
<1>11. ASSUME NEW on \in BOOLEAN, StartStop(on)
       PROVE  SyncTypeOK' /\ SyncHeld'
  <2>1. lost' \in BOOLEAN /\ wanted' \in BOOLEAN
    BY <1>11, Zenon DEF StartStop, SetActive
  <2>2. UNCHANGED adcVars /\ at' = at
    BY <1>11 DEF StartStop, SetActive
  <2>3. flags' \in {flags, {"delayed"}, {}, {"running", "canceling"}}
    BY <1>11 DEF StartStop, SetActive, IsActive, Schedule, Cancel
  <2>4. "running" \in flags' <=> "running" \in flags
    BY <1>11 DEF StartStop, SetActive, IsActive, Schedule, Cancel
  <2> QED BY <2>1, <2>2, <2>3, <2>4 DEF adcVars
<1>12. ASSUME NEW on \in BOOLEAN, SwitchPoller(on)
       PROVE  SyncTypeOK' /\ SyncHeld'
  BY <1>12 DEF SwitchPoller, SetState, syncVars
<1>13. CASE PollerOff
  BY <1>13 DEF PollerOff, ClearFaults, SetInactive, syncVars
<1>14. CASE UNCHANGED vars  BY <1>14 DEF vars, syncVars, adcVars
<1> QED
  BY <1>1, <1>2, <1>3, <1>4, <1>5, <1>6, <1>7, <1>8, <1>9, <1>10, <1>11, <1>12, <1>13, <1>14
  DEF Next, Loop, Poller

(* Loop and poller keep their types; the synchronisation of the poller runs  *)
(* inside the loop's item, at its place among the targets, and the channel   *)
(* always exists (adc_values_work_handler tells the last one).  This needs   *)
(* no slow period.                                                           *)
THEOREM AcquisitionTypes == Spec => []AcquisitionTypeOK
<1>1. Init => TypeInv
  <2> SUFFICES ASSUME Init
               PROVE  TypeInv
    OBVIOUS
  <2>1. AdcTypeOK
    BY InitAcquisition DEF AcquisitionInv
  <2>2. wanted \in BOOLEAN /\ lost \in BOOLEAN
    BY SyncAssumption, Zenon DEF Init, SyncInit
  <2>3. SyncTypeOK /\ SyncHeld
    BY <2>2, SyncAssumption DEF Init, SyncInit, AdcInit, SyncTypeOK, SyncHeld, WorkFlags
  <2> QED BY <2>1, <2>3 DEF TypeInv
<1>2. TypeInv /\ [Next]_vars => TypeInv'
  <2> SUFFICES ASSUME TypeInv, [Next]_vars
               PROVE  TypeInv'
    OBVIOUS
  <2>1. AdcTypeOK'
    BY TypeAcquisition, SyncAssumption DEF TypeInv, SyncTypeOK
  <2> QED BY <2>1, LoopTypes DEF TypeInv
<1>3. TypeInv => AcquisitionTypeOK
  BY DEF TypeInv, SyncHeld, AcquisitionTypeOK
<1> QED BY <1>1, <1>2, <1>3, PTL DEF Spec
===============================================================================
