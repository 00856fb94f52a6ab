----------------------- MODULE RegulatorExtended_proofs -----------------------
(***************************************************************************)
(* Theorems about RegulatorExtended, for every set of pins and edges,      *)
(* every delay and option, and any number of failures, glitches and calls. *)
(***************************************************************************)
EXTENDS RegulatorExtended, TLAPS

(* Init runs before everybody else, and defers nothing.                      *)
BootInv ==
  pc[Boot] = "wait" =>
    /\ dstate # "deferred" /\ ~work
    /\ pc[Caller] = "idle" /\ pc[Worker] = "idle"

(* From here somebody comes to a test of the pins, or to the work item.      *)
Onward == {"submit", "run", "delay", "busy", "schedule", "test"}

OnTheWay(places) == work \/ pc[Caller] \in places \/ pc[Worker] \in places

(* An unsettled state has somebody on the way to its test, an untold answer  *)
(* somebody on the way to the notification, and missing callbacks somebody   *)
(* on the way to installing them, unless the work item was lost.             *)
SettleInv == Settled \/ pc[Boot] = "wait" \/ OnTheWay(Onward) \/ lost

TellInv == told \/ OnTheWay(Places \ {"idle"}) \/ lost

ArmInv ==
  /\ cbs \subseteq Armed(enabled) \/ pc[Caller] = "mute"
  /\ Armed(enabled) \subseteq cbs \/ OnTheWay(Onward \cup {"mute", "gpio", "arm"}) \/ lost

RegulatorInv ==
  /\ pc \in [Actors -> Places] /\ dstate \in DriverStates /\ enabled \in BOOLEAN /\ arg \in BOOLEAN
  /\ BootInv /\ SettleInv /\ TellInv /\ ArmInv

USE DEF Actors, Caller, Worker, Boot, Places, Onward, OnTheWay, DriverStates, Settled

LEMMA InitRegulator == Init => RegulatorInv
BY RegulatorAssumption DEF Init, On, RegulatorInv, BootInv, SettleInv, TellInv, ArmInv

LEMMA FinalizeRegulator ==
  ASSUME RegulatorInv, NEW a \in {Caller, Worker}, Finalize(a)
  PROVE  RegulatorInv'
<1> USE DEF RegulatorInv, BootInv, SettleInv, TellInv, ArmInv, At, Goto, Write, histVars
<1>1. CASE StartDelay(a)  BY <1>1 DEF StartDelay
<1>2. CASE BusyWait(a)  BY <1>2 DEF BusyWait
<1>3. CASE Schedule(a)  BY <1>3 DEF Schedule
<1>4. CASE ScheduleFailed(a)  BY <1>4 DEF ScheduleFailed
<1>5. CASE Test(a)  BY <1>5 DEF Test
<1>6. CASE Arm(a)  BY <1>6 DEF Arm
<1>7. CASE Notify(a)  BY <1>7 DEF Notify
<1> QED BY <1>1, <1>2, <1>3, <1>4, <1>5, <1>6, <1>7 DEF Finalize

LEMMA CheckRegulator ==
  ASSUME RegulatorInv, NEW v \in BOOLEAN, SetCheck(v)
  PROVE  RegulatorInv'
BY DEF RegulatorInv, BootInv, SettleInv, TellInv, ArmInv, At, Goto, SetCheck, hardVars, histVars

LEMMA CallerRegulator ==
  ASSUME RegulatorInv, BootTest \/ Call \/ InCall
  PROVE  RegulatorInv'
<1> USE DEF RegulatorInv, BootInv, SettleInv, TellInv, ArmInv, At, Goto, Write, histVars
<1>1. CASE BootTest  BY <1>1 DEF BootTest, histVars
<1>2. CASE Call  BY <1>2, CheckRegulator DEF Call, SimulateFault
<1>3. CASE SetEnabled  BY <1>3 DEF SetEnabled
<1>4. CASE SetMute  BY <1>4 DEF SetMute, histVars
<1>5. CASE SetSwitched  BY <1>5 DEF SetSwitched, SwitchDone, AfterSwitch
<1>6. CASE SetFailed  BY <1>6 DEF SetFailed, SwitchFailed
<1>7. CASE SetDeferred  BY <1>7 DEF SetDeferred
<1>8. CASE SetSubmit  BY <1>8 DEF SetSubmit, histVars
<1>9. CASE SetUnscheduled  BY <1>9 DEF SetUnscheduled
<1>10. CASE Finalize(Caller)  BY <1>10, FinalizeRegulator
<1> QED
  BY <1>1, <1>2, <1>3, <1>4, <1>5, <1>6, <1>7, <1>8, <1>9, <1>10 DEF InCall

LEMMA WorkRegulator ==
  ASSUME RegulatorInv, Work
  PROVE  RegulatorInv'
<1> USE DEF RegulatorInv, BootInv, SettleInv, TellInv, ArmInv, At, Goto, Write, histVars
<1>1. CASE WorkStart  BY <1>1 DEF WorkStart, histVars
<1>2. CASE WorkSwitched  BY <1>2 DEF WorkSwitched, SwitchDone, AfterSwitch
<1>3. CASE WorkFailed  BY <1>3 DEF WorkFailed, SwitchFailed
<1>4. CASE WorkDelayed  BY <1>4 DEF WorkDelayed
<1>5. CASE Finalize(Worker)  BY <1>5, FinalizeRegulator
<1> QED BY <1>1, <1>2, <1>3, <1>4, <1>5 DEF Work

LEMMA PinRegulator ==
  ASSUME RegulatorInv, NEW p \in Pins, PinFollows(p) \/ PinGlitches(p)
  PROVE  RegulatorInv'
BY DEF RegulatorInv, BootInv, SettleInv, TellInv, ArmInv,
       PinFollows, PinGlitches, Edge, HandlePgoods

LEMMA RegulatorInvariant == Spec => []RegulatorInv
<1>1. RegulatorInv /\ UNCHANGED vars => RegulatorInv'
  BY DEF RegulatorInv, BootInv, SettleInv, TellInv, ArmInv, vars, histVars
<1>2. RegulatorInv /\ [Next]_vars => RegulatorInv'
  BY <1>1, CallerRegulator, WorkRegulator, PinRegulator DEF Next
<1> QED BY InitRegulator, <1>2, PTL DEF Spec

(* A regulator at rest is settled and its subscribers know: whatever edges   *)
(* its pins have, whichever delays and deferred switches it is built with,   *)
(* and wherever interrupts and simulated faults meet it, also when calls     *)
(* are not held off by the work queue (regulator_extended_set, _work).  Only *)
(* a k_work_schedule that fails unseen can leave it with a deferred switch.  *)
THEOREM NeverLeftStuck == Spec => []NeverStuck
<1>1. RegulatorInv => NeverStuck
  BY DEF RegulatorInv, SettleInv, TellInv, NeverStuck, AtRest
<1> QED BY RegulatorInvariant, <1>1, PTL

(* A regulator at rest has the callbacks of its direction installed and no   *)
(* others, on every way out of a switch (finalize_transition, async_pgoods), *)
(* unless the switch is deferred and its work item was never scheduled.      *)
THEOREM MonitorStaysArmed == Spec => []MonitorArmed
<1>1. RegulatorInv => MonitorArmed
  BY DEF RegulatorInv, ArmInv, MonitorArmed, AtRest
<1> QED BY RegulatorInvariant, <1>1, PTL

-----------------------------------------------------------------------------
LEMMA FinalizeTypes ==
  ASSUME RTypeOK, NEW a \in {Caller, Worker}, Finalize(a)
  PROVE  RTypeOK'
<1> USE DEF RTypeOK, At, Goto, Write, hardVars, histVars
<1>1. CASE StartDelay(a)  BY <1>1 DEF StartDelay
<1>2. CASE BusyWait(a)  BY <1>2 DEF BusyWait
<1>3. CASE Schedule(a)  BY <1>3 DEF Schedule
<1>4. CASE ScheduleFailed(a)  BY <1>4 DEF ScheduleFailed
<1>5. CASE Test(a)  BY <1>5 DEF Test
<1>6. CASE Arm(a)  BY <1>6, RegulatorAssumption DEF Arm, Armed
<1>7. CASE Notify(a)  BY <1>7 DEF Notify
<1> QED BY <1>1, <1>2, <1>3, <1>4, <1>5, <1>6, <1>7 DEF Finalize

LEMMA CheckTypes ==
  ASSUME RTypeOK, sets' \in 0 .. MaxSets, NEW v \in BOOLEAN, SetCheck(v)
  PROVE  RTypeOK'
BY DEF RTypeOK, At, Goto, SetCheck, hardVars, histVars

LEMMA CallerTypes ==
  ASSUME RTypeOK, BootTest \/ Call \/ InCall
  PROVE  RTypeOK'
<1> USE RegulatorAssumption DEF RTypeOK, At, Goto, Write, hardVars, histVars
<1>1. CASE BootTest  BY <1>1 DEF BootTest
<1>2. CASE Call
  <2>1. sets' \in 0 .. MaxSets
    BY <1>2 DEF Call
  <2>2. ASSUME NEW v \in BOOLEAN, SetCheck(v)
        PROVE  RTypeOK'
    BY <2>1, <2>2, CheckTypes
  <2>3. CASE SimulateFault
    <3>1. cut' \in BOOLEAN
      BY <2>3, Zenon DEF SimulateFault
    <3> QED BY <2>1, <2>3, <3>1 DEF SimulateFault
  <2> QED BY <1>2, <2>2, <2>3 DEF Call
<1>3. CASE SetEnabled  BY <1>3 DEF SetEnabled
<1>4. CASE SetMute  BY <1>4 DEF SetMute
<1>5. CASE SetSwitched  BY <1>5 DEF SetSwitched, SwitchDone, AfterSwitch
<1>6. CASE SetFailed  BY <1>6 DEF SetFailed, SwitchFailed
<1>7. CASE SetDeferred  BY <1>7 DEF SetDeferred
<1>8. CASE SetSubmit  BY <1>8 DEF SetSubmit
<1>9. CASE SetUnscheduled  BY <1>9 DEF SetUnscheduled
<1>10. CASE Finalize(Caller)  BY <1>10, FinalizeTypes
<1> QED
  BY <1>1, <1>2, <1>3, <1>4, <1>5, <1>6, <1>7, <1>8, <1>9, <1>10 DEF InCall

LEMMA WorkTypes ==
  ASSUME RTypeOK, Work
  PROVE  RTypeOK'
<1> USE RegulatorAssumption DEF RTypeOK, At, Goto, Write, hardVars, histVars
<1>1. CASE WorkStart  BY <1>1 DEF WorkStart
<1>2. CASE WorkSwitched  BY <1>2 DEF WorkSwitched, SwitchDone, AfterSwitch
<1>3. CASE WorkFailed  BY <1>3 DEF WorkFailed, SwitchFailed
<1>4. CASE WorkDelayed  BY <1>4 DEF WorkDelayed
<1>5. CASE Finalize(Worker)  BY <1>5, FinalizeTypes
<1> QED BY <1>1, <1>2, <1>3, <1>4, <1>5 DEF Work

LEMMA PinTypes ==
  ASSUME RTypeOK, NEW p \in Pins, PinFollows(p) \/ PinGlitches(p)
  PROVE  RTypeOK'
<1> USE DEF RTypeOK
<1>1. Edge(p)
  BY DEF PinFollows, PinGlitches
<1>2. pin' \in [Pins -> BOOLEAN]
  BY <1>1 DEF Edge, Flipped
<1>3. dstate' \in DriverStates /\ told' \in BOOLEAN
  BY <1>1 DEF Edge, HandlePgoods
<1>4. glitches' \in 0 .. MaxGlitches
  BY RegulatorAssumption DEF PinFollows, PinGlitches
<1> QED BY <1>1, <1>2, <1>3, <1>4 DEF Edge

LEMMA InitTypes == Init => RTypeOK
<1> SUFFICES ASSUME Init
             PROVE  RTypeOK
  OBVIOUS
<1>1. On \in BOOLEAN
  BY RegulatorAssumption, Zenon DEF On
<1>2. pc \in [Actors -> Places]
  BY DEF Init
<1>3. cbs \subseteq FallPins \cup RisePins
  BY DEF Init, Armed
<1>4. pin \in [Pins -> BOOLEAN]
  BY <1>1 DEF Init
<1>5. errors \in 0 .. MaxErrors /\ glitches \in 0 .. MaxGlitches /\ sets \in 0 .. MaxSets
  BY RegulatorAssumption DEF Init
<1> QED BY <1>1, <1>2, <1>3, <1>4, <1>5 DEF Init, RTypeOK

(* Every variable of a regulator keeps its type, and only pins with an edge  *)
(* ever have a callback installed (init_pgoods).                             *)
THEOREM RegulatorTypes == Spec => []RTypeOK
<1>1. RTypeOK /\ UNCHANGED vars => RTypeOK'
  BY DEF RTypeOK, vars, hardVars, histVars
<1>2. RTypeOK /\ [Next]_vars => RTypeOK'
  BY <1>1, CallerTypes, WorkTypes, PinTypes DEF Next
<1> QED BY InitTypes, <1>2, PTL DEF Spec

-----------------------------------------------------------------------------
(* As long as no change is cut short, caller and work item take turns, and   *)
(* an item on the queue belongs to a change that is not over.                *)
ApartInv ==
  /\ work \/ pc[Worker] # "idle" => pc[Caller] = "idle"
  /\ work => pc[Worker] = "idle"
  /\ work \/ pc[Worker] = "run" => ~Settled
  /\ pc[Caller] = "submit" => dstate = "deferred"
  /\ \A a \in {Caller, Worker} : pc[a] \in {"busy", "schedule"} => dstate = "pending"

(* From the moment the callbacks are removed no interrupt changes the state. *)
QuietInv ==
  /\ work \/ pc[Worker] \in {"run", "delay", "busy", "schedule"} => cbs = {}
  /\ pc[Caller] \in {"gpio", "submit", "delay", "busy", "schedule"} => cbs = {}

(* Outputs that are behind have a switch before them.                        *)
OutputInv ==
  \/ badset
  \/ out = enabled
  \/ lost
  \/ pc[Caller] \in {"mute", "gpio"}
  \/ dstate = "deferred" /\ (pc[Caller] = "submit" \/ work \/ pc[Worker] = "run")

TurnsInv == ~cut => ApartInv /\ QuietInv /\ OutputInv

LEMMA FinalizeTurns ==
  ASSUME RegulatorInv, TurnsInv, WorkqFirst, NEW a \in {Caller, Worker}, Finalize(a)
  PROVE  TurnsInv'
<1> USE DEF RegulatorInv, TurnsInv, ApartInv, QuietInv, OutputInv, At, Goto, Write, histVars, hardVars
<1>1. CASE StartDelay(a)  BY <1>1 DEF StartDelay
<1>2. CASE BusyWait(a)  BY <1>2 DEF BusyWait
<1>3. CASE Schedule(a)  BY <1>3 DEF Schedule
<1>4. CASE ScheduleFailed(a)  BY <1>4 DEF ScheduleFailed
<1>5. CASE Test(a)  BY <1>5 DEF Test
<1>6. CASE Arm(a)  BY <1>6 DEF Arm
<1>7. CASE Notify(a)  BY <1>7 DEF Notify
<1> QED BY <1>1, <1>2, <1>3, <1>4, <1>5, <1>6, <1>7 DEF Finalize

LEMMA CheckTurns ==
  ASSUME RegulatorInv, TurnsInv, WorkqFirst, NEW v \in BOOLEAN, SetCheck(v)
  PROVE  TurnsInv'
BY DEF RegulatorInv, TurnsInv, ApartInv, QuietInv, OutputInv, At, Goto, SetCheck, hardVars, histVars

LEMMA CallerTurns ==
  ASSUME RegulatorInv, TurnsInv, WorkqFirst, BootTest \/ Call \/ InCall
  PROVE  TurnsInv'
<1> USE DEF RegulatorInv, BootInv, TurnsInv, ApartInv, QuietInv, OutputInv, At, Goto, Write,
            histVars, hardVars
<1>1. CASE BootTest  BY <1>1 DEF BootTest
<1>2. ASSUME NEW v \in BOOLEAN, SetCheck(v)
      PROVE  TurnsInv'
  BY <1>2, CheckTurns
<1>3. CASE SimulateFault  BY <1>3 DEF SimulateFault
<1>4. CASE SetEnabled  BY <1>4 DEF SetEnabled
<1>5. CASE SetMute  BY <1>5 DEF SetMute
<1>6. CASE SetSwitched  BY <1>6 DEF SetSwitched, SwitchDone, AfterSwitch
<1>7. CASE SetFailed  BY <1>7 DEF SetFailed, SwitchFailed
<1>8. CASE SetDeferred  BY <1>8 DEF SetDeferred
<1>9. CASE SetSubmit  BY <1>9 DEF SetSubmit
<1>10. CASE SetUnscheduled  BY <1>10 DEF SetUnscheduled
<1>11. CASE Finalize(Caller)  BY <1>11, FinalizeTurns
<1> QED
  BY <1>1, <1>2, <1>3, <1>4, <1>5, <1>6, <1>7, <1>8, <1>9, <1>10, <1>11 DEF Call, InCall

LEMMA WorkTurns ==
  ASSUME RegulatorInv, TurnsInv, WorkqFirst, Work
  PROVE  TurnsInv'
<1> USE DEF RegulatorInv, TurnsInv, ApartInv, QuietInv, OutputInv, At, Goto, Write, histVars, hardVars
<1>1. CASE WorkStart  BY <1>1 DEF WorkStart
<1>2. CASE WorkSwitched  BY <1>2 DEF WorkSwitched, SwitchDone, AfterSwitch
<1>3. CASE WorkFailed  BY <1>3 DEF WorkFailed, SwitchFailed
<1>4. CASE WorkDelayed  BY <1>4 DEF WorkDelayed
<1>5. CASE Finalize(Worker)  BY <1>5, FinalizeTurns
<1> QED BY <1>1, <1>2, <1>3, <1>4, <1>5 DEF Work

LEMMA PinTurns ==
  ASSUME RegulatorInv, TurnsInv, NEW p \in Pins, PinFollows(p) \/ PinGlitches(p)
  PROVE  TurnsInv'
BY DEF RegulatorInv, TurnsInv, ApartInv, QuietInv, OutputInv,
       PinFollows, PinGlitches, Edge, Interrupts, HandlePgoods

LEMMA TurnsInvariant ==
  ASSUME WorkqFirst
  PROVE  Spec => []TurnsInv
<1>1. Init => TurnsInv
  BY DEF Init, On, TurnsInv, ApartInv, QuietInv, OutputInv
<1>2. TurnsInv /\ UNCHANGED vars => TurnsInv'
  BY DEF TurnsInv, ApartInv, QuietInv, OutputInv, vars, hardVars, histVars
<1>3. RegulatorInv /\ TurnsInv /\ [Next]_vars => TurnsInv'
  BY <1>2, CallerTurns, WorkTurns, PinTurns DEF Next
<1> QED BY RegulatorInvariant, <1>1, <1>3, PTL DEF Spec

(* A regulator at rest has its outputs where it was asked to have them: the  *)
(* deferred switch is carried out before anybody can ask anew, unless        *)
(* setting them failed, its work item could not be scheduled or a simulated  *)
(* fault cut the change short.  Callers that the queue holds off are assumed *)
(* (regulator_extended_set, _work).                                          *)
THEOREM OutputsFollow ==
  ASSUME WorkqFirst
  PROVE  Spec => []OutputFollows
<1>1. TurnsInv => OutputFollows
  BY DEF TurnsInv, OutputInv, OutputFollows, AtRest
<1> QED BY TurnsInvariant, <1>1, PTL

-----------------------------------------------------------------------------
DeviceStep ==
  pc[Caller] = "idle" /\ pc'[Caller] = "idle" /\ ~cut =>
    /\ enabled' = enabled
    /\ dstate' # dstate =>
         IF Settled /\ pc[Worker] = "idle" THEN dstate' = "failed"
                                           ELSE dstate' \in {"pending", "idle", "failed"}

LEMMA DeviceSteps ==
  ASSUME RegulatorInv, Next
  PROVE  DeviceStep
<1> USE DEF RegulatorInv, DeviceStep, At, Goto, Write
<1>1. CASE BootTest  BY <1>1 DEF BootTest
<1>2. CASE Call  BY <1>2 DEF Call, SetCheck, SimulateFault
<1>3. CASE InCall
  BY <1>3 DEF InCall, SetEnabled, SetMute, SetSwitched, SetFailed, SetDeferred, SetSubmit,
              SetUnscheduled, Finalize, StartDelay, BusyWait, Schedule, ScheduleFailed, Test, Arm, Notify
<1>4. CASE WorkStart \/ WorkSwitched \/ WorkFailed \/ WorkDelayed
  BY <1>4 DEF WorkStart, WorkSwitched, WorkFailed, WorkDelayed, SwitchDone, SwitchFailed
<1>5. CASE Finalize(Worker)
  BY <1>5 DEF Finalize, StartDelay, BusyWait, Schedule, ScheduleFailed, Test, Arm, Notify
<1>6. ASSUME NEW p \in Pins, PinFollows(p) \/ PinGlitches(p)
      PROVE  DeviceStep
  BY <1>6 DEF PinFollows, PinGlitches, Edge, HandlePgoods
<1> QED BY <1>1, <1>2, <1>3, <1>4, <1>5, <1>6 DEF Next, Work

(* Between two calls of value_set a regulator answers value_get as the power *)
(* graph expects of a device: the value stays, at rest it only fails, and on *)
(* the way it only comes to rest, whoever calls and wherever from.           *)
THEOREM RegulatorIsDevice == Spec => AnswersLikeDevice
<1>1. RegulatorInv /\ [Next]_vars => [DeviceStep]_vars
  BY DeviceSteps
<1> QED BY RegulatorInvariant, <1>1, PTL DEF Spec, AnswersLikeDevice, DeviceStep
===============================================================================
