---------------------------- MODULE PowerRail_proofs ----------------------------
(***************************************************************************)
(* Theorems about PowerRail, for every graph over the three devices, every *)
(* chip, any pins and delays of the regulator and any number of commands.  *)
(* What PowerGraph_proofs and RegulatorExtended_proofs show of one step is *)
(* taken over through the two instances below.                             *)
(***************************************************************************)
EXTENDS PowerRail, TLAPS, WellFoundedInduction

GP == INSTANCE PowerGraph_proofs WITH
        value <- Value, status <- Status, DevStates <- OnOff, Clients <- Commands,
        Deaf <- { d \in Devs : Dispatch(Api[d], "sub", "ok") # "ok" },
        Broken <- {}, WorkqFirst <- TRUE, fails <- 0, MaxFails <- 0

RP == INSTANCE RegulatorExtended_proofs WITH
        pc <- rpc, AlwaysOn <- FALSE, BootOn <- FALSE, Simulate <- FALSE,
        WorkqFirst <- TRUE, ScheduleFails <- FALSE, lost <- ~TRUE, sets <- 0, MaxSets <- 0

-----------------------------------------------------------------------------
(* G and GP, R and RP are the same definitions.                              *)
LEMMA GraphTables ==
  /\ GP!None = G!None /\ GP!TransitionIds = G!TransitionIds
  /\ GP!TransitionType = G!TransitionType
  /\ \A t : GP!Stages(t) = G!Stages(t)
BY DEF
  G!None, G!TransitionIds, G!Stages, G!StageType, G!TransitionType, GP!None,
  GP!TransitionIds, GP!Stages, GP!StageType, GP!TransitionType

LEMMA TaskSame ==
  /\ G!Begin \/ G!Settled \/ G!Enter \/ G!Start \/ G!NoRoute \/ G!StillChanging \/ G!StageFailed
       \/ G!StageReached \/ G!StageWrong \/ G!Finish \/ G!Close \/ G!Abort \/ G!Drop \/ G!ToSafe
     <=> GP!Begin \/ GP!Settled \/ GP!Enter \/ GP!Start \/ GP!NoRoute \/ GP!StillChanging
           \/ GP!StageFailed \/ GP!StageReached \/ GP!StageWrong \/ GP!Finish \/ GP!Close
           \/ GP!Abort \/ GP!Drop \/ GP!ToSafe
  /\ G!LogFault <=> GP!LogFault
  /\ G!Settled <=> GP!Settled
<1> USE DEF
  G!Current, G!Callback, G!PutFault, G!None, G!TransitionIds, G!Stages, G!taskVars,
  G!devVars, G!clientVars, G!logVars, G!NextSlot, GP!Current, GP!Callback, GP!PutFault,
  GP!None, GP!TransitionIds, GP!Stages, GP!taskVars, GP!devVars, GP!clientVars, GP!logVars,
  GP!NextSlot
<1>1. (G!Settled <=> GP!Settled) /\ (G!LogFault <=> GP!LogFault)
  BY DEF G!Settled, GP!Settled, G!LogFault, GP!LogFault
<1>2. /\ G!Begin <=> GP!Begin
      /\ G!Enter <=> GP!Enter
      /\ G!Start <=> GP!Start
      /\ G!NoRoute <=> GP!NoRoute
      /\ G!StillChanging <=> GP!StillChanging
  BY DEF
    G!Begin, G!Enter, G!Start, G!NoRoute, G!StillChanging, GP!Begin, GP!Enter, GP!Start,
    GP!NoRoute, GP!StillChanging
<1>3. /\ G!StageFailed <=> GP!StageFailed
      /\ G!StageReached <=> GP!StageReached
      /\ G!StageWrong <=> GP!StageWrong
  BY DEF
    G!StageFailed, G!StageReadable, G!StageReached, G!StageWrong, GP!StageFailed,
    GP!StageReadable, GP!StageReached, GP!StageWrong
<1>4. /\ G!Finish <=> GP!Finish
      /\ G!Close <=> GP!Close
      /\ G!Abort <=> GP!Abort
      /\ G!Drop <=> GP!Drop
      /\ G!ToSafe <=> GP!ToSafe
  BY DEF
    G!Finish, G!Close, G!Abort, G!Drop, G!ToSafe, GP!Finish, GP!Close, GP!Abort, GP!Drop,
    GP!ToSafe
<1> QED BY <1>1, <1>2, <1>3, <1>4

LEMMA CallsSame ==
  /\ \A d : G!Callback(d) <=> GP!Callback(d)
  /\ \A c, v : G!SetCheck(c, v) <=> GP!SetCheck(c, v)
  /\ \A c : (G!SetCommit(c) <=> GP!SetCommit(c)) /\ (G!SetSubmit(c) <=> GP!SetSubmit(c))
  /\ G!Current = GP!Current
BY DEF
  G!SetCheck, G!SetCommit, G!SetSubmit, G!MayRun, G!Known, G!NextSlot, G!Current,
  G!Callback, G!PutFault, G!None, G!TransitionIds, G!Stages, G!taskVars, G!devVars,
  G!clientVars, G!logVars, GP!SetCheck, GP!SetCommit, GP!SetSubmit, GP!MayRun, GP!Known,
  GP!NextSlot, GP!Current, GP!Callback, GP!PutFault, GP!None, GP!TransitionIds, GP!Stages,
  GP!taskVars, GP!devVars, GP!clientVars, GP!logVars

LEMMA GraphPropertiesSame ==
  /\ G!TaskTypeOK <=> GP!TaskTypeOK
  /\ G!ClientTypeOK <=> GP!ClientTypeOK
  /\ G!LogTypeOK <=> GP!LogTypeOK
  /\ G!OnePending <=> GP!OnePending
  /\ G!NoLostWakeup <=> GP!NoLostWakeup
BY DEF
  G!TaskTypeOK, G!ClientTypeOK, G!LogTypeOK, G!OnePending, G!InFlight, G!NoLostWakeup,
  G!WorkerPcs, G!Slots, G!Known, G!Current, G!None, G!TransitionIds, G!Stages,
  GP!TaskTypeOK, GP!ClientTypeOK, GP!LogTypeOK, GP!OnePending, GP!InFlight, GP!NoLostWakeup,
  GP!WorkerPcs, GP!Slots, GP!Known, GP!Current, GP!None, GP!TransitionIds, GP!Stages

LEMMA RegulatorSame ==
  /\ R!Init <=> RP!Init
  /\ \A v : R!SetCheck(v) <=> RP!SetCheck(v)
  /\ R!InCall <=> RP!InCall
  /\ R!Work <=> RP!Work
  /\ \A p : R!PinFollows(p) \/ R!PinGlitches(p) <=> RP!PinFollows(p) \/ RP!PinGlitches(p)
  /\ \A p : R!Interrupts(p) /\ R!Alarm(p, R!Flipped(p))
           <=> RP!Interrupts(p) /\ RP!Alarm(p, RP!Flipped(p))
  /\ R!RTypeOK <=> RP!RTypeOK
  /\ R!Caller = RP!Caller /\ R!Worker = RP!Worker
<1> USE DEF
  R!SetEnabled, R!SetMute, R!SetSwitched, R!SetFailed, R!SetDeferred, R!SetSubmit, R!SetUnscheduled,
  R!WorkStart, R!WorkSwitched, R!WorkFailed, R!WorkDelayed, R!Finalize, R!StartDelay,
  R!BusyWait, R!Schedule, R!ScheduleFailed, R!Test, R!Arm, R!Notify, R!Edge, R!Interrupts,
  R!HandlePgoods, R!Alarm, R!FindsDevice, R!Flipped, R!On, R!At, R!Goto, R!Write,
  R!SwitchDone, R!SwitchFailed, R!AfterSwitch, R!Good, R!Armed, R!hardVars, R!histVars,
  R!Caller, R!Worker, R!Boot, R!Actors, R!DriverStates, R!Places, RP!SetEnabled, RP!SetMute,
  RP!SetSwitched, RP!SetFailed, RP!SetDeferred, RP!SetSubmit, RP!SetUnscheduled, RP!WorkStart, RP!WorkSwitched,
  RP!WorkFailed, RP!WorkDelayed, RP!Finalize, RP!StartDelay, RP!BusyWait, RP!Schedule,
  RP!ScheduleFailed, RP!Test, RP!Arm, RP!Notify, RP!Edge, RP!Interrupts, RP!HandlePgoods,
  RP!Alarm, RP!FindsDevice, RP!Flipped, RP!On, RP!At, RP!Goto, RP!Write, RP!SwitchDone,
  RP!SwitchFailed, RP!AfterSwitch, RP!Good, RP!Armed, RP!hardVars, RP!histVars, RP!Caller,
  RP!Worker, RP!Boot, RP!Actors, RP!DriverStates, RP!Places
<1>1. R!InCall <=> RP!InCall
  BY DEF R!InCall, RP!InCall
<1>2. R!Work <=> RP!Work
  BY DEF R!Work, RP!Work
<1>3. /\ R!Init <=> RP!Init
      /\ R!RTypeOK <=> RP!RTypeOK
      /\ \A v : R!SetCheck(v) <=> RP!SetCheck(v)
  BY DEF R!Init, RP!Init, R!RTypeOK, RP!RTypeOK, R!SetCheck, RP!SetCheck
<1>4. /\ \A p : R!PinFollows(p) \/ R!PinGlitches(p) <=> RP!PinFollows(p) \/ RP!PinGlitches(p)
      /\ \A p : R!Interrupts(p) /\ R!Alarm(p, R!Flipped(p))
               <=> RP!Interrupts(p) /\ RP!Alarm(p, RP!Flipped(p))
  BY DEF R!PinFollows, RP!PinFollows, R!PinGlitches, RP!PinGlitches
<1> QED BY <1>1, <1>2, <1>3, <1>4

(* What the instances assume holds of the rail.                              *)
LEMMA GraphAssumed ==
  /\ SafeState \in States
  /\ States \subseteq 0 .. 254
  /\ Transitions \in Seq(GP!TransitionType)
  /\ \A t \in GP!TransitionIds : Transitions[t].stages # << >>
  /\ {} \subseteq Devs /\ { d \in Devs : Dispatch(Api[d], "sub", "ok") # "ok" } \subseteq Devs
  /\ Requests \subseteq Nat
  /\ 0 \in Nat /\ MaxReqs \in Nat
  /\ LogDepth \in Nat /\ 1 <= LogDepth /\ LogDepth < 256
<1>1. Transitions \in Seq(GP!TransitionType) /\ \A t \in GP!TransitionIds : Transitions[t].stages # << >>
  BY RailGraph, GraphTables, Zenon
<1>2. LogDepth \in Nat /\ 1 <= LogDepth /\ LogDepth < 256
  BY RailGraph
<1>3. {} \subseteq Devs /\ { d \in Devs : Dispatch(Api[d], "sub", "ok") # "ok" } \subseteq Devs
  OBVIOUS
<1>4. /\ SafeState \in States /\ States \subseteq 0 .. 254
      /\ Requests \subseteq Nat /\ 0 \in Nat /\ MaxReqs \in Nat
  BY RailGraph
<1> QED BY <1>1, <1>2, <1>3, <1>4

LEMMA SearchAssumed ==
  /\ FirstTransition \in [States \X States -> GP!TransitionIds \cup {GP!None}]
  /\ \A s \in States \X States :
       FirstTransition[s] # GP!None => Transitions[FirstTransition[s]].initial = s[1]
BY RailSearch, GraphTables

LEMMA EntriesAssumed ==
  \A d \in Devs, t \in GP!TransitionIds \cup {GP!None} :
    \A k \in {GP!None} \cup (IF t = GP!None THEN {}
                            ELSE GP!Stages(t) \cup {Len(Transitions[t].stages) + 1}) :
      [transition |-> t, stage |-> k, spec |-> d] \in Entries
<1> TAKE d \in Devs, t \in GP!TransitionIds \cup {GP!None}
<1>1. CASE t = GP!None
  BY <1>1, RailEntries, GraphTables
<1>2. CASE t # GP!None
  <2>1. Len(Transitions[t].stages) \in Nat
    BY <1>2, RailGraph, GraphTables DEF G!TransitionIds, G!TransitionType
  <2> QED BY <1>2, <2>1, RailEntries, GraphTables DEF G!Stages, G!None
<1> QED BY <1>1, <1>2

LEMMA RegulatorAssumed ==
  /\ Pins \subseteq Nat
  /\ FallPins \subseteq Pins /\ RisePins \subseteq Pins
  /\ Delay \in [BOOLEAN -> {"none", "busy", "work"}]
  /\ {FALSE, FALSE, FALSE, TRUE, FALSE} \subseteq BOOLEAN
  /\ {MaxErrors, MaxGlitches, 0} \subseteq Nat
BY RailDevices

-----------------------------------------------------------------------------
(* Types.  The caller of the regulator is the task at a value_set, and its   *)
(* work item runs while no other item of the queue does.                     *)
DeviceTypes ==
  /\ RP!RTypeOK
  /\ cstate \in OnOff /\ cstatus \in {"ok", "again", "fault"}
  /\ target \in OnOff

ShellTypes ==
  /\ spc \in [Commands -> {"idle", "set", "get", "sub", "take", "unsub"}]
  /\ sem \in [Commands -> {0, 1}]

Turns ==
  /\ rpc[RP!Caller] # "idle" => pc = "set" /\ GP!Current.dev = Reg
  /\ pc = "idle" \/ rpc[RP!Worker] = "idle"

RailTypes == GP!TypeOK /\ DeviceTypes /\ ShellTypes /\ Turns

(* The types of the devices are those the graph expects of its values.       *)
LEMMA DevicesAnswer ==
  /\ DeviceTypes => GP!DevTypeOK
  /\ DeviceTypes' => GP!DevTypeOK'
BY DEF DeviceTypes, GP!DevTypeOK, Value, Status, Answer, Devs, OnOff, RP!RTypeOK, RP!DriverStates

LEMMA DevicesFrame ==
  ASSUME DeviceTypes, UNCHANGED devVars
  PROVE  DeviceTypes'
BY DEF DeviceTypes, devVars, regVars, cvars, RP!RTypeOK

LEMMA RegulatorFrame ==
  ASSUME RP!RTypeOK, UNCHANGED regVars
  PROVE  RP!RTypeOK'
BY DEF regVars, RP!RTypeOK

(* The current device of a task that is at one.                              *)
LEMMA CurrentIs ==
  ASSUME GP!TypeOK, pc = "set"
  PROVE  /\ GP!InFlight /\ transition # GP!None
         /\ GP!Current.dev \in Devs /\ GP!Current.state \in OnOff
<1>1. transition # GP!None /\ stage \in GP!Stages(transition)
  BY DEF GP!TypeOK, GP!TaskTypeOK
<1> QED BY <1>1, GP!CurrentFacts, GraphAssumed, SearchAssumed, EntriesAssumed DEF GP!InFlight

(* A step outside the task that may call the callback of a device.           *)
LEMMA ToldTypes ==
  ASSUME GP!TypeOK, NEW called \in BOOLEAN, NEW d \in Devs, Told(called, d)
  PROVE  newState' \in States /\ queued' \in BOOLEAN /\ GP!LogTypeOK'
<1>1. CASE called
  <2>1. GP!Callback(d)
    BY <1>1, CallsSame DEF Told
  <2> QED BY <2>1, GP!CallbackFacts, GraphAssumed, SearchAssumed, EntriesAssumed
<1>2. CASE ~called
  <2>1. UNCHANGED <<newState, queued, logVars>>
    BY <1>2 DEF Told
  <2> QED BY <2>1 DEF logVars, GP!TypeOK, GP!TaskTypeOK, GP!LogTypeOK
<1> QED BY <1>1, <1>2

LEMMA CalledTypes ==
  ASSUME GP!TypeOK, newState' \in States, queued' \in BOOLEAN, GP!LogTypeOK', DeviceTypes',
         UNCHANGED <<state, transition, stage, clientVars>>,
         pc' = pc \/ (pc = "set" /\ pc' = "stage")
  PROVE  GP!TypeOK'
<1>1. GP!TaskTypeOK'
  BY DEF GP!TypeOK, GP!TaskTypeOK, GP!WorkerPcs
<1>2. GP!ClientTypeOK' /\ GP!CountsOK'
  BY DEF GP!TypeOK, GP!ClientTypeOK, GP!CountsOK, clientVars
<1> QED BY <1>1, <1>2, DevicesAnswer DEF GP!TypeOK

LEMMA GraphTypes ==
  ASSUME RailTypes, GraphTask \/ GraphSettled
  PROVE  RailTypes'
<1>1. UNCHANGED devVars /\ DeviceTypes'
  BY DevicesFrame DEF RailTypes, GraphTask, GraphSettled
<1>2. ShellTypes'
  BY DEF RailTypes, ShellTypes, GraphTask, GraphSettled, shellVars
<1>3. pc # "set" /\ rpc[RP!Worker] = "idle"
  <2>1. CASE GraphTask
    BY <2>1, RegulatorSame
    DEF GraphTask, RegWorks, G!Begin, G!Enter, G!Start, G!NoRoute, G!StillChanging, G!StageFailed,
        G!StageReached, G!StageWrong, G!Finish, G!Close, G!LogFault, G!Abort, G!Drop, G!ToSafe
  <2>2. CASE GraphSettled
    BY <2>2 DEF GraphSettled, G!Settled, RailTypes, Turns
  <2> QED BY <2>1, <2>2
<1>4. Turns'
  BY <1>1, <1>3 DEF RailTypes, Turns, devVars, regVars
<1>5. GP!TypeOK'
  <2>1. CASE G!LogFault
    BY <2>1, TaskSame, GP!SetKeepsType, GraphAssumed, SearchAssumed, EntriesAssumed DEF RailTypes
  <2>2. CASE ~G!LogFault
    BY <2>2, TaskSame, GP!TaskKeepsType, GraphAssumed, SearchAssumed, EntriesAssumed
    DEF RailTypes, GraphTask, GraphSettled
  <2> QED BY <2>1, <2>2
<1> QED BY <1>1, <1>2, <1>4, <1>5 DEF RailTypes

LEMMA SetTypes ==
  ASSUME RailTypes, CallRegulator \/ RegulatorCall \/ SetConfigurator \/ SetSwitch
  PROVE  RailTypes'
<1>1. /\ pc = "set" /\ rpc[RP!Worker] = "idle"
      /\ GP!Current = G!Current /\ GP!Current.state \in OnOff
      /\ UNCHANGED GP!Current
  BY CurrentIs, CallsSame
  DEF CallRegulator, RegulatorCall, SetConfigurator, SetSwitch, Setting, RailTypes, Turns,
      graphVars, GP!Current
<1>2. ShellTypes'
  BY DEF RailTypes, ShellTypes, CallRegulator, RegulatorCall, SetConfigurator, SetSwitch, shellVars
<1>3. CASE CallRegulator
  <2>1. RP!SetCheck(G!Current.state = 1)
    BY <1>3, RegulatorSame DEF CallRegulator
  <2>2. 0' \in 0 .. 0
    OBVIOUS
  <2>3. RP!RTypeOK'
    BY <2>1, <2>2, RP!CheckTypes, RegulatorAssumed DEF RailTypes, DeviceTypes
  <2>4. DeviceTypes'
    BY <1>3, <2>3 DEF CallRegulator, RailTypes, DeviceTypes, cvars
  <2>5. rpc'[RP!Worker] = "idle"
    BY <1>1, <2>1 DEF RP!SetCheck, RP!Goto, RP!Caller, RP!Worker, RailTypes, DeviceTypes,
                      RP!RTypeOK, RP!Actors
  <2>6. newState' \in States /\ queued' \in BOOLEAN /\ GP!LogTypeOK'
    BY <1>3 DEF CallRegulator, graphVars, logVars, RailTypes, GP!TypeOK, GP!TaskTypeOK, GP!LogTypeOK
  <2>7. UNCHANGED <<state, transition, stage, pc, clientVars>>
    BY <1>3 DEF CallRegulator, graphVars
  <2>8. GP!TypeOK'
    BY <2>4, <2>6, <2>7, CalledTypes DEF RailTypes
  <2>9. Turns'
    BY <1>1, <1>3, <2>5, <2>7 DEF Turns, CallRegulator, Setting
  <2> QED BY <1>2, <2>4, <2>8, <2>9 DEF RailTypes
<1>4. CASE RegulatorCall
  <2>1. RP!InCall
    BY <1>4, RegulatorSame DEF RegulatorCall
  <2>2. RP!RTypeOK'
    BY <2>1, RP!CallerTypes, RegulatorAssumed DEF RailTypes, DeviceTypes
  <2>3. DeviceTypes'
    BY <1>4, <2>2 DEF RegulatorCall, RailTypes, DeviceTypes, cvars
  <2>4. rpc'[RP!Worker] = "idle"
    BY <1>1, <2>1
    DEF RP!InCall, RP!SetEnabled, RP!SetMute, RP!SetSwitched, RP!SwitchDone, RP!SetFailed,
        RP!SwitchFailed, RP!SetDeferred, RP!SetSubmit, RP!SetUnscheduled, RP!Finalize, RP!StartDelay, RP!BusyWait,
        RP!Schedule, RP!ScheduleFailed, RP!Test, RP!Arm, RP!Notify, RP!Goto, RP!Caller,
        RP!Worker, RailTypes, DeviceTypes, RP!RTypeOK, RP!Actors
  <2>5. newState' \in States /\ queued' \in BOOLEAN /\ GP!LogTypeOK'
    BY <1>4, ToldTypes DEF RegulatorCall, RailTypes, Devs
  <2>6. /\ UNCHANGED <<state, transition, stage, clientVars>>
        /\ pc' = IF rpc'[RP!Caller] = "idle" THEN "stage" ELSE "set"
    BY <1>4, RegulatorSame DEF RegulatorCall
  <2>7. GP!TypeOK'
    BY <1>1, <2>3, <2>5, <2>6, CalledTypes DEF RailTypes
  <2>8. Turns'
    BY <1>1, <1>4, <2>4, <2>6 DEF Turns, RegulatorCall, Setting
  <2> QED BY <1>2, <2>3, <2>7, <2>8 DEF RailTypes
<1>5. CASE SetConfigurator \/ SetSwitch
  <2>1. UNCHANGED regVars /\ rpc[RP!Caller]' = rpc[RP!Caller] /\ rpc[RP!Worker]' = "idle"
    BY <1>1, <1>5 DEF SetConfigurator, SetSwitch, regVars
  <2>2. DeviceTypes'
    BY <1>1, <1>5, <2>1, RegulatorFrame
    DEF SetConfigurator, SetSwitch, CwSet, cvars, RailTypes, DeviceTypes
  <2>3. newState' \in States /\ queued' \in BOOLEAN /\ GP!LogTypeOK'
    BY <1>5
    DEF SetConfigurator, SetSwitch, logVars, RailTypes, GP!TypeOK, GP!TaskTypeOK, GP!LogTypeOK
  <2>4. UNCHANGED <<state, transition, stage, clientVars>> /\ pc' = "stage"
    BY <1>5 DEF SetConfigurator, SetSwitch
  <2>5. GP!TypeOK'
    BY <1>1, <2>2, <2>3, <2>4, CalledTypes DEF RailTypes
  <2>6. rpc[RP!Caller] = "idle"
    BY <1>1, <1>5 DEF RailTypes, Turns, SetConfigurator, SetSwitch, Setting, Reg, Cfg, Switch
  <2>7. Turns'
    BY <2>1, <2>6 DEF Turns
  <2> QED BY <1>2, <2>2, <2>5, <2>7 DEF RailTypes
<1> QED BY <1>3, <1>4, <1>5

LEMMA WorkTypes ==
  ASSUME RailTypes, RegulatorWork \/ ConfiguratorWork
  PROVE  RailTypes'
<1>1. /\ pc = "idle" /\ pc' = pc /\ rpc[RP!Caller] = "idle"
      /\ UNCHANGED <<state, transition, stage, clientVars>>
  BY DEF RegulatorWork, ConfiguratorWork, QueueFree, RailTypes, Turns
<1>2. ShellTypes'
  BY DEF RailTypes, ShellTypes, RegulatorWork, ConfiguratorWork, shellVars
<1>3. CASE RegulatorWork
  <2>1. RP!Work
    BY <1>3, RegulatorSame DEF RegulatorWork
  <2>2. RP!RTypeOK'
    BY <2>1, RP!WorkTypes, RegulatorAssumed DEF RailTypes, DeviceTypes
  <2>3. DeviceTypes'
    BY <1>3, <2>2 DEF RegulatorWork, RailTypes, DeviceTypes, cvars
  <2>4. rpc'[RP!Caller] = "idle"
    BY <1>1, <2>1
    DEF RP!Work, RP!WorkStart, RP!WorkSwitched, RP!SwitchDone, RP!WorkFailed, RP!SwitchFailed,
        RP!WorkDelayed, RP!Finalize, RP!StartDelay, RP!BusyWait, RP!Schedule,
        RP!ScheduleFailed, RP!Test, RP!Arm, RP!Notify, RP!Goto, RP!Caller, RP!Worker,
        RailTypes, DeviceTypes, RP!RTypeOK, RP!Actors
  <2>5. newState' \in States /\ queued' \in BOOLEAN /\ GP!LogTypeOK'
    BY <1>3, ToldTypes DEF RegulatorWork, RailTypes, Devs
  <2>6. GP!TypeOK'
    BY <1>1, <2>3, <2>5, CalledTypes DEF RailTypes
  <2> QED BY <1>1, <1>2, <2>3, <2>4, <2>6 DEF RailTypes, Turns
<1>4. CASE ConfiguratorWork
  <2>1. UNCHANGED regVars
    BY <1>4 DEF ConfiguratorWork
  <2>2. cstatus' \in {"ok", "again", "fault"} /\ UNCHANGED <<cstate, target>>
    BY <1>4
    DEF ConfiguratorWork, CwWork, CwTask, Done, Stopped, RailTypes, DeviceTypes
  <2>3. DeviceTypes'
    BY <2>1, <2>2, RegulatorFrame DEF RailTypes, DeviceTypes
  <2>4. newState' \in States /\ queued' \in BOOLEAN /\ GP!LogTypeOK'
    <3>1. Told(TRUE, Cfg)
      BY <1>4 DEF ConfiguratorWork, Told
    <3> QED BY <3>1, ToldTypes DEF RailTypes, Devs
  <2>5. GP!TypeOK'
    BY <1>1, <2>3, <2>4, CalledTypes DEF RailTypes
  <2> QED BY <1>1, <1>2, <2>1, <2>3, <2>5 DEF RailTypes, Turns, regVars
<1> QED BY <1>3, <1>4

LEMMA PinTypes ==
  ASSUME RailTypes, NEW p \in Pins, PinEdge(p)
  PROVE  RailTypes'
<1>1. RP!PinFollows(p) \/ RP!PinGlitches(p)
  BY RegulatorSame DEF PinEdge
<1>2. UNCHANGED <<state, transition, stage, pc, rpc, clientVars, cvars, target, shellVars>>
  BY <1>1 DEF PinEdge, RP!PinFollows, RP!PinGlitches, RP!Edge
<1>3. RP!RTypeOK'
  BY <1>1, RP!PinTypes, RegulatorAssumed DEF RailTypes, DeviceTypes
<1>4. DeviceTypes' /\ ShellTypes'
  BY <1>2, <1>3 DEF RailTypes, DeviceTypes, ShellTypes, cvars, shellVars
<1>5. newState' \in States /\ queued' \in BOOLEAN /\ GP!LogTypeOK'
  <2>1. (R!Interrupts(p) /\ R!Alarm(p, R!Flipped(p))) \in BOOLEAN
    OBVIOUS
  <2> QED BY <2>1, ToldTypes DEF PinEdge, RailTypes, Devs
<1>6. GP!TypeOK'
  BY <1>2, <1>4, <1>5, CalledTypes DEF RailTypes
<1>7. Turns'
  BY <1>2 DEF RailTypes, Turns, GP!Current
<1> QED BY <1>4, <1>6, <1>7 DEF RailTypes

LEMMA CommandTypes ==
  ASSUME RailTypes, NEW c \in Commands, CmdSame(c) \/ CmdSet(c) \/ CmdStep(c)
  PROVE  RailTypes'
<1>1. UNCHANGED devVars /\ DeviceTypes'
  BY DevicesFrame
  DEF RailTypes, CmdSame, CmdSet, CmdStep, CmdGet, CmdSubscribe, CmdTake, CmdUnsubscribe
<1>2. ShellTypes'
  BY DEF RailTypes, ShellTypes, CmdSame, CmdSet, CmdStep, CmdGet, CmdSubscribe, CmdTake,
         CmdUnsubscribe, GoOn
<1>3. CASE UNCHANGED <<graphVars, clientVars>>
  <2>1. UNCHANGED <<newState, queued, state, transition, stage, pc>>
        /\ UNCHANGED clientVars /\ GP!LogTypeOK'
    BY <1>3 DEF graphVars, logVars, RailTypes, GP!TypeOK, GP!LogTypeOK
  <2>2. newState \in States /\ queued \in BOOLEAN
    BY DEF RailTypes, GP!TypeOK, GP!TaskTypeOK
  <2>3. GP!TypeOK'
    BY <1>1, <2>1, <2>2, CalledTypes DEF RailTypes
  <2>4. Turns'
    BY <1>1, <2>1 DEF RailTypes, Turns, GP!Current, devVars, regVars
  <2> QED BY <1>1, <1>2, <2>3, <2>4 DEF RailTypes
<1>4. CASE CmdSet(c)
  <2>1. GP!Client(c)
    BY <1>4, CallsSame DEF CmdSet, GP!Client
  <2>2. GP!TypeOK'
    BY <2>1, GP!ClientKeepsType, GraphAssumed, SearchAssumed, EntriesAssumed DEF RailTypes
  <2>3. UNCHANGED <<transition, stage, pc>>
    BY <2>1 DEF GP!Client, GP!SetCheck, GP!SetCommit, GP!SetSubmit, GP!taskVars
  <2>4. Turns'
    BY <1>1, <2>3 DEF RailTypes, Turns, GP!Current, devVars, regVars
  <2> QED BY <1>1, <1>2, <2>2, <2>4 DEF RailTypes
<1> QED
  BY <1>3, <1>4 DEF CmdSame, CmdStep, CmdGet, CmdSubscribe, CmdTake, CmdUnsubscribe

LEMMA InitTypes == Init => RailTypes
<1> SUFFICES ASSUME Init
             PROVE  RailTypes
  OBVIOUS
<1>1. RP!Init
  BY RegulatorSame DEF Init
<1>2. RP!RTypeOK
  BY <1>1, RP!InitTypes, RegulatorAssumed
<1>3. DeviceTypes
  BY <1>2, RailDevices DEF DeviceTypes, Init, CwInit, OnOff
<1>4. ShellTypes
  BY DEF Init, ShellTypes
<1>5. Turns
  BY <1>1 DEF Turns, Init, RP!Init, RP!On, RP!Actors, RP!Caller, RP!Boot
<1>6. GP!TaskTypeOK /\ GP!ClientTypeOK /\ GP!CountsOK
  <2>1. SafeState \in States /\ MaxReqs \in Nat
    BY RailGraph
  <2>2. GP!TaskTypeOK
    BY <2>1, GraphTables DEF Init, GP!TaskTypeOK, GP!WorkerPcs
  <2>3. GP!ClientTypeOK
    BY GraphTables DEF Init, GP!ClientTypeOK
  <2> QED BY <2>1, <2>2, <2>3 DEF Init, GP!CountsOK
<1>7. GP!LogTypeOK
  BY RailGraph
  DEF Init, G!LogInit, GP!LogTypeOK, G!Slots, GP!Slots
<1> QED BY <1>3, <1>4, <1>5, <1>6, <1>7, DevicesAnswer DEF RailTypes, GP!TypeOK

LEMMA NextTypes == RailTypes /\ [Next]_vars => RailTypes'
<1>1. ASSUME RailTypes, UNCHANGED vars
      PROVE  RailTypes'
  <2>1. UNCHANGED <<devVars, shellVars, clientVars, newState, queued, state, transition, stage, pc>>
    BY <1>1 DEF vars, graphVars
  <2>2. newState \in States /\ queued \in BOOLEAN /\ GP!LogTypeOK'
    BY <1>1 DEF RailTypes, GP!TypeOK, GP!TaskTypeOK, GP!LogTypeOK, vars, graphVars, logVars
  <2>3. DeviceTypes'
    BY <1>1, <2>1, DevicesFrame DEF RailTypes
  <2>4. GP!TypeOK'
    BY <1>1, <2>1, <2>2, <2>3, CalledTypes DEF RailTypes
  <2>5. ShellTypes' /\ Turns'
    BY <1>1, <2>1 DEF RailTypes, ShellTypes, Turns, GP!Current, shellVars, devVars, regVars
  <2> QED BY <2>3, <2>4, <2>5 DEF RailTypes
<1> QED
  BY <1>1, GraphTypes, SetTypes, WorkTypes, PinTypes, CommandTypes DEF Next, QueueStep

LEMMA TypesInvariant == Spec => []RailTypes
  BY InitTypes, NextTypes, PTL DEF Spec

(* Whatever the devices, the pins and the commands do in between, the task   *)
(* reads a stage of a declared transition, the regulator's value_set runs    *)
(* for a stage of the graph only, and every variable keeps its type.         *)
THEOREM RailKeepsTypes == Spec => []RailTypeOK
<1>1. RailTypes => RailTypeOK
  BY GraphPropertiesSame, RegulatorSame
  DEF RailTypes, GP!TypeOK, DeviceTypes, ShellTypes, Turns, RailTypeOK, R!Caller, RP!Caller
<1> QED BY TypesInvariant, <1>1, PTL

-----------------------------------------------------------------------------
(* The regulator of the rail keeps the invariants of RegulatorExtended: the  *)
(* queue holds the task off while its work item runs, nothing simulates a    *)
(* fault, and init is over.                                                  *)
DriverInv ==
  /\ RP!RegulatorInv /\ RP!TurnsInv
  /\ ~cut /\ rpc[RP!Boot] = "idle"

LEMMA DriverFrame ==
  ASSUME DriverInv, UNCHANGED regVars
  PROVE  DriverInv'
BY DEF DriverInv, regVars, RP!RegulatorInv, RP!BootInv, RP!SettleInv, RP!TellInv, RP!ArmInv,
       RP!TurnsInv, RP!ApartInv, RP!QuietInv, RP!OutputInv, RP!Settled, RP!OnTheWay

LEMMA DriverCalls ==
  ASSUME RailTypes, DriverInv, CallRegulator \/ RegulatorCall
  PROVE  DriverInv'
<1>1. CASE CallRegulator
  <2>1. RP!SetCheck(G!Current.state = 1)
    BY <1>1, RegulatorSame DEF CallRegulator
  <2>2. RP!RegulatorInv' /\ RP!TurnsInv'
    BY <2>1, RP!CheckRegulator, RP!CheckTurns, RegulatorAssumed DEF DriverInv
  <2>3. ~cut' /\ rpc'[RP!Boot] = "idle"
    BY <2>1 DEF RP!SetCheck, RP!Goto, RP!histVars, RP!Boot, RP!Caller, RailTypes, DeviceTypes,
                RP!RTypeOK, RP!Actors, DriverInv
  <2> QED BY <2>2, <2>3 DEF DriverInv
<1>2. CASE RegulatorCall
  <2>1. RP!InCall
    BY <1>2, RegulatorSame DEF RegulatorCall
  <2>2. RP!RegulatorInv' /\ RP!TurnsInv'
    BY <2>1, RP!CallerRegulator, RP!CallerTurns, RegulatorAssumed DEF DriverInv
  <2>3. ~cut' /\ rpc'[RP!Boot] = "idle"
    BY <2>1
    DEF RP!InCall, RP!SetEnabled, RP!SetMute, RP!SetSwitched, RP!SwitchDone, RP!SetFailed,
        RP!SwitchFailed, RP!SetDeferred, RP!SetSubmit, RP!SetUnscheduled, RP!Finalize, RP!StartDelay, RP!BusyWait,
        RP!Schedule, RP!ScheduleFailed, RP!Test, RP!Arm, RP!Notify, RP!Goto, RP!histVars,
        RP!Boot, RP!Caller, RailTypes, DeviceTypes, RP!RTypeOK, RP!Actors, DriverInv
  <2> QED BY <2>2, <2>3 DEF DriverInv
<1> QED BY <1>1, <1>2

LEMMA DriverWorks ==
  ASSUME RailTypes, DriverInv, RegulatorWork
  PROVE  DriverInv'
<1>1. RP!Work
  BY RegulatorSame DEF RegulatorWork
<1>2. RP!RegulatorInv' /\ RP!TurnsInv'
  BY <1>1, RP!WorkRegulator, RP!WorkTurns, RegulatorAssumed DEF DriverInv
<1>3. ~cut' /\ rpc'[RP!Boot] = "idle"
  BY <1>1
  DEF RP!Work, RP!WorkStart, RP!WorkSwitched, RP!SwitchDone, RP!WorkFailed, RP!SwitchFailed,
      RP!WorkDelayed, RP!Finalize, RP!StartDelay, RP!BusyWait, RP!Schedule,
      RP!ScheduleFailed, RP!Test, RP!Arm, RP!Notify, RP!Goto, RP!histVars, RP!Boot, RP!Worker,
      RailTypes, DeviceTypes, RP!RTypeOK, RP!Actors, DriverInv
<1> QED BY <1>2, <1>3 DEF DriverInv

LEMMA DriverPins ==
  ASSUME DriverInv, NEW p \in Pins, PinEdge(p)
  PROVE  DriverInv'
<1>1. RP!PinFollows(p) \/ RP!PinGlitches(p)
  BY RegulatorSame DEF PinEdge
<1>2. RP!RegulatorInv' /\ RP!TurnsInv'
  BY <1>1, RP!PinRegulator, RP!PinTurns, RegulatorAssumed DEF DriverInv
<1>3. UNCHANGED <<cut, rpc>>
  BY <1>1 DEF RP!PinFollows, RP!PinGlitches, RP!Edge
<1> QED BY <1>2, <1>3 DEF DriverInv

LEMMA Undriven ==
  /\ GraphTask \/ GraphSettled \/ SetConfigurator \/ SetSwitch \/ ConfiguratorWork
       => UNCHANGED regVars
  /\ \A c \in Commands : CmdSame(c) \/ CmdSet(c) \/ CmdStep(c) => UNCHANGED devVars
BY DEF GraphTask, GraphSettled, SetConfigurator, SetSwitch, ConfiguratorWork, CmdSame, CmdSet,
       CmdStep, CmdGet, CmdSubscribe, CmdTake, CmdUnsubscribe, devVars

LEMMA NextDriver ==
  ASSUME RailTypes, DriverInv, [Next]_vars
  PROVE  DriverInv'
<1>1. CASE UNCHANGED regVars
  BY <1>1, DriverFrame
<1>2. CASE CallRegulator \/ RegulatorCall \/ RegulatorWork
  BY <1>2, DriverCalls, DriverWorks
<1>3. CASE \E p \in Pins : PinEdge(p)
  BY <1>3, DriverPins
<1>4. UNCHANGED devVars \/ UNCHANGED vars => UNCHANGED regVars
  BY DEF vars, devVars
<1> QED BY <1>1, <1>2, <1>3, <1>4, Undriven DEF Next, QueueStep

-----------------------------------------------------------------------------
(* What the graph relies on.  While value_set of the regulator is under way  *)
(* its answer may be pending with the task at the call; its work item runs   *)
(* for the current stage only; and the configurator is pending exactly while *)
(* its item is on the queue.                                                 *)
Pending ==
  /\ GP!OnePending
  /\ rpc[RP!Caller] = "idle" => GP!Steady

Owner == rpc[RP!Worker] # "idle" => GP!InFlight /\ GP!Current.dev = Reg

Wakeup == rpc[RP!Worker] = "idle" => GP!NoLostWakeup

RailInv == RailTypes /\ DriverInv /\ Pending /\ Owner /\ Wakeup

(* A scheduled work item belongs to the device of the current stage.         *)
LEMMA WorkOwned ==
  ASSUME RailInv, work
  PROVE  GP!InFlight /\ GP!Current.dev = Reg
<1>1. ~RP!Settled
  BY DEF RailInv, DriverInv, RP!TurnsInv, RP!ApartInv
<1>2. Status[Reg] = "pending"
  BY <1>1
  DEF RP!Settled, Status, Answer, Devs, RailInv, RailTypes, DeviceTypes, RP!RTypeOK, RP!DriverStates
<1> QED BY <1>2 DEF RailInv, Pending, GP!OnePending, Devs

(* A step that leaves the stage alone.                                       *)
LEMMA PendingStays ==
  ASSUME Pending, UNCHANGED <<transition, stage>>,
         \A d \in Devs : Status'[d] = "pending" =>
           Status[d] = "pending" \/ (GP!InFlight /\ GP!Current.dev = d),
         rpc'[RP!Caller] = "idle" /\ pc' \in {"set", "fault", "abort", "drop"} =>
           /\ rpc[RP!Caller] = "idle" /\ pc \in {"set", "fault", "abort", "drop"}
           /\ Status'[GP!Current.dev] # "pending"
  PROVE  Pending'
<1>1. UNCHANGED <<GP!InFlight, GP!Current>>
  BY DEF GP!InFlight, GP!Current
<1> QED BY <1>1 DEF Pending, GP!OnePending, GP!Steady

LEMMA GraphKeeps ==
  ASSUME RailInv, GraphTask \/ GraphSettled
  PROVE  Pending' /\ Owner' /\ Wakeup'
<1>1. GP!Task /\ UNCHANGED regVars
  BY TaskSame, Undriven DEF GraphTask, GraphSettled, GP!Task
<1>2. pc # "set" /\ rpc[RP!Caller] = "idle" /\ rpc[RP!Worker] = "idle"
  <2>1. CASE GraphTask
    BY <2>1, RegulatorSame
    DEF RailInv, RailTypes, Turns, GraphTask, RegWorks, G!Begin, G!Enter, G!Start, G!NoRoute,
        G!StillChanging, G!StageFailed, G!StageReached, G!StageWrong, G!Finish, G!Close,
        G!LogFault, G!Abort, G!Drop, G!ToSafe
  <2>2. CASE GraphSettled
    BY <2>2 DEF GraphSettled, G!Settled, RailInv, RailTypes, Turns
  <2> QED BY <2>1, <2>2
<1>3. GP!TypeOK /\ GP!PendingInv /\ GP!NoLostWakeup
  BY <1>2 DEF RailInv, RailTypes, Pending, Wakeup, GP!PendingInv, GP!OnlyReadable
<1>4. GP!PendingInv'
  BY <1>1, <1>3, GP!TaskKeepsPending, GraphAssumed, SearchAssumed, EntriesAssumed
<1>5. GP!NoLostWakeup'
  BY <1>1, <1>3, GP!TaskKeepsWakeup, GraphAssumed, SearchAssumed, EntriesAssumed
<1> QED BY <1>1, <1>2, <1>4, <1>5 DEF Pending, Owner, Wakeup, GP!PendingInv, regVars

LEMMA SetKeeps ==
  ASSUME RailInv, RailTypes', DriverInv',
         CallRegulator \/ RegulatorCall \/ SetConfigurator \/ SetSwitch
  PROVE  Pending' /\ Owner' /\ Wakeup'
<1>1. /\ pc = "set" /\ pc' # "idle" /\ GP!InFlight
      /\ UNCHANGED <<transition, stage, GP!Current, GP!InFlight>>
      /\ G!Current = GP!Current
      /\ rpc[RP!Worker] = "idle" /\ rpc'[RP!Worker] = "idle"
  BY CurrentIs, CallsSame
  DEF CallRegulator, RegulatorCall, SetConfigurator, SetSwitch, Setting, RailInv, RailTypes, Turns,
      graphVars, GP!Current, GP!InFlight
<1>2. Owner' /\ Wakeup'
  BY <1>1 DEF Owner, Wakeup, GP!NoLostWakeup
<1>3. rpc'[RP!Caller] = "idle" => pc' = "stage"
  <2>1. CASE CallRegulator
    <3>1. RP!SetCheck(G!Current.state = 1)
      BY <2>1, RegulatorSame DEF CallRegulator
    <3> QED BY <3>1 DEF RP!SetCheck, RP!Goto, RailInv, RailTypes, DeviceTypes, RP!RTypeOK, RP!Actors
  <2>2. CASE ~CallRegulator
    BY <2>2, RegulatorSame DEF RegulatorCall, SetConfigurator, SetSwitch
  <2> QED BY <2>1, <2>2
<1>4. \A d \in Devs : d # GP!Current.dev => Status'[d] = Status[d]
  BY <1>1
  DEF CallRegulator, RegulatorCall, SetConfigurator, SetSwitch, Setting, Status, Devs, Reg, Cfg,
      Switch, regVars, cvars
<1>5. Pending'
  BY <1>1, <1>3, <1>4, PendingStays DEF RailInv
<1> QED BY <1>2, <1>5

LEMMA RegulatorWorkKeeps ==
  ASSUME RailInv, RailTypes', DriverInv', RegulatorWork
  PROVE  Pending' /\ Owner' /\ Wakeup'
<1>1. /\ RP!Work /\ pc' = "idle"
      /\ UNCHANGED <<state, transition, stage, GP!Current, GP!InFlight, cvars>>
  BY RegulatorSame DEF RegulatorWork, GP!Current, GP!InFlight
<1>2. GP!InFlight /\ GP!Current.dev = Reg
  <2>1. CASE RP!WorkStart
    BY <2>1, WorkOwned DEF RP!WorkStart
  <2>2. CASE ~RP!WorkStart
    BY <1>1, <2>2
    DEF RP!Work, RP!WorkSwitched, RP!WorkFailed, RP!WorkDelayed, RP!Finalize, RP!StartDelay,
        RP!BusyWait, RP!Schedule, RP!ScheduleFailed, RP!Test, RP!Arm, RP!Notify, RP!At, RP!Worker,
        RailInv, Owner
  <2> QED BY <2>1, <2>2
<1>3. Owner'
  BY <1>1, <1>2 DEF Owner
<1>4. Pending'
  <2>1. \A d \in Devs : d # Reg => Status'[d] = Status[d]
    BY <1>1 DEF Status, cvars
  <2> QED BY <1>1, <1>2, <2>1, PendingStays DEF RailInv
<1>5. Wakeup'
  <2>1. SUFFICES ASSUME rpc'[RP!Worker] = "idle"
                 PROVE  GP!NoLostWakeup'
    BY DEF Wakeup
  <2>2. RP!Schedule(RP!Worker) \/ rpc[R!Worker] = "notify"
    BY <1>1, <2>1, RegulatorSame
    DEF RP!Work, RP!WorkStart, RP!WorkSwitched, RP!SwitchDone, RP!AfterSwitch, RP!WorkFailed,
        RP!SwitchFailed, RP!WorkDelayed, RP!Finalize, RP!StartDelay, RP!BusyWait,
        RP!ScheduleFailed, RP!Test, RP!Arm, RP!Notify, RP!At, RP!Goto, RP!Worker, RP!Actors,
        RailInv, RailTypes, DeviceTypes, RP!RTypeOK
  <2>3. CASE RP!Schedule(RP!Worker)
    <3>1. dstate' = "pending"
      BY <2>3 DEF RP!Schedule, RP!At, RailInv, DriverInv, RP!TurnsInv, RP!ApartInv, RP!Worker
    <3>2. Status'[GP!Current.dev] = "pending"
      BY <1>2, <3>1 DEF Status, Devs, Reg, Answer
    <3> QED BY <1>1, <1>2, <3>2 DEF GP!NoLostWakeup
  <2>4. CASE rpc[R!Worker] = "notify"
    <3>1. GP!Callback(Reg)
      BY <2>4, CallsSame DEF RegulatorWork, Told
    <3>2. queued'
      BY <3>1 DEF GP!Callback, Dispatch, Api, Reg, Switch, Devs
    <3> QED BY <3>2 DEF GP!NoLostWakeup
  <2> QED BY <2>2, <2>3, <2>4
<1> QED BY <1>3, <1>4, <1>5

LEMMA ConfiguratorWorkKeeps ==
  ASSUME RailInv, RailTypes', ConfiguratorWork
  PROVE  Pending' /\ Owner' /\ Wakeup'
<1>1. /\ pc = "idle" /\ pc' = "idle" /\ UNCHANGED regVars
      /\ UNCHANGED <<state, transition, stage, GP!Current, GP!InFlight>>
  BY DEF ConfiguratorWork, QueueFree, GP!Current, GP!InFlight
<1>2. Owner'
  BY <1>1 DEF RailInv, Owner, regVars
<1>3. Pending'
  <2>1. \A d \in Devs : Status'[d] = "pending" => Status[d] = "pending"
    BY <1>1
    DEF ConfiguratorWork, CwWork, CwTask, Done, Stopped, Status, Answer, regVars, RailInv, RailTypes,
        DeviceTypes
  <2> QED BY <1>1, <2>1, PendingStays DEF RailInv
<1>4. GP!Callback(Cfg)
  BY CallsSame DEF ConfiguratorWork
<1>5. queued'
  BY <1>4 DEF GP!Callback, Dispatch, Api, Cfg, Switch, Devs
<1> QED BY <1>2, <1>3, <1>5 DEF Wakeup, GP!NoLostWakeup

LEMMA PinKeeps ==
  ASSUME RailInv, NEW p \in Pins, PinEdge(p)
  PROVE  Pending' /\ Owner' /\ Wakeup'
<1>1. /\ RP!Edge(p)
      /\ UNCHANGED <<state, transition, stage, pc, rpc, cvars, cpc, GP!Current, GP!InFlight>>
  BY RegulatorSame DEF PinEdge, RP!PinFollows, RP!PinGlitches, RP!Edge, GP!Current, GP!InFlight, clientVars
<1>2. dstate' = dstate \/ dstate' = "failed"
  BY <1>1 DEF RP!Edge, RP!HandlePgoods
<1>3. \A d \in Devs : Status'[d] = "pending" => Status[d] = "pending"
  BY <1>1, <1>2 DEF Status, Answer, cvars
<1>4. Owner'
  BY <1>1 DEF RailInv, Owner
<1>5. pc \in {"set", "fault", "abort", "drop"} => GP!Current.dev \in Devs
  BY GP!CurrentFacts, GraphAssumed, SearchAssumed, EntriesAssumed
  DEF RailInv, RailTypes, GP!TypeOK, GP!TaskTypeOK
<1>6. Pending'
  BY <1>1, <1>3, <1>5, PendingStays DEF RailInv, Pending, GP!Steady
<1>7. Wakeup'
  <2>1. CASE R!Interrupts(p) /\ R!Alarm(p, R!Flipped(p))
    <3>1. GP!Callback(Reg)
      BY <2>1, CallsSame DEF PinEdge, Told
    <3>2. queued'
      BY <3>1 DEF GP!Callback, Dispatch, Api, Reg, Switch, Devs
    <3> QED BY <3>2 DEF Wakeup, GP!NoLostWakeup
  <2>2. CASE ~(R!Interrupts(p) /\ R!Alarm(p, R!Flipped(p)))
    <3>1. UNCHANGED <<newState, queued, dstate>>
      BY <1>1, <2>2, RegulatorSame DEF PinEdge, Told, RP!Edge, RP!HandlePgoods
    <3>2. UNCHANGED Status
      BY <1>1, <3>1 DEF Status, cvars
    <3> QED BY <1>1, <3>1, <3>2 DEF RailInv, Wakeup, GP!NoLostWakeup
  <2> QED BY <2>1, <2>2
<1> QED BY <1>4, <1>6, <1>7

LEMMA CommandKeeps ==
  ASSUME RailInv, NEW c \in Commands, CmdSame(c) \/ CmdSet(c) \/ CmdStep(c)
  PROVE  Pending' /\ Owner' /\ Wakeup'
<1>1. UNCHANGED <<Value, Status, rpc>>
  BY Undriven DEF devVars, regVars, cvars, Value, Status
<1>2. CASE CmdSet(c)
  <2>1. GP!Client(c)
    BY <1>2, CallsSame DEF CmdSet, GP!Client
  <2>2. UNCHANGED <<transition, stage, pc, GP!Current, GP!InFlight>>
    BY <2>1 DEF GP!Client, GP!SetCheck, GP!SetCommit, GP!SetSubmit, GP!taskVars, GP!Current, GP!InFlight
  <2>3. rpc[RP!Worker] = "idle"
    BY <1>2, RegulatorSame DEF CmdSet, At, RegWorks
  <2>4. GP!NoLostWakeup'
    BY <2>1, <2>3, GP!ClientKeepsWakeup, GraphAssumed, SearchAssumed, EntriesAssumed
    DEF RailInv, RailTypes, Wakeup
  <2> QED BY <1>1, <2>2, <2>4 DEF RailInv, Pending, GP!OnePending, GP!Steady, Owner, Wakeup
<1>3. CASE UNCHANGED <<graphVars, clientVars>>
  BY <1>1, <1>3
  DEF graphVars, clientVars, RailInv, Pending, GP!OnePending, GP!Steady, GP!InFlight, GP!Current,
      GP!NoLostWakeup, Owner, Wakeup
<1> QED
  BY <1>2, <1>3 DEF CmdSame, CmdStep, CmdGet, CmdSubscribe, CmdTake, CmdUnsubscribe

LEMMA InitRail == Init => RailInv
<1> SUFFICES ASSUME Init
             PROVE  RailInv
  OBVIOUS
<1>1. RP!Init /\ RailTypes
  BY RegulatorSame, InitTypes DEF Init
<1>2. DriverInv
  <2>1. RP!RegulatorInv
    BY <1>1, RP!InitRegulator, RegulatorAssumed
  <2>2. RP!TurnsInv
    BY <1>1 DEF RP!Init, RP!On, RP!TurnsInv, RP!ApartInv, RP!QuietInv, RP!OutputInv, RP!Actors,
                RP!Caller, RP!Worker, RP!Boot
  <2> QED BY <1>1, <2>1, <2>2 DEF DriverInv, RP!Init, RP!On, RP!Actors, RP!Boot
<1>3. \A d \in Devs : Status[d] # "pending"
  BY <1>1 DEF RP!Init, RP!On, Init, CwInit, Status, Answer
<1>4. Pending /\ Owner /\ Wakeup
  BY <1>1, <1>3
  DEF Init, RP!Init, RP!On, RP!Actors, RP!Worker, RP!Boot, Pending, Owner, Wakeup, GP!OnePending,
      GP!Steady, GP!NoLostWakeup
<1> QED BY <1>1, <1>2, <1>4 DEF RailInv

LEMMA NextRail == RailInv /\ [Next]_vars => RailInv'
<1> SUFFICES ASSUME RailInv, [Next]_vars
             PROVE  RailInv'
  OBVIOUS
<1>1. RailTypes' /\ DriverInv'
  BY NextTypes, NextDriver DEF RailInv
<1>2. CASE UNCHANGED vars
  <2>1. UNCHANGED <<Value, Status, rpc, pc, transition, stage, queued, state, newState, cpc>>
    BY <1>2 DEF vars, graphVars, devVars, regVars, cvars, clientVars, Value, Status
  <2> QED
    BY <1>1, <2>1
    DEF RailInv, Pending, Owner, Wakeup, GP!OnePending, GP!Steady, GP!NoLostWakeup, GP!InFlight,
        GP!Current
<1>3. CASE Next
  <2>1. Pending' /\ Owner' /\ Wakeup'
    BY <1>1, <1>3, GraphKeeps, SetKeeps, RegulatorWorkKeeps, ConfiguratorWorkKeeps, PinKeeps,
       CommandKeeps
    DEF Next, QueueStep
  <2> QED BY <1>1, <2>1 DEF RailInv
<1> QED BY <1>2, <1>3

LEMMA RailInvariant == Spec => []RailInv
  BY InitRail, NextRail, PTL DEF Spec

(* The drivers give the graph what it expects of its devices: a regulator    *)
(* that delays, defers or fails and a configurator that works on the queue   *)
(* are never both under way, and the one that is will call the graph back    *)
(* (regulator_extended.c finalize_transition and _work, cw_work,             *)
(* power_graph_task).                                                        *)
THEOREM DriversKeep == Spec => []DriversKeepPromises
<1>1. RailInv => DriversKeepPromises
  BY GraphPropertiesSame, RegulatorSame
  DEF RailInv, Pending, Wakeup, DriversKeepPromises, RegWorks
<1> QED BY RailInvariant, <1>1, PTL

-----------------------------------------------------------------------------
(* The subscriptions of a list that holds no callback twice.                 *)
LEMMA Subscribed ==
  ASSUME NEW s \in Seq(Commands), NEW c \in Commands, IsInjective(s), c \notin Notified(s)
  PROVE  /\ Manage(s, c, TRUE) \in Seq(Commands) /\ IsInjective(Manage(s, c, TRUE))
         /\ Notified(Manage(s, c, TRUE)) = Notified(s) \cup {c}
<1>1. /\ Append(s, c) \in Seq(Commands) /\ Len(Append(s, c)) = Len(s) + 1
      /\ \A i \in 1 .. Len(s) : Append(s, c)[i] = s[i]
      /\ Append(s, c)[Len(s) + 1] = c
      /\ DOMAIN Append(s, c) = 1 .. Len(s) + 1 /\ DOMAIN s = 1 .. Len(s) /\ Len(s) \in Nat
  OBVIOUS
<1>2. \A i \in 1 .. Len(s) : s[i] # c
  BY DEF Notified
<1>3. IsInjective(Append(s, c))
  BY <1>1, <1>2 DEF IsInjective
<1>4. Notified(Append(s, c)) = Notified(s) \cup {c}
  <2>1. \A i : i \in 1 .. Len(s) + 1 <=> i \in 1 .. Len(s) \/ i = Len(s) + 1
    BY <1>1
  <2> QED BY <1>1, <2>1 DEF Notified
<1> QED BY <1>1, <1>3, <1>4 DEF Manage

LEMMA RemoveFirstOnly ==
  ASSUME NEW S, NEW s \in Seq(S), NEW k \in 1 .. Len(s), IsInjective(s)
  PROVE  RemoveFirst(s, s[k]) = SubSeq(s, 1, k - 1) \o SubSeq(s, k + 1, Len(s))
<1> DEFINE I == { i \in 1 .. Len(s) : s[i] = s[k] }
<1>1. I = {k}
  BY DEF IsInjective
<1>2. Min({k}) = k
  BY DEF Min
<1>3. SelectInSeq(s, LAMBDA v : v = s[k]) = IF I # {} THEN Min(I) ELSE 0
  BY DEF SelectInSeq
<1>4. SelectInSeq(s, LAMBDA v : v = s[k]) = k
  BY <1>1, <1>2, <1>3
<1> QED BY <1>4 DEF RemoveFirst, RemoveAt

LEMMA Joined ==
  ASSUME NEW S, NEW u \in Seq(S), NEW v \in Seq(S)
  PROVE  /\ u \o v \in Seq(S) /\ Len(u \o v) = Len(u) + Len(v)
         /\ \A i \in 1 .. Len(u) : (u \o v)[i] = u[i]
         /\ \A i \in Len(u) + 1 .. Len(u) + Len(v) : (u \o v)[i] = v[i - Len(u)]
OBVIOUS

LEMMA Spliced ==
  ASSUME NEW S, NEW s \in Seq(S), NEW k \in 1 .. Len(s)
  PROVE  \E t \in Seq(S) :
           /\ t = SubSeq(s, 1, k - 1) \o SubSeq(s, k + 1, Len(s))
           /\ Len(t) = Len(s) - 1
           /\ \A i \in 1 .. Len(s) - 1 : t[i] = IF i < k THEN s[i] ELSE s[i + 1]
<1>1. /\ SubSeq(s, 1, k - 1) \in Seq(S) /\ Len(SubSeq(s, 1, k - 1)) = k - 1
      /\ \A i \in 1 .. k - 1 : SubSeq(s, 1, k - 1)[i] = s[i]
  OBVIOUS
<1>2. /\ SubSeq(s, k + 1, Len(s)) \in Seq(S) /\ Len(SubSeq(s, k + 1, Len(s))) = Len(s) - k
      /\ \A i \in 1 .. Len(s) - k : SubSeq(s, k + 1, Len(s))[i] = s[k + i]
  OBVIOUS
<1>3. PICK u \in Seq(S), v \in Seq(S) :
        u = SubSeq(s, 1, k - 1) /\ v = SubSeq(s, k + 1, Len(s))
  BY <1>1, <1>2
<1>4. /\ Len(u) = k - 1 /\ \A i \in 1 .. k - 1 : u[i] = s[i]
      /\ Len(v) = Len(s) - k /\ \A i \in 1 .. Len(s) - k : v[i] = s[k + i]
  BY <1>1, <1>2, <1>3
<1>5. PICK t : t = u \o v
  OBVIOUS
<1>6. Len(s) \in Nat /\ k \in Nat
  OBVIOUS
<1>7. t \in Seq(S) /\ Len(t) = Len(s) - 1
  <2>1. u \o v \in Seq(S) /\ Len(u \o v) = Len(u) + Len(v)
    BY Joined
  <2>2. (k - 1) + (Len(s) - k) = Len(s) - 1
    BY <1>6
  <2> QED BY <1>5, <1>4, <2>1, <2>2
<1>8. ASSUME NEW i \in 1 .. Len(s) - 1
      PROVE  t[i] = IF i < k THEN s[i] ELSE s[i + 1]
  <2>1. CASE i < k
    <3>1. i \in 1 .. Len(u)
      BY <1>6, <1>4, <2>1
    <3> QED BY <1>5, <1>4, <2>1, <3>1, Joined
  <2>2. CASE ~(i < k)
    <3>1. i \in Len(u) + 1 .. Len(u) + Len(v) /\ i - Len(u) \in 1 .. Len(s) - k
          /\ k + (i - Len(u)) = i + 1
      BY <1>6, <1>4, <2>2
    <3>2. t[i] = v[i - Len(u)]
      BY <1>5, <3>1, Joined
    <3> QED BY <1>4, <2>2, <3>1, <3>2
  <2> QED BY <2>1, <2>2
<1> QED BY <1>5, <1>3, <1>7, <1>8

LEMMA SkipOne ==
  ASSUME NEW k \in Int, NEW a \in Int, NEW b \in Int,
         (IF a < k THEN a ELSE a + 1) = (IF b < k THEN b ELSE b + 1)
  PROVE  a = b
OBVIOUS

LEMMA Unsubscribed ==
  ASSUME NEW s \in Seq(Commands), NEW c \in Commands, IsInjective(s), c \in Notified(s)
  PROVE  /\ Manage(s, c, FALSE) \in Seq(Commands) /\ IsInjective(Manage(s, c, FALSE))
         /\ Notified(Manage(s, c, FALSE)) = Notified(s) \ {c}
<1>1. PICK k \in 1 .. Len(s) : s[k] = c
  BY DEF Notified
<1> DEFINE t == SubSeq(s, 1, k - 1) \o SubSeq(s, k + 1, Len(s))
<1>2. Manage(s, c, FALSE) = t
  BY <1>1, RemoveFirstOnly DEF Manage
<1>3. /\ t \in Seq(Commands) /\ Len(t) = Len(s) - 1 /\ Len(s) \in Nat
      /\ DOMAIN t = 1 .. Len(s) - 1 /\ DOMAIN s = 1 .. Len(s)
      /\ \A i \in 1 .. Len(s) - 1 : t[i] = IF i < k THEN s[i] ELSE s[i + 1]
  <2>1. PICK u \in Seq(Commands) :
          /\ u = t /\ Len(u) = Len(s) - 1
          /\ \A i \in 1 .. Len(s) - 1 : u[i] = IF i < k THEN s[i] ELSE s[i + 1]
    BY Spliced, Zenon
  <2> HIDE DEF t
  <2>2. /\ t \in Seq(Commands) /\ Len(t) = Len(s) - 1
        /\ \A i \in 1 .. Len(s) - 1 : t[i] = IF i < k THEN s[i] ELSE s[i + 1]
    BY <2>1, Zenon
  <2>3. DOMAIN t = 1 .. Len(t) /\ DOMAIN s = 1 .. Len(s) /\ Len(s) \in Nat
    BY <2>2
  <2> QED BY <2>2, <2>3
<1> HIDE DEF t
<1>0. ASSUME NEW i \in 1 .. Len(s) - 1
      PROVE  \E j \in 1 .. Len(s) : t[i] = s[j] /\ j # k /\ j = IF i < k THEN i ELSE i + 1
  BY <1>3
<1>4. IsInjective(t)
  <2> SUFFICES ASSUME NEW a \in 1 .. Len(s) - 1, NEW b \in 1 .. Len(s) - 1, t[a] = t[b]
               PROVE  a = b
    BY <1>3 DEF IsInjective
  <2>2. PICK j \in 1 .. Len(s) : t[a] = s[j] /\ j = IF a < k THEN a ELSE a + 1
    BY <1>0
  <2>3. PICK l \in 1 .. Len(s) : t[b] = s[l] /\ l = IF b < k THEN b ELSE b + 1
    BY <1>0
  <2>4. j = l
    BY <1>3, <2>2, <2>3 DEF IsInjective
  <2>5. a \in Int /\ b \in Int /\ k \in Int
    BY <1>3
  <2>6. (IF a < k THEN a ELSE a + 1) = (IF b < k THEN b ELSE b + 1)
    BY <2>2, <2>3, <2>4, Zenon
  <2> QED BY <2>5, <2>6, SkipOne
<1>5. Notified(t) = Notified(s) \ {c}
  <2>1. \A i \in 1 .. Len(s) - 1 : t[i] \in Notified(s) /\ t[i] # c
    <3> TAKE i \in 1 .. Len(s) - 1
    <3>1. PICK j \in 1 .. Len(s) : t[i] = s[j] /\ j # k
      BY <1>0
    <3>2. s[j] # s[k]
      BY <1>3, <3>1 DEF IsInjective
    <3> QED BY <1>1, <3>1, <3>2 DEF Notified
  <2>2. \A j \in 1 .. Len(s) : s[j] # c => \E i \in 1 .. Len(s) - 1 : t[i] = s[j]
    <3> TAKE j \in 1 .. Len(s)
    <3>1. CASE j < k
      BY <1>3, <3>1
    <3>2. CASE j > k
      <4>1. j - 1 \in 1 .. Len(s) - 1 /\ ~(j - 1 < k) /\ j - 1 + 1 = j
        BY <1>3, <3>2
      <4> QED BY <1>3, <4>1
    <3> QED BY <1>1, <3>1, <3>2
  <2>3. Len(t) = Len(s) - 1
    BY <1>3
  <2>4. \A x \in Notified(t) : x \in Notified(s) \ {c}
    BY <2>1, <2>3 DEF Notified
  <2>5. \A x \in Notified(s) \ {c} : x \in Notified(t)
    BY <2>2, <2>3 DEF Notified
  <2> QED BY <2>4, <2>5
<1> QED BY <1>2, <1>3, <1>4, <1>5

(* The list of the graph, with who is on it.                                 *)
ListInv == list \in Seq(Commands) /\ NoDanglingCallback

LEMMA ListFrame ==
  ASSUME ListInv, UNCHANGED list,
         \A c \in Commands : spc[c] \in {"take", "unsub"} <=> spc'[c] \in {"take", "unsub"}
  PROVE  ListInv'
BY DEF ListInv, NoDanglingCallback

LEMMA NextList == RailTypes /\ ListInv /\ [Next]_vars => ListInv'
<1> SUFFICES ASSUME RailTypes, ListInv, [Next]_vars
             PROVE  ListInv'
  OBVIOUS
<1> USE DEF RailTypes, ShellTypes
<1>1. CASE QueueStep \/ (\E p \in Pins : PinEdge(p)) \/ UNCHANGED vars
  <2>1. UNCHANGED <<spc, list>>
    BY <1>1
    DEF QueueStep, GraphTask, GraphSettled, CallRegulator, RegulatorCall, SetConfigurator, SetSwitch,
        RegulatorWork, ConfiguratorWork, PinEdge, vars, shellVars
  <2> QED BY <2>1, ListFrame
<1>2. ASSUME NEW c \in Commands, CmdSame(c) \/ CmdSet(c) \/ CmdGet(c) \/ CmdTake(c)
      PROVE  ListInv'
  BY <1>2, ListFrame DEF CmdSame, CmdSet, CmdGet, CmdTake, GoOn, At
<1>3. ASSUME NEW c \in Commands, CmdSubscribe(c)
      PROVE  ListInv'
  <2>1. list' = Manage(list, c, TRUE) /\ spc[c] = "sub" /\ spc' = [spc EXCEPT ![c] = "take"]
    BY <1>3 DEF CmdSubscribe, GoOn, At
  <2>2. c \notin Notified(list)
    BY <2>1 DEF ListInv, NoDanglingCallback
  <2>3. list \in Seq(Commands) /\ IsInjective(list)
    BY DEF ListInv, NoDanglingCallback
  <2>4. /\ Manage(list, c, TRUE) \in Seq(Commands) /\ IsInjective(Manage(list, c, TRUE))
        /\ Notified(Manage(list, c, TRUE)) = Notified(list) \cup {c}
    BY <2>2, <2>3, Subscribed
  <2>5. list' \in Seq(Commands) /\ IsInjective(list') /\ Notified(list') = Notified(list) \cup {c}
    BY <2>1, <2>4, Zenon
  <2>6. \A d \in Commands : spc'[d] \in {"take", "unsub"} <=> spc[d] \in {"take", "unsub"} \/ d = c
    BY <2>1
  <2> QED BY <2>5, <2>6 DEF ListInv, NoDanglingCallback
<1>4. ASSUME NEW c \in Commands, CmdUnsubscribe(c)
      PROVE  ListInv'
  <2>1. list' = Manage(list, c, FALSE) /\ spc[c] = "unsub" /\ spc' = [spc EXCEPT ![c] = "idle"]
    BY <1>4 DEF CmdUnsubscribe, GoOn, At
  <2>2. c \in Notified(list)
    BY <2>1 DEF ListInv, NoDanglingCallback
  <2>3. list \in Seq(Commands) /\ IsInjective(list)
    BY DEF ListInv, NoDanglingCallback
  <2>4. /\ Manage(list, c, FALSE) \in Seq(Commands) /\ IsInjective(Manage(list, c, FALSE))
        /\ Notified(Manage(list, c, FALSE)) = Notified(list) \ {c}
    BY <2>2, <2>3, Unsubscribed
  <2>5. list' \in Seq(Commands) /\ IsInjective(list') /\ Notified(list') = Notified(list) \ {c}
    BY <2>1, <2>4, Zenon
  <2>6. \A d \in Commands : spc'[d] \in {"take", "unsub"} <=> spc[d] \in {"take", "unsub"} /\ d # c
    BY <2>1
  <2> QED BY <2>5, <2>6 DEF ListInv, NoDanglingCallback
<1> QED BY <1>1, <1>2, <1>3, <1>4 DEF Next, CmdStep

(* The graph never holds the lock of a command that has returned, whichever  *)
(* way it returned and however many commands wait at once: the callback is   *)
(* on the list exactly between the two calls of value_sub, and once          *)
(* (cmd_state of power_graph_shell.c, value_sub_manage).                     *)
THEOREM NoneDangles == Spec => []NoDanglingCallback
<1>1. Init => ListInv
  BY DEF Init, ListInv, NoDanglingCallback, Notified, EmptyList, IsInjective
<1>2. ListInv => NoDanglingCallback
  BY DEF ListInv
<1> QED BY <1>1, <1>2, NextList, TypesInvariant, PTL DEF Spec

-----------------------------------------------------------------------------
(* Which device a step may move.                                             *)
LEMMA WorkerOwned ==
  ASSUME RailInv, RegulatorWork
  PROVE  GP!InFlight /\ GP!Current.dev = Reg
<1>1. RP!Work
  BY RegulatorSame DEF RegulatorWork
<1>2. CASE RP!WorkStart
  BY <1>2, WorkOwned DEF RP!WorkStart
<1>3. CASE ~RP!WorkStart
  BY <1>1, <1>3
  DEF RP!Work, RP!WorkSwitched, RP!WorkFailed, RP!WorkDelayed, RP!Finalize, RP!StartDelay,
      RP!BusyWait, RP!Schedule, RP!ScheduleFailed, RP!Test, RP!Arm, RP!Notify, RP!At, RP!Worker,
      RailInv, Owner
<1> QED BY <1>2, <1>3

(* The configurator changes at its value_set and in its work item.           *)
LEMMA ConfiguratorAlone ==
  /\ GraphTask \/ GraphSettled \/ CallRegulator \/ RegulatorCall \/ SetSwitch \/ RegulatorWork
       => UNCHANGED cvars
  /\ \A p \in Pins : PinEdge(p) => UNCHANGED cvars
  /\ \A c \in Commands : CmdSame(c) \/ CmdSet(c) \/ CmdStep(c) => UNCHANGED cvars
BY Undriven
DEF GraphTask, GraphSettled, CallRegulator, RegulatorCall, SetSwitch, RegulatorWork, PinEdge, devVars

(* The value of the regulator changes in its value_set only.                 *)
LEMMA EnabledChanges ==
  /\ RegulatorCall => RP!SetEnabled \/ UNCHANGED enabled
  /\ CallRegulator \/ RegulatorWork => UNCHANGED enabled
  /\ \A p \in Pins : PinEdge(p) => UNCHANGED enabled
<1>1. RegulatorCall => RP!SetEnabled \/ UNCHANGED enabled
  BY RegulatorSame
  DEF RegulatorCall, RP!InCall, RP!SetMute, RP!SetSwitched, RP!SetFailed, RP!SetDeferred,
      RP!SetSubmit, RP!SetUnscheduled, RP!Finalize, RP!StartDelay, RP!BusyWait, RP!Schedule, RP!ScheduleFailed,
      RP!Test, RP!Arm, RP!Notify
<1>2. RegulatorWork => UNCHANGED enabled
  BY RegulatorSame
  DEF RegulatorWork, RP!Work, RP!WorkStart, RP!WorkSwitched, RP!WorkFailed, RP!WorkDelayed,
      RP!Finalize, RP!StartDelay, RP!BusyWait, RP!Schedule, RP!ScheduleFailed, RP!Test, RP!Arm,
      RP!Notify
<1>3. CallRegulator => UNCHANGED enabled
  <2>1. CallRegulator => RP!SetCheck(G!Current.state = 1)
    BY RegulatorSame DEF CallRegulator
  <2> QED BY <2>1 DEF RP!SetCheck
<1>4. \A p \in Pins : PinEdge(p) => UNCHANGED enabled
  BY RegulatorSame DEF PinEdge, RP!PinFollows, RP!PinGlitches, RP!Edge
<1> QED BY <1>1, <1>2, <1>3, <1>4

(* Outside the task the transition stays, and only the device of the current *)
(* stage gets another value or is started.                                   *)
LEMMA OnlyCurrentMoves ==
  ASSUME RailInv, [Next]_vars, ~GraphTask, ~GraphSettled
  PROVE  /\ UNCHANGED <<transition, stage>>
         /\ \A d \in Devs :
              \/ Value'[d] = Value[d] /\ (Status'[d] = "pending" => Status[d] = "pending")
              \/ GP!InFlight /\ GP!Current.dev = d
<1>1. CASE CallRegulator \/ RegulatorCall \/ SetConfigurator \/ SetSwitch
  <2>1. /\ GP!InFlight /\ UNCHANGED <<transition, stage>>
        /\ G!Current = GP!Current
    BY <1>1, CurrentIs, CallsSame
    DEF CallRegulator, RegulatorCall, SetConfigurator, SetSwitch, Setting, RailInv, RailTypes,
        graphVars
  <2>2. \A d \in Devs : d # GP!Current.dev => Value'[d] = Value[d] /\ Status'[d] = Status[d]
    BY <1>1, <2>1
    DEF CallRegulator, RegulatorCall, SetConfigurator, SetSwitch, Setting, Value, Status, Devs, Reg,
        Cfg, Switch, regVars, cvars
  <2> QED BY <2>1, <2>2
<1>2. CASE RegulatorWork
  <2>1. GP!InFlight /\ GP!Current.dev = Reg /\ UNCHANGED <<transition, stage>>
    BY <1>2, WorkerOwned DEF RegulatorWork
  <2>2. \A d \in Devs : d # Reg => Value'[d] = Value[d] /\ Status'[d] = Status[d]
    BY <1>2 DEF RegulatorWork, Value, Status, cvars
  <2> QED BY <2>1, <2>2
<1>3. CASE ConfiguratorWork
  <2>1. UNCHANGED <<transition, stage, enabled, target, cstate, dstate>>
    BY <1>3 DEF ConfiguratorWork, CwWork, regVars
  <2>2. cstatus' \in {"ok", "fault"} \/ cstatus' = cstatus
    BY <1>3 DEF ConfiguratorWork, CwWork, CwTask, Done, Stopped
  <2> QED BY <2>1, <2>2 DEF Value, Status, Answer, Devs
<1>4. ASSUME NEW p \in Pins, PinEdge(p)
      PROVE  /\ UNCHANGED <<transition, stage, Value>>
             /\ \A d \in Devs : Status'[d] = "pending" => Status[d] = "pending"
  <2>1. UNCHANGED <<transition, stage, enabled, target, cvars>>
    BY <1>4, EnabledChanges DEF PinEdge
  <2>2. dstate' = dstate \/ dstate' = "failed"
    BY <1>4, RegulatorSame DEF PinEdge, RP!PinFollows, RP!PinGlitches, RP!Edge, RP!HandlePgoods
  <2> QED BY <2>1, <2>2 DEF Value, Status, Answer, Devs, cvars
<1>5. ASSUME NEW c \in Commands, CmdSame(c) \/ CmdSet(c) \/ CmdStep(c)
      PROVE  UNCHANGED <<transition, stage, Value, Status>>
  <2>1. UNCHANGED <<Value, Status>>
    BY <1>5, Undriven DEF devVars, regVars, cvars, Value, Status
  <2>2. CASE CmdSet(c)
    <3>1. GP!Client(c)
      BY <2>2, CallsSame DEF CmdSet, GP!Client
    <3> QED BY <2>1, <3>1 DEF GP!Client, GP!SetCheck, GP!SetCommit, GP!SetSubmit, GP!taskVars
  <2>3. CASE ~CmdSet(c)
    BY <1>5, <2>1, <2>3
    DEF CmdSame, CmdStep, CmdGet, CmdSubscribe, CmdTake, CmdUnsubscribe, graphVars
  <2> QED BY <2>2, <2>3
<1>6. CASE UNCHANGED vars
  BY <1>6 DEF vars, graphVars, devVars, regVars, cvars, Value, Status
<1> QED BY <1>1, <1>2, <1>3, <1>4, <1>5, <1>6 DEF Next, QueueStep

(* The task at its own steps is the task of PowerGraph.                      *)
LEMMA TaskAlone ==
  ASSUME RailInv, GraphTask \/ GraphSettled
  PROVE  /\ GP!Task /\ UNCHANGED devVars /\ pc # "set"
         /\ rpc[RP!Caller] = "idle" /\ rpc'[RP!Caller] = "idle"
<1>1. GP!Task /\ UNCHANGED devVars
  BY TaskSame DEF GraphTask, GraphSettled, GP!Task
<1>2. pc # "set"
  BY DEF GraphTask, GraphSettled, G!Begin, G!Settled, G!Enter, G!Start, G!NoRoute, G!StillChanging,
         G!StageFailed, G!StageReached, G!StageWrong, G!Finish, G!Close, G!LogFault, G!Abort,
         G!Drop, G!ToSafe
<1> QED BY <1>1, <1>2 DEF RailInv, RailTypes, Turns, devVars, regVars

-----------------------------------------------------------------------------
(* The order of the stages holds with the drivers as devices.                *)
LEMMA OrderStays ==
  ASSUME GP!TypeOK, GP!StageOrder, UNCHANGED <<transition, stage>>,
         \A d \in Devs :
           \/ Value'[d] = Value[d] /\ (Status'[d] = "pending" => Status[d] = "pending")
           \/ GP!InFlight /\ GP!Current.dev = d
  PROVE  GP!StageOrder'
<1> SUFFICES ASSUME transition # GP!None, NEW j \in 1 .. stage - 1,
                    ~\E k \in j + 1 .. stage :
                       /\ k <= Len(Transitions[transition].stages)
                       /\ Transitions[transition].stages[k].dev = Transitions[transition].stages[j].dev
             PROVE  /\ Value'[Transitions[transition].stages[j].dev] = Transitions[transition].stages[j].state
                    /\ Status'[Transitions[transition].stages[j].dev] # "pending"
  BY DEF GP!StageOrder
<1>1. transition \in GP!TransitionIds /\ stage \in 1 .. Len(Transitions[transition].stages) + 1
      /\ Len(Transitions[transition].stages) \in Nat
  <2>1. transition \in GP!TransitionIds
    BY DEF GP!TypeOK, GP!TaskTypeOK
  <2>2. Len(Transitions[transition].stages) \in Nat \ {0}
    BY <2>1, GP!TransitionFacts, GraphAssumed, SearchAssumed, EntriesAssumed
  <2> QED BY <2>1, <2>2 DEF GP!TypeOK, GP!TaskTypeOK, GP!Stages
<1> DEFINE d == Transitions[transition].stages[j].dev
<1>2. d \in Devs
  <2>1. j \in 1 .. Len(Transitions[transition].stages)
    BY <1>1
  <2> QED BY <1>1, <2>1, GP!StageFacts, GraphAssumed, SearchAssumed, EntriesAssumed
<1>3. Value[d] = Transitions[transition].stages[j].state /\ Status[d] # "pending"
  BY DEF GP!StageOrder
<1>4. ~(GP!InFlight /\ GP!Current.dev = d)
  <2>1. SUFFICES ASSUME GP!InFlight, GP!Current.dev = d
                 PROVE  FALSE
    OBVIOUS
  <2>2. stage \in j + 1 .. stage /\ stage <= Len(Transitions[transition].stages)
    BY <1>1, <2>1 DEF GP!InFlight, GP!Stages
  <2> QED BY <2>1, <2>2 DEF GP!Current
<1> QED BY <1>2, <1>3, <1>4

LEMMA NextOrder ==
  ASSUME RailInv, GP!StageOrder, [Next]_vars
  PROVE  GP!StageOrder'
<1>1. CASE GraphTask \/ GraphSettled
  BY <1>1, TaskAlone, GP!TaskKeepsOrder, GraphAssumed, SearchAssumed, EntriesAssumed
  DEF RailInv, RailTypes
<1>2. CASE ~GraphTask /\ ~GraphSettled
  BY <1>2, OnlyCurrentMoves, OrderStays DEF RailInv, RailTypes
<1> QED BY <1>1, <1>2

(* A stage that was passed holds until the same device has another stage.    *)
LEMMA PassedStage ==
  ASSUME GP!TypeOK, GP!StageOrder, transition # GP!None, NEW j \in 1 .. stage - 1,
         \A i \in j + 1 .. stage : i <= Len(Transitions[transition].stages) =>
           Transitions[transition].stages[i].dev # Transitions[transition].stages[j].dev
  PROVE  /\ Value[Transitions[transition].stages[j].dev] = Transitions[transition].stages[j].state
         /\ Status[Transitions[transition].stages[j].dev] # "pending"
BY DEF GP!StageOrder

(* The caller of the regulator switches it as the stage says, and the task   *)
(* sets a device only when it is not where the stage says.                   *)
Asked ==
  /\ rpc[RP!Caller] = "enable" => (arg <=> GP!Current.state = 1)
  /\ pc = "set" /\ rpc[RP!Caller] = "idle" => Value[GP!Current.dev] # GP!Current.state

LEMMA NextAsked ==
  ASSUME RailInv, Asked, [Next]_vars
  PROVE  Asked'
<1>1. CASE GraphTask \/ GraphSettled
  <2>1. GP!Task /\ UNCHANGED <<Value, Status>> /\ pc # "set" /\ rpc'[RP!Caller] = "idle"
    BY <1>1, TaskAlone DEF devVars, regVars, cvars, Value, Status
  <2>2. pc' = "set" => GP!StageWrong
    BY <2>1
    DEF GP!Task, GP!Begin, GP!Settled, GP!Enter, GP!Start, GP!NoRoute, GP!StillChanging,
        GP!StageFailed, GP!StageReached, GP!SetDone, GP!SetStarted, GP!SetRefused, GP!Finish,
        GP!Close, GP!LogFault, GP!Abort, GP!Drop, GP!ToSafe
  <2>3. GP!StageWrong => Value[GP!Current.dev] # GP!Current.state /\ UNCHANGED GP!Current
    BY DEF GP!StageWrong, GP!taskVars, GP!Current
  <2> QED BY <2>1, <2>2, <2>3 DEF Asked
<1>2. CASE ~GraphTask /\ ~GraphSettled
  <2>1. UNCHANGED GP!Current
    BY <1>2, OnlyCurrentMoves DEF GP!Current
  <2>2. CASE CallRegulator
    <3>1. RP!SetCheck(GP!Current.state = 1) /\ UNCHANGED pc
      BY <2>2, RegulatorSame, CallsSame DEF CallRegulator, graphVars
    <3>2. rpc'[RP!Caller] = "enable" /\ arg' = (GP!Current.state = 1)
      BY <3>1 DEF RP!SetCheck, RP!Goto, RailInv, RailTypes, DeviceTypes, RP!RTypeOK, RP!Actors
    <3> QED BY <2>1, <3>2 DEF Asked
  <2>3. CASE RegulatorCall
    <3>1. RP!InCall /\ (rpc'[RP!Caller] = "idle" => pc' = "stage")
      BY <2>3, RegulatorSame DEF RegulatorCall
    <3>2. rpc'[RP!Caller] # "enable"
      BY <3>1
      DEF RP!InCall, RP!SetEnabled, RP!SetMute, RP!SetSwitched, RP!SwitchDone, RP!AfterSwitch,
          RP!SetFailed, RP!SwitchFailed, RP!SetDeferred, RP!SetSubmit, RP!SetUnscheduled, RP!Finalize,
          RP!StartDelay, RP!BusyWait, RP!Schedule, RP!ScheduleFailed, RP!Test, RP!Arm,
          RP!Notify, RP!Goto, RP!Caller, RailInv, RailTypes, DeviceTypes, RP!RTypeOK, RP!Actors
    <3> QED BY <3>1, <3>2 DEF Asked
  <2>4. CASE SetConfigurator \/ SetSwitch
    <3>1. pc' = "stage" /\ UNCHANGED regVars
      BY <2>4 DEF SetConfigurator, SetSwitch
    <3> QED BY <2>1, <3>1 DEF Asked, regVars
  <2>5. CASE RegulatorWork
    <3>1. RP!Work /\ pc' = "idle" /\ UNCHANGED arg
      BY <2>5, RegulatorSame
      DEF RegulatorWork, RP!Work, RP!WorkStart, RP!WorkSwitched, RP!WorkFailed, RP!WorkDelayed,
          RP!Finalize, RP!StartDelay, RP!BusyWait, RP!Schedule, RP!ScheduleFailed, RP!Test,
          RP!Arm, RP!Notify
    <3>2. pc = "idle" /\ rpc[RP!Caller] = "idle"
      BY <2>5 DEF RegulatorWork, RailInv, RailTypes, Turns
    <3>3. rpc'[RP!Caller] = "idle"
      <4>1. RailTypes'
        BY NextTypes DEF RailInv
      <4> QED BY <3>1, <4>1 DEF RailTypes, Turns
    <3> QED BY <3>1, <3>3 DEF Asked
  <2>6. CASE ConfiguratorWork
    <3>1. pc' = "idle" /\ UNCHANGED regVars
      BY <2>6 DEF ConfiguratorWork, QueueFree
    <3> QED BY <2>1, <3>1 DEF Asked, regVars
  <2>7. ASSUME NEW p \in Pins, PinEdge(p)
        PROVE  UNCHANGED <<pc, rpc, arg, Value>>
    <3>1. UNCHANGED <<pc, target, rpc, arg>>
      BY <2>7, RegulatorSame DEF PinEdge, RP!PinFollows, RP!PinGlitches, RP!Edge
    <3> QED BY <2>7, <3>1, EnabledChanges, ConfiguratorAlone DEF Value, cvars
  <2>8. ASSUME NEW c \in Commands, CmdSame(c) \/ CmdSet(c) \/ CmdStep(c)
        PROVE  UNCHANGED <<pc, rpc, arg, Value>>
    <3>1. UNCHANGED devVars
      BY <2>8, Undriven
    <3>2. CASE CmdSet(c)
      <4>1. GP!Client(c)
        BY <3>2, CallsSame DEF CmdSet, GP!Client
      <4> QED BY <3>1, <4>1
        DEF GP!Client, GP!SetCheck, GP!SetCommit, GP!SetSubmit, devVars, regVars, cvars, Value
    <3>3. CASE ~CmdSet(c)
      BY <2>8, <3>1, <3>3
      DEF CmdSame, CmdStep, CmdGet, CmdSubscribe, CmdTake, CmdUnsubscribe, graphVars, devVars,
          regVars, cvars, Value
    <3> QED BY <3>2, <3>3
  <2>9. CASE UNCHANGED vars
    BY <2>1, <2>9 DEF Asked, vars, graphVars, devVars, regVars, cvars, Value
  <2>10. CASE UNCHANGED <<pc, rpc, arg, Value>>
    BY <2>1, <2>10 DEF Asked
  <2> QED BY <1>2, <2>2, <2>3, <2>4, <2>5, <2>6, <2>7, <2>8, <2>9, <2>10 DEF Next, QueueStep
<1> QED BY <1>1, <1>2

-----------------------------------------------------------------------------
(* Nothing is on without power: the chip and the bus are at off whenever the *)
(* regulator is, and the work item of the chip waits only behind power.      *)
Powered ==
  /\ ~enabled => cstate = 0 /\ target = 0
  /\ cwork => enabled

LEMMA StandsBehind ==
  ASSUME GP!TypeOK, GP!StageOrder, GP!InFlight, NEW d, NEW v, GP!Current.dev # d,
         NEW j \in 1 .. stage - 1,
         Transitions[transition].stages[j].dev = d, Transitions[transition].stages[j].state = v,
         \A i \in j + 1 .. stage - 1 : Transitions[transition].stages[i].dev # d
  PROVE  Value[d] = v /\ Status[d] # "pending"
<1>1. transition # GP!None /\ stage \in Nat
  <2>1. transition \in GP!TransitionIds
    BY DEF GP!InFlight, GP!TypeOK, GP!TaskTypeOK
  <2>2. Len(Transitions[transition].stages) \in Nat
    BY <2>1, GP!TransitionFacts, GraphAssumed, SearchAssumed, EntriesAssumed
  <2> QED BY <2>1, <2>2 DEF GP!InFlight, GP!Stages
<1>2. \A i \in j + 1 .. stage : Transitions[transition].stages[i].dev # d
  BY <1>1 DEF GP!Current
<1> QED BY <1>1, <1>2, PassedStage

(* What the order of the stages gives for the device about to be set.        *)
LEMMA PowerBehind ==
  ASSUME StagesPowered, GP!TypeOK, GP!StageOrder, GP!InFlight
  PROVE  /\ GP!Current.dev = Reg /\ GP!Current.state = 0 =>
              cstate = 0 /\ target = 0 /\ Status[Cfg] # "pending"
         /\ GP!Current.dev # Reg /\ GP!Current.state = 1 => enabled
<1> DEFINE s == Transitions[transition].stages
           Behind(d, v) == \E j \in 1 .. stage - 1 :
             s[j].dev = d /\ s[j].state = v /\ \A i \in j + 1 .. stage - 1 : s[i].dev # d
<1>1. transition \in G!TransitionIds /\ stage \in G!Stages(transition) /\ GP!Current = s[stage]
  BY GraphTables DEF GP!InFlight, GP!TypeOK, GP!TaskTypeOK, GP!Current
<1>2. IF s[stage].dev = Reg THEN s[stage].state = 0 => Behind(Cfg, 0) /\ Behind(Switch, 0)
                            ELSE s[stage].state = 1 => Behind(Reg, 1)
  BY <1>1 DEF StagesPowered
<1>3. ASSUME NEW d \in Devs, NEW v, Behind(d, v), GP!Current.dev # d
      PROVE  Value[d] = v /\ Status[d] # "pending"
  BY <1>3, StandsBehind
<1> HIDE DEF Behind
<1>4. ASSUME GP!Current.dev = Reg, GP!Current.state = 0
      PROVE  cstate = 0 /\ target = 0 /\ Status[Cfg] # "pending"
  <2>1. Behind(Cfg, 0) /\ Behind(Switch, 0)
    BY <1>1, <1>2, <1>4
  <2>2. Value[Cfg] = 0 /\ Value[Switch] = 0 /\ Status[Cfg] # "pending"
    BY <1>3, <1>4, <2>1 DEF Devs, Reg, Cfg, Switch
  <2> QED BY <2>2 DEF Value, Devs, Reg, Cfg, Switch
<1>5. ASSUME GP!Current.dev # Reg, GP!Current.state = 1
      PROVE  enabled
  <2>1. Behind(Reg, 1)
    BY <1>1, <1>2, <1>5
  <2>2. Value[Reg] = 1
    BY <1>3, <1>5, <2>1 DEF Devs
  <2> QED BY <2>2 DEF Value, Devs, Reg, Cfg, Switch
<1> QED BY <1>4, <1>5

(* A scheduled work item of the chip makes it the device of the stage.       *)
LEMMA ChipOwned ==
  ASSUME RailInv, Configured, cwork
  PROVE  Status[Cfg] = "pending" /\ GP!InFlight /\ GP!Current.dev = Cfg
<1>1. Status[Cfg] = "pending"
  BY DEF Configured, Status, Answer, Devs, Reg, Cfg, Switch
<1> QED BY <1>1 DEF RailInv, Pending, GP!OnePending, Devs

LEMMA NextPowered ==
  ASSUME StagesPowered, RailInv, GP!StageOrder, Configured, Asked, Powered, [Next]_vars
  PROVE  Powered'
<1>1. CASE UNCHANGED <<enabled, cstate, target, cwork>>
  BY <1>1 DEF Powered
<1>2. CASE RegulatorCall
  <2>1. UNCHANGED <<cvars, target>> /\ pc = "set" /\ G!Current.dev = Reg
    BY <1>2 DEF RegulatorCall, Setting
  <2>2. CASE UNCHANGED enabled
    BY <2>1, <2>2 DEF Powered, cvars
  <2>3. CASE RP!SetEnabled
    <3>1. enabled' = (GP!Current.state = 1)
      BY <2>3 DEF RP!SetEnabled, RP!At, Asked, RP!Caller, RailInv, RailTypes, DeviceTypes, RP!RTypeOK
    <3>2. GP!InFlight /\ GP!Current.dev = Reg /\ GP!Current.state \in OnOff
      BY <2>1, CurrentIs, CallsSame DEF RailInv, RailTypes
    <3>3. CASE GP!Current.state = 1
      BY <2>1, <3>1, <3>3 DEF Powered
    <3>4. CASE GP!Current.state = 0
      <4>1. cstate = 0 /\ target = 0 /\ Status[Cfg] # "pending"
        BY <3>2, <3>4, PowerBehind DEF RailInv, RailTypes
      <4>2. ~cwork
        BY <4>1, ChipOwned
      <4> QED BY <2>1, <4>1, <4>2 DEF Powered, cvars
    <3> QED BY <3>2, <3>3, <3>4 DEF OnOff
  <2> QED BY <1>2, <2>2, <2>3, EnabledChanges
<1>3. CASE SetConfigurator \/ SetSwitch
  <2>1. pc = "set" /\ GP!Current.dev # Reg /\ UNCHANGED enabled
    BY <1>3, CallsSame DEF SetConfigurator, SetSwitch, Setting, Reg, Cfg, Switch, regVars
  <2>2. GP!InFlight /\ GP!Current.state \in OnOff
    BY <2>1, CurrentIs DEF RailInv, RailTypes
  <2>3. GP!Current.state = 1 => enabled
    BY <2>1, <2>2, PowerBehind DEF RailInv, RailTypes
  <2>4. CASE SetConfigurator
    <3>1. cstate' = GP!Current.state /\ UNCHANGED target /\ GP!Current.dev = Cfg
      BY <2>4, CallsSame DEF SetConfigurator, CwSet, Setting
    <3>2. rpc[RP!Caller] = "idle"
      BY <3>1 DEF RailInv, RailTypes, Turns, Cfg, Reg
    <3>3. cstate # GP!Current.state
      BY <2>1, <3>1, <3>2 DEF Asked, Value, Devs, Reg, Cfg, Switch
    <3>4. enabled
      BY <2>2, <2>3, <3>3 DEF Powered, OnOff, RailInv, RailTypes, DeviceTypes
    <3> QED BY <2>1, <3>4 DEF Powered
  <2>5. CASE SetSwitch
    <3>1. target' = GP!Current.state /\ UNCHANGED cvars
      BY <2>5, CallsSame DEF SetSwitch
    <3> QED BY <2>1, <2>2, <2>3, <3>1 DEF Powered, OnOff, cvars
  <2> QED BY <1>3, <2>4, <2>5
<1>4. CASE ConfiguratorWork
  BY <1>4 DEF ConfiguratorWork, CwWork, Powered, regVars
<1>5. CASE GraphTask \/ GraphSettled \/ CallRegulator \/ RegulatorWork
  BY <1>1, <1>5, EnabledChanges, ConfiguratorAlone
  DEF GraphTask, GraphSettled, CallRegulator, RegulatorWork, devVars, regVars, cvars
<1>6. ASSUME NEW p \in Pins, PinEdge(p)
      PROVE  Powered'
  BY <1>1, <1>6, EnabledChanges DEF PinEdge, cvars
<1>7. ASSUME NEW c \in Commands, CmdSame(c) \/ CmdSet(c) \/ CmdStep(c)
      PROVE  Powered'
  BY <1>1, <1>7, Undriven DEF devVars, regVars, cvars
<1>8. CASE UNCHANGED vars
  BY <1>1, <1>8 DEF vars, devVars, regVars, cvars
<1> QED BY <1>2, <1>3, <1>4, <1>5, <1>6, <1>7, <1>8 DEF Next, QueueStep

(* A regulator that is on and not under way has its outputs on.              *)
LEMMA OutputsOn ==
  ASSUME RailInv, enabled, Status[Reg] # "pending", rpc[RP!Caller] = "idle"
  PROVE  out \/ badset
<1>1. dstate \in {"idle", "failed"}
  BY DEF RailInv, RailTypes, DeviceTypes, RP!RTypeOK, RP!DriverStates, Status, Answer, Devs, Reg
<1> QED BY <1>1
  DEF RailInv, DriverInv, RP!TurnsInv, RP!OutputInv, RailTypes, DeviceTypes, RP!RTypeOK

LEMMA StepPowered ==
  ASSUME StagesPowered, RailInv, GP!StageOrder, Configured, Powered, [Next]_vars,
         (chip' # chip /\ chip' # << >>) \/ (target = 0 /\ target' = 1)
  PROVE  out \/ badset
<1>1. SetConfigurator \/ ConfiguratorWork \/ SetSwitch
  <2>1. UNCHANGED vars => UNCHANGED <<chip, target>>
    BY DEF vars, devVars, cvars
  <2>2. GraphTask \/ GraphSettled \/ CallRegulator \/ RegulatorCall \/ RegulatorWork
          => UNCHANGED <<chip, target>>
    BY ConfiguratorAlone
    DEF GraphTask, GraphSettled, CallRegulator, RegulatorCall, RegulatorWork, devVars, cvars
  <2>3. \A p \in Pins : PinEdge(p) => UNCHANGED <<chip, target>>
    BY DEF PinEdge, cvars
  <2>4. \A c \in Commands : CmdSame(c) \/ CmdSet(c) \/ CmdStep(c) => UNCHANGED <<chip, target>>
    BY Undriven DEF devVars, cvars
  <2> QED BY <2>1, <2>2, <2>3, <2>4 DEF Next, QueueStep
<1>2. ~SetConfigurator
  BY DEF SetConfigurator, CwSet
<1>3. CASE ConfiguratorWork
  <2>1. cwork /\ UNCHANGED target
    BY <1>3 DEF ConfiguratorWork, CwWork
  <2>2. enabled /\ GP!InFlight /\ GP!Current.dev = Cfg
    BY <2>1, ChipOwned DEF Powered
  <2>3. Status[Reg] # "pending" /\ rpc[RP!Caller] = "idle"
    BY <2>2 DEF RailInv, RailTypes, Turns, Pending, GP!OnePending, Devs, Reg, Cfg
  <2> QED BY <2>2, <2>3, OutputsOn
<1>4. CASE SetSwitch
  <2>1. pc = "set" /\ GP!Current.dev = Switch /\ target' = GP!Current.state /\ UNCHANGED chip
    BY <1>4, CallsSame DEF SetSwitch, Setting, cvars
  <2>2. GP!InFlight
    BY <2>1, CurrentIs DEF RailInv, RailTypes
  <2>3. enabled
    BY <2>1, <2>2, PowerBehind DEF RailInv, RailTypes, Reg, Switch
  <2>4. Status[Reg] # "pending" /\ rpc[RP!Caller] = "idle"
    BY <2>1 DEF RailInv, RailTypes, Turns, Pending, GP!OnePending, Devs, Reg, Switch
  <2> QED BY <2>3, <2>4, OutputsOn
<1> QED BY <1>1, <1>2, <1>3, <1>4

-----------------------------------------------------------------------------
(* Where the devices are.  At the end of a transition they are as its target *)
(* declares, and without a transition as the state does; but for the way     *)
(* from a fault to a request for the safe state, which the task does not     *)
(* interrupt.                                                                *)
Adrift ==
  /\ pc \in {"safe", "check", "search"} /\ state # SafeState
  /\ pc = "safe" \/ newState = SafeState

Arrived ==
  /\ pc \in {"fault", "abort", "drop"} => Transitions[transition].target # SafeState
  /\ pc \in {"close", "drop"} => state = Transitions[transition].target
  /\ pc = "close" => Value = Expected[state]
  /\ transition = GP!None => Value = Expected[state] \/ Adrift

LEMMA AllPassed ==
  ASSUME StagesComplete, GP!TypeOK, GP!StageOrder, pc = "finish"
  PROVE  Value = Expected[Transitions[transition].target]
<1> DEFINE s == Transitions[transition].stages
           aim == Expected[Transitions[transition].target]
<1>1. /\ transition \in GP!TransitionIds /\ transition # GP!None
      /\ stage = Len(s) + 1 /\ Len(s) \in Nat
      /\ Transitions[transition].target \in States
  <2>1. transition \in GP!TransitionIds /\ transition # GP!None /\ stage = Len(s) + 1
    BY DEF GP!TypeOK, GP!TaskTypeOK
  <2> QED BY <2>1, GP!TransitionFacts, GraphAssumed, SearchAssumed, EntriesAssumed
<1>2. ASSUME NEW d \in Devs
      PROVE  Value[d] = aim[d]
  <2>1. PICK k \in GP!Stages(transition) :
               /\ s[k].dev = d /\ s[k].state = aim[d]
               /\ \A i \in k + 1 .. Len(s) : s[i].dev # d
    BY <1>1, GraphTables DEF StagesComplete
  <2>2. k \in 1 .. stage - 1
    BY <1>1, <2>1 DEF GP!Stages
  <2>3. \A i \in k + 1 .. stage : i <= Len(s) => s[i].dev # s[k].dev
    BY <1>1, <2>1, <2>2
  <2> QED BY <1>1, <2>1, <2>2, <2>3, PassedStage
<1>3. Value = [d \in Devs |-> Value[d]] /\ aim = [d \in Devs |-> aim[d]]
  <2>1. aim \in [Devs -> OnOff]
    BY <1>1 DEF StagesComplete
  <2> QED BY <2>1 DEF Value
<1> HIDE DEF aim
<1>4. Value = aim
  BY <1>2, <1>3
<1> QED BY <1>4 DEF aim

LEMMA TaskArrives ==
  ASSUME StagesComplete, RailInv, GP!StageOrder, Arrived, GraphTask \/ GraphSettled
  PROVE  Arrived'
<1>1. GP!Task /\ UNCHANGED Value /\ pc # "set" /\ GP!TaskTypeOK
  BY TaskAlone DEF devVars, regVars, cvars, Value, RailInv, RailTypes, GP!TypeOK
<1> USE DEF Arrived, Adrift, GP!TaskTypeOK, GP!taskVars
<1>2. CASE GP!Begin \/ GP!Settled \/ GP!Enter
  BY <1>1, <1>2 DEF GP!Begin, GP!Settled, GP!Enter
<1>3. CASE GP!Start \/ GP!NoRoute
  BY <1>1, <1>3 DEF GP!Start, GP!NoRoute
<1>4. CASE GP!StillChanging \/ GP!StageReached \/ GP!StageWrong
  BY <1>1, <1>4 DEF GP!StillChanging, GP!StageReached, GP!StageWrong
<1>5. CASE GP!StageFailed
  <2>1. ~Transitions[transition].ignore
    BY <1>5 DEF GP!StageFailed
  <2>2. transition \in G!TransitionIds /\ transition # GP!None
    BY <1>1, <1>5, GraphTables DEF GP!StageFailed
  <2>3. Transitions[transition].target # SafeState
    BY <2>1, <2>2 DEF StagesComplete
  <2> QED BY <1>1, <1>5, <2>2, <2>3 DEF GP!StageFailed
<1>6. CASE GP!Finish
  <2>1. Value = Expected[Transitions[transition].target]
    BY <1>6, AllPassed DEF GP!Finish, RailInv, RailTypes
  <2> QED BY <1>1, <1>6, <2>1 DEF GP!Finish
<1>7. CASE GP!Close
  BY <1>1, <1>7 DEF GP!Close
<1>8. CASE GP!LogFault \/ GP!Abort \/ GP!Drop \/ GP!ToSafe
  BY <1>1, <1>8 DEF GP!LogFault, GP!Abort, GP!Drop, GP!ToSafe
<1> QED
  BY <1>1, <1>2, <1>3, <1>4, <1>5, <1>6, <1>7, <1>8 DEF GP!Task, GP!SetDone, GP!SetStarted, GP!SetRefused

(* A step beside the task may ask for the safe state, and for any other only *)
(* while the task does not run; it moves a device only in a transition.      *)
LEMMA ArrivedStays ==
  ASSUME RailTypes, Arrived, UNCHANGED <<state, transition>>,
         \/ /\ UNCHANGED <<pc, Value>>
            /\ newState' \in {newState, SafeState} \/ pc = "idle"
         \/ pc = "set" /\ pc' \in {"set", "stage"}
  PROVE  Arrived'
BY DEF RailTypes, GP!TypeOK, GP!TaskTypeOK, Arrived, Adrift

LEMMA NextArrived ==
  ASSUME StagesComplete, RailInv, GP!StageOrder, Arrived, [Next]_vars
  PROVE  Arrived'
<1>1. \A called, d : Told(called, d) => newState' \in {newState, SafeState}
  BY DEF Told, G!Callback
<1>2. CASE GraphTask \/ GraphSettled
  BY <1>2, TaskArrives
<1>3. CASE CallRegulator \/ RegulatorCall \/ SetConfigurator \/ SetSwitch
  <2>1. pc = "set" /\ pc' \in {"set", "stage"} /\ UNCHANGED <<state, transition>>
    BY <1>3
    DEF CallRegulator, RegulatorCall, SetConfigurator, SetSwitch, Setting, graphVars
  <2> QED BY <2>1, ArrivedStays DEF RailInv
<1>4. CASE RegulatorWork \/ ConfiguratorWork
  <2>1. UNCHANGED <<pc, state, transition, enabled, target, cstate>> /\ pc = "idle"
    BY <1>4, EnabledChanges
    DEF RegulatorWork, ConfiguratorWork, CwWork, QueueFree, regVars, cvars
  <2> QED BY <2>1, ArrivedStays DEF RailInv, Value
<1>5. ASSUME NEW p \in Pins, PinEdge(p)
      PROVE  Arrived'
  <2>1. UNCHANGED <<pc, state, transition, enabled, target, cstate>>
    BY <1>5, EnabledChanges DEF PinEdge, cvars
  <2>2. newState' \in {newState, SafeState}
    BY <1>1, <1>5 DEF PinEdge
  <2> QED BY <2>1, <2>2, ArrivedStays DEF RailInv, Value
<1>6. ASSUME NEW c \in Commands, CmdSame(c) \/ CmdSet(c) \/ CmdStep(c)
      PROVE  Arrived'
  <2>1. UNCHANGED devVars
    BY <1>6, Undriven
  <2>2. UNCHANGED <<state, transition, pc>> /\ (newState' = newState \/ pc = "idle")
    <3>1. CASE CmdSet(c)
      <4>1. GP!Client(c) /\ pc = "idle"
        BY <3>1, CallsSame DEF CmdSet, GP!Client, At, G!MayRun
      <4> QED BY <4>1 DEF GP!Client, GP!SetCheck, GP!SetCommit, GP!SetSubmit, GP!taskVars
    <3>2. CASE ~CmdSet(c)
      BY <1>6, <3>2
      DEF CmdSame, CmdStep, CmdGet, CmdSubscribe, CmdTake, CmdUnsubscribe, graphVars
    <3> QED BY <3>1, <3>2
  <2> QED BY <2>1, <2>2, ArrivedStays DEF RailInv, devVars, regVars, cvars, Value
<1>7. CASE UNCHANGED vars
  BY <1>7, ArrivedStays DEF vars, graphVars, devVars, regVars, cvars, Value, RailInv
<1> QED BY <1>2, <1>3, <1>4, <1>5, <1>6, <1>7 DEF Next, QueueStep

-----------------------------------------------------------------------------
(* What the configurator sends is what was declared: the loop of cw_exec     *)
(* finds, in the bytes of a node, its operations and then op_done.           *)
LEMMA NatSteps ==
  ASSUME NEW S, 0 \in S, \A n \in Nat : n \in S => n + 1 \in S
  PROVE  Nat \subseteq S
<1> DEFINE T == {n \in Nat : n \notin S}
<1> SUFFICES ASSUME T # {}
             PROVE  FALSE
  OBVIOUS
<1>1. IsWellFoundedOn(OpToRel(<, Nat), Nat)
  BY NatLessThanWellFounded, Zenon
<1>2. T \subseteq Nat
  OBVIOUS
<1> HIDE DEF T
<1>3. PICK m \in T : \A k \in T : ~(<<k, m>> \in OpToRel(<, Nat))
  BY <1>1, <1>2, WFMin, Zenon
<1>4. \A k \in T : ~(k < m)
  <2>1. \A k \in T : k < m => <<k, m>> \in OpToRel(<, Nat)
    BY <1>2, Zenon DEF OpToRel
  <2> QED BY <1>3, <2>1, Zenon
<1> HIDE <1>3
<1>5. m \in Nat /\ m \notin S
  BY DEF T
<1>6. m # 0 /\ m - 1 \in Nat /\ m - 1 < m
  BY <1>5
<1>7. m - 1 \notin T
  BY <1>4, <1>6
<1> QED BY <1>5, <1>6, <1>7 DEF T

LEMMA FlattenDefined ==
  ASSUME NEW seqs, Len(seqs) \in Nat \ {0}
  PROVE  \E f : /\ FlattenSeq(seqs) = f[Len(seqs)]
                /\ \A i \in 1 .. Len(seqs) :
                     f[i] = IF i = 1 THEN seqs[i] ELSE f[i - 1] \o seqs[i]
<1> DEFINE Next0(f, i) == IF i = 1 THEN seqs[i] ELSE f[i - 1] \o seqs[i]
           Ends(f, k) == f = [i \in 1 .. k |-> Next0(f, i)]
           Far == {k \in Nat : \E f : Ends(f, k)}
           flatten == CHOOSE f : Ends(f, Len(seqs))
<1>1. 0 \in Far
  <2>1. Ends([i \in 1 .. 0 |-> << >>], 0)
    OBVIOUS
  <2> HIDE DEF Ends
  <2> QED BY <2>1
<1>2. ASSUME NEW k \in Nat, k \in Far
      PROVE  k + 1 \in Far
  <2>1. PICK f : Ends(f, k)
    <3> HIDE DEF Ends
    <3> QED BY <1>2
  <2> DEFINE g == [i \in 1 .. k + 1 |-> IF i = k + 1 THEN Next0(f, i) ELSE f[i]]
  <2>2. ASSUME NEW i \in 1 .. k + 1
        PROVE  g[i] = Next0(g, i)
    <3>1. Next0(g, i) = Next0(f, i)
      OBVIOUS
    <3>2. i # k + 1 => f[i] = Next0(f, i)
      <4>1. i # k + 1 => i \in 1 .. k
        OBVIOUS
      <4> QED BY <2>1, <4>1
    <3> QED BY <3>1, <3>2
  <2>3. Ends(g, k + 1)
    BY <2>2
  <2> HIDE DEF Ends
  <2> QED BY <2>3
<1>3. Len(seqs) \in Far
  <2> HIDE DEF Far
  <2> QED BY <1>1, <1>2, NatSteps
<1>4. Ends(flatten, Len(seqs))
  <2> HIDE DEF Ends
  <2> QED BY <1>3
<1>5. FlattenSeq(seqs) = flatten[Len(seqs)]
  BY DEF FlattenSeq
<1> HIDE DEF flatten
<1>6. \A i \in 1 .. Len(seqs) : flatten[i] = Next0(flatten, i)
  BY <1>4
<1> QED BY <1>5, <1>6

LEMMA PositionDefined ==
  ASSUME NEW ops, Len(ops) \in Nat
  PROVE  \A n \in 0 .. Len(ops) :
           Position(ops)[n] =
             IF n = 0 THEN 1 ELSE Position(ops)[n - 1] + 1 + OpSize(ops[Position(ops)[n - 1]])
<1> DEFINE Next0(f, n) == IF n = 0 THEN 1 ELSE f[n - 1] + 1 + OpSize(ops[f[n - 1]])
           Ends(f, k) == f = [n \in 0 .. k |-> Next0(f, n)]
           Far == {k \in Nat : \E f : Ends(f, k)}
           at == CHOOSE f : Ends(f, Len(ops))
<1>1. 0 \in Far
  <2>1. Ends([n \in 0 .. 0 |-> 1], 0)
    OBVIOUS
  <2> HIDE DEF Ends
  <2> QED BY <2>1
<1>2. ASSUME NEW k \in Nat, k \in Far
      PROVE  k + 1 \in Far
  <2>1. PICK f : Ends(f, k)
    <3> HIDE DEF Ends
    <3> QED BY <1>2
  <2> DEFINE g == [n \in 0 .. k + 1 |-> IF n = k + 1 THEN Next0(f, n) ELSE f[n]]
  <2>2. ASSUME NEW n \in 0 .. k + 1
        PROVE  g[n] = Next0(g, n)
    <3>1. Next0(g, n) = Next0(f, n)
      OBVIOUS
    <3>2. n # k + 1 => f[n] = Next0(f, n)
      <4>1. n # k + 1 => n \in 0 .. k
        OBVIOUS
      <4> QED BY <2>1, <4>1
    <3> QED BY <3>1, <3>2
  <2>3. Ends(g, k + 1)
    BY <2>2
  <2> HIDE DEF Ends
  <2> QED BY <2>3
<1>3. Len(ops) \in Far
  <2> HIDE DEF Far
  <2> QED BY <1>1, <1>2, NatSteps
<1>4. Ends(at, Len(ops))
  <2> HIDE DEF Ends
  <2> QED BY <1>3
<1>5. Position(ops) = at
  BY DEF Position
<1> HIDE DEF at
<1>6. \A n \in 0 .. Len(ops) : at[n] = Next0(at, n)
  BY <1>4
<1> QED BY <1>5, <1>6

LEMMA Rising ==
  ASSUME NEW N \in Nat, NEW at \in [0 .. N -> Nat], \A i \in 1 .. N : at[i - 1] <= at[i],
         NEW i \in 0 .. N, NEW k \in 0 .. N, i <= k
  PROVE  at[i] <= at[k]
<1> DEFINE T == {m \in Nat : m <= N /\ i <= m => at[i] <= at[m]}
<1>1. 0 \in T
  OBVIOUS
<1>2. ASSUME NEW m \in Nat, m \in T
      PROVE  m + 1 \in T
  <2> SUFFICES ASSUME m + 1 <= N, i <= m + 1
               PROVE  at[i] <= at[m + 1]
    OBVIOUS
  <2>1. m + 1 \in 1 .. N /\ (m + 1) - 1 = m /\ m \in 0 .. N
    OBVIOUS
  <2>2. at[m] <= at[m + 1] /\ at[m] \in Nat /\ at[m + 1] \in Nat /\ at[i] \in Nat
    BY <2>1
  <2>3. CASE i = m + 1
    BY <2>2, <2>3
  <2>4. CASE i # m + 1
    <3>1. at[i] <= at[m]
      BY <1>2, <2>4
    <3> QED BY <2>2, <3>1
  <2> QED BY <2>3, <2>4
<1>3. Nat \subseteq T
  <2> HIDE DEF T
  <2> QED BY <1>1, <1>2, NatSteps
<1> QED BY <1>3

(* Sequences one after the other: where each begins, and what stands there.  *)
Begin(N, seqs, at) ==
  /\ at[0] = 0 /\ at[N] = Len(FlattenSeq(seqs))
  /\ \A i \in 1 .. N :
       /\ at[i] = at[i - 1] + Len(seqs[i])
       /\ \A j \in 1 .. Len(seqs[i]) : FlattenSeq(seqs)[at[i - 1] + j] = seqs[i][j]

LEMMA Concatenated ==
  ASSUME NEW S, NEW N \in Nat, NEW seqs \in [1 .. N -> Seq(S)]
  PROVE  /\ FlattenSeq(seqs) \in Seq(S)
         /\ \E at \in [0 .. N -> Nat] : Begin(N, seqs, at)
<1>1. Len(seqs) = N
  OBVIOUS
<1>2. PICK f : /\ f[0] = << >> /\ FlattenSeq(seqs) = f[N]
               /\ \A i \in 1 .. N : f[i] = f[i - 1] \o seqs[i]
  <2>1. CASE N = 0
    <3>1. seqs \in Seq(Seq(S)) /\ seqs = << >>
      BY <1>1, <2>1
    <3>2. FlattenSeq(seqs) = << >>
      BY <1>1, <2>1, <3>1 DEF FlattenSeq
    <3> DEFINE f == [i \in 0 .. 0 |-> << >>]
    <3>3. f[0] = << >> /\ FlattenSeq(seqs) = f[N] /\ 1 .. N = {}
      BY <2>1, <3>2
    <3> HIDE DEF f
    <3> QED BY <3>3
  <2>2. CASE N # 0
    <3>1. PICK g : /\ FlattenSeq(seqs) = g[N]
                   /\ \A i \in 1 .. N : g[i] = IF i = 1 THEN seqs[i] ELSE g[i - 1] \o seqs[i]
      BY <1>1, <2>2, FlattenDefined
    <3> DEFINE f == [i \in 0 .. N |-> IF i = 0 THEN << >> ELSE g[i]]
    <3>2. ASSUME NEW i \in 1 .. N
          PROVE  f[i] = f[i - 1] \o seqs[i]
      <4>1. seqs[i] \in Seq(S)
        OBVIOUS
      <4>2. << >> \o seqs[i] = seqs[i]
        BY <4>1
      <4>3. CASE i = 1
        BY <3>1, <4>2, <4>3
      <4>4. CASE i # 1
        <5>1. g[i] = g[i - 1] \o seqs[i]
          BY <3>1, <4>4
        <5>2. f[i] = g[i] /\ f[i - 1] = g[i - 1]
          BY <4>4
        <5> QED BY <5>1, <5>2
      <4> QED BY <4>3, <4>4
    <3>3. f[0] = << >> /\ f[N] = g[N]
      BY <2>2
    <3> HIDE DEF f
    <3> QED BY <3>1, <3>2, <3>3
  <2> QED BY <2>1, <2>2
<1>a. \A k \in Nat : k + 1 <= N => seqs[k + 1] \in Seq(S) /\ f[k + 1] = f[k] \o seqs[k + 1]
  <2> TAKE k \in Nat
  <2> HAVE k + 1 <= N
  <2>1. k + 1 \in 1 .. N /\ (k + 1) - 1 = k
    OBVIOUS
  <2>2. f[k + 1] = f[(k + 1) - 1] \o seqs[k + 1]
    BY <1>2, <2>1
  <2> QED BY <2>1, <2>2
<1> DEFINE Good(k) == k <= N => f[k] \in Seq(S)
<1>3. \A k \in 0 .. N : f[k] \in Seq(S)
  <2>1. Good(0)
    BY <1>2
  <2>2. ASSUME NEW k \in Nat, Good(k)
        PROVE  Good(k + 1)
    <3> SUFFICES ASSUME k + 1 <= N
                 PROVE  f[k + 1] \in Seq(S)
      OBVIOUS
    <3>1. f[k] \in Seq(S)
      BY <2>2
    <3>2. seqs[k + 1] \in Seq(S) /\ f[k + 1] = f[k] \o seqs[k + 1]
      BY <1>a
    <3> QED BY <3>1, <3>2, Joined
  <2> HIDE DEF Good
  <2> DEFINE T == {k \in Nat : Good(k)}
  <2>3. Nat \subseteq T
    <3>1. 0 \in T /\ \A k \in Nat : k \in T => k + 1 \in T
      BY <2>1, <2>2
    <3> HIDE DEF T
    <3> QED BY <3>1, NatSteps
  <2> QED BY <2>3 DEF Good
<1> DEFINE at == [k \in 0 .. N |-> Len(f[k])]
<1>4. /\ at \in [0 .. N -> Nat] /\ at[0] = 0 /\ at[N] = Len(f[N])
      /\ \A k \in 0 .. N : at[k] = Len(f[k])
  BY <1>2, <1>3
<1> HIDE DEF at
<1>5. \A k \in Nat : k + 1 <= N => at[k + 1] = at[k] + Len(seqs[k + 1]) /\ Len(seqs[k + 1]) \in Nat
  <2> TAKE k \in Nat
  <2> HAVE k + 1 <= N
  <2>1. f[k] \in Seq(S) /\ at[k] = Len(f[k]) /\ at[k + 1] = Len(f[k + 1])
    BY <1>3, <1>4
  <2>2. seqs[k + 1] \in Seq(S) /\ f[k + 1] = f[k] \o seqs[k + 1]
    BY <1>a
  <2> QED BY <2>1, <2>2, Joined
<1>6. \A i \in 1 .. N : /\ at[i] = at[i - 1] + Len(seqs[i]) /\ Len(seqs[i]) \in Nat
                        /\ at[i - 1] \in Nat /\ at[i] \in Nat /\ at[i - 1] <= at[i]
  <2> TAKE i \in 1 .. N
  <2>1. i - 1 \in Nat /\ (i - 1) + 1 = i /\ i - 1 \in 0 .. N
    OBVIOUS
  <2>2. at[i] = at[i - 1] + Len(seqs[i]) /\ Len(seqs[i]) \in Nat
    BY <1>5, <2>1
  <2> QED BY <1>4, <2>1, <2>2
<1> DEFINE Kept(k) == k <= N => \A i \in 1 .. N : i <= k =>
                                  \A j \in 1 .. Len(seqs[i]) : f[k][at[i - 1] + j] = seqs[i][j]
<1>7. Kept(0)
  OBVIOUS
<1>8. ASSUME NEW k \in Nat, Kept(k)
      PROVE  Kept(k + 1)
  <2> SUFFICES ASSUME k + 1 <= N, NEW i \in 1 .. N, i <= k + 1, NEW j \in 1 .. Len(seqs[i])
               PROVE  f[k + 1][at[i - 1] + j] = seqs[i][j]
    OBVIOUS
  <2>1. /\ f[k] \in Seq(S) /\ at[k] = Len(f[k]) /\ at[k] \in Nat
        /\ seqs[k + 1] \in Seq(S) /\ f[k + 1] = f[k] \o seqs[k + 1]
    <3>1. f[k] \in Seq(S) /\ at[k] = Len(f[k]) /\ at[k] \in Nat
      BY <1>3, <1>4
    <3>2. seqs[k + 1] \in Seq(S) /\ f[k + 1] = f[k] \o seqs[k + 1]
      BY <1>a
    <3> QED BY <3>1, <3>2
  <2>2. CASE i = k + 1
    <3>1. i - 1 = k /\ j \in 1 .. Len(seqs[k + 1])
      BY <2>2
    <3>2. /\ at[k] + j \in at[k] + 1 .. at[k] + Len(seqs[k + 1])
          /\ (at[k] + j) - at[k] = j
      <4>1. \A a, b, c \in Nat : c \in 1 .. b => a + c \in a + 1 .. a + b /\ (a + c) - a = c
        OBVIOUS
      <4>2. Len(seqs[k + 1]) \in Nat /\ j \in Nat /\ at[k] \in Nat
        BY <2>1, <3>1
      <4> QED BY <3>1, <4>1, <4>2
    <3>3. (f[k] \o seqs[k + 1])[at[k] + j] = seqs[k + 1][j]
      BY <2>1, <3>2, Joined
    <3> QED BY <2>1, <2>2, <3>1, <3>3
  <2>3. CASE i # k + 1
    <3>0. i <= k /\ k <= N
      BY <2>3
    <3>1. f[k][at[i - 1] + j] = seqs[i][j]
      BY <1>8, <3>0, Zenon
    <3>2. at[i] <= at[k]
      <4>1. i \in 0 .. N /\ k \in 0 .. N /\ i <= k
        BY <2>3
      <4> QED BY <1>4, <1>6, <4>1, Rising
    <3>3. at[i - 1] + j \in 1 .. at[k]
      <4>1. \A a, b, c, d \in Nat : c \in 1 .. b /\ a + b <= d => a + c \in 1 .. d
        OBVIOUS
      <4>2. /\ at[i - 1] \in Nat /\ Len(seqs[i]) \in Nat /\ j \in Nat /\ at[k] \in Nat
            /\ at[i - 1] + Len(seqs[i]) <= at[k]
        BY <1>6, <2>1, <3>2
      <4> QED BY <4>1, <4>2
    <3>4. (f[k] \o seqs[k + 1])[at[i - 1] + j] = f[k][at[i - 1] + j]
      <4>1. at[i - 1] + j \in 1 .. Len(f[k])
        BY <2>1, <3>3
      <4> QED BY <2>1, <4>1, Joined
    <3> QED BY <2>1, <3>1, <3>4
  <2> QED BY <2>2, <2>3
<1>9. Kept(N)
  <2> HIDE DEF Kept
  <2> DEFINE T == {k \in Nat : Kept(k)}
  <2>1. 0 \in T /\ \A k \in Nat : k \in T => k + 1 \in T
    BY <1>7, <1>8
  <2> HIDE DEF T
  <2>2. Nat \subseteq T
    BY <2>1, NatSteps
  <2> QED BY <2>2 DEF T
<1>10. FlattenSeq(seqs) = f[N] /\ FlattenSeq(seqs) \in Seq(S)
  BY <1>2, <1>3
<1>11. ASSUME NEW i \in 1 .. N, NEW j \in 1 .. Len(seqs[i])
       PROVE  FlattenSeq(seqs)[at[i - 1] + j] = seqs[i][j]
  BY <1>9, <1>10
<1> QED BY <1>4, <1>6, <1>10, <1>11 DEF Begin

LEMMA OpBits ==
  /\ OpCode(OpPack(0, 0)) = 0 /\ OpPack(0, 0) \in Nat
  /\ \A size \in Nat : size < 127 => /\ OpPack(1, size) \in Nat
                                     /\ OpCode(OpPack(1, size)) = 1
                                     /\ OpSize(OpPack(1, size)) = size
<1>1. 2^7 = 128
  OBVIOUS
<1>2. 2^OpSizeBits = 128
  BY <1>1, Zenon DEF OpSizeBits
<1>3. \A code, size, op :
        /\ OpPack(code, size) = code * 128 + size
        /\ OpCode(op) = op \div 128 /\ OpSize(op) = op % 128
  BY <1>2, Zenon DEF OpPack, OpCode, OpSize
<1>4. \A size \in Nat : size < 127 => /\ (1 * 128 + size) \div 128 = 1
                                      /\ (1 * 128 + size) % 128 = size
                                      /\ 1 * 128 + size \in Nat
  OBVIOUS
<1>5. 0 * 128 + 0 = 0 /\ 0 \div 128 = 0
  OBVIOUS
<1>6. OpCode(OpPack(0, 0)) = 0 /\ OpPack(0, 0) \in Nat
  BY <1>3, <1>5
<1>7. ASSUME NEW size \in Nat, size < 127
      PROVE  /\ OpPack(1, size) \in Nat
             /\ OpCode(OpPack(1, size)) = 1 /\ OpSize(OpPack(1, size)) = size
  BY <1>3, <1>4, <1>7
<1> QED BY <1>6, <1>7

LEMMA SeqFacts ==
  ASSUME NEW S, NEW t \in Seq(S)
  PROVE  /\ t = [i \in 1 .. Len(t) |-> t[i]] /\ Len(t) \in Nat /\ DOMAIN t = 1 .. Len(t)
         /\ \A i \in 1 .. Len(t) : t[i] \in S
OBVIOUS

LEMMA BytesAreNumbers ==
  ASSUME NEW s \in Bytes
  PROVE  s \in Seq(Nat)
<1>1. s = [i \in 1 .. Len(s) |-> s[i]] /\ Len(s) \in Nat /\ \A i \in 1 .. Len(s) : s[i] \in 0 .. 255
  <2>1. s \in Seq(0 .. 255)
    BY DEF Bytes
  <2> QED BY <2>1, SeqFacts
<1>2. \A x \in 0 .. 255 : x \in Nat
  OBVIOUS
<1>3. \A i \in 1 .. Len(s) : s[i] \in Nat
  BY <1>1, <1>2
<1>4. ASSUME NEW n \in Nat, NEW f, \A i \in 1 .. n : f[i] \in Nat
      PROVE  [i \in 1 .. n |-> f[i]] \in Seq(Nat)
  BY <1>4
<1> QED BY <1>1, <1>3, <1>4

(* OP_ENCODE puts the length before the bytes.                               *)
LEMMA Encoded ==
  ASSUME NEW o \in Operation, Fits(o)
  PROVE  /\ Payload(o) \in Seq(Nat) /\ Len(Payload(o)) \in Nat
         /\ Encode(o) \in Seq(Nat) /\ Len(Encode(o)) = 1 + Len(Payload(o))
         /\ OpCode(Encode(o)[1]) = 1 /\ OpSize(Encode(o)[1]) = Len(Payload(o))
         /\ \A j \in 1 .. Len(Payload(o)) : Encode(o)[1 + j] = Payload(o)[j]
<1>1. o.cmd \in Seq(Nat) /\ o.data \in Seq(Nat)
  BY BytesAreNumbers DEF Operation
<1>2. BlockLength(o) \in Seq(Nat)
  BY <1>1 DEF BlockLength
<1>3. Payload(o) \in Seq(Nat) /\ Len(Payload(o)) \in Nat
  <2>1. o.cmd \o BlockLength(o) \in Seq(Nat)
    BY <1>1, <1>2, Joined
  <2>2. (o.cmd \o BlockLength(o)) \o o.data \in Seq(Nat)
    BY <1>1, <2>1, Joined
  <2>3. Payload(o) \in Seq(Nat)
    BY <2>2, Zenon DEF Payload
  <2> QED BY <2>3
<1>4. Len(Payload(o)) < 127
  <2>1. 2^7 = 128 /\ 128 - 1 = 127
    OBVIOUS
  <2>2. 2^OpSizeBits - 1 = 127
    BY <2>1, Zenon DEF OpSizeBits
  <2> QED BY <2>2, Zenon DEF Fits
<1>5. PICK size \in Nat, head \in Seq(Nat), p \in Seq(Nat) :
        /\ p = Payload(o) /\ size = Len(p) /\ size < 127 /\ head = << OpPack(1, size) >>
  <2>1. PICK size \in Nat : size = Len(Payload(o)) /\ size < 127
    BY <1>3, <1>4
  <2>2. << OpPack(1, size) >> \in Seq(Nat)
    BY <2>1, OpBits
  <2> QED BY <1>3, <2>1, <2>2
<1>6. Len(head) = 1 /\ OpCode(head[1]) = 1 /\ OpSize(head[1]) = size
  BY <1>5, OpBits
<1>7. Encode(o) = head \o p
  BY <1>5 DEF Encode
<1>8. head \o p \in Seq(Nat) /\ Len(head \o p) = 1 + size /\ (head \o p)[1] = head[1]
  BY <1>5, <1>6, Joined
<1>9. ASSUME NEW j \in 1 .. size
      PROVE  (head \o p)[1 + j] = p[j]
  <2>1. 1 + j \in 1 + 1 .. 1 + size /\ (1 + j) - 1 = j
    OBVIOUS
  <2> QED BY <1>5, <1>6, <2>1, Joined
<1> QED BY <1>3, <1>5, <1>6, <1>7, <1>8, <1>9

LEMMA OneMore ==
  ASSUME NEW a \in Nat, NEW p \in Nat, NEW b \in Nat, b = a + (1 + p)
  PROVE  a <= b /\ b = a + 1 + p
OBVIOUS

LEMMA Between ==
  ASSUME NEW k \in Nat, NEW a \in Nat, NEW p \in Nat, NEW c \in Nat, k <= a, a + 1 + p <= c
  PROVE  k + 1 \in 0 .. c + 1
OBVIOUS

LEMMA Piece ==
  ASSUME NEW S, NEW q \in Seq(S), NEW a \in Nat, NEW l \in Nat
  PROVE  SubSeq(q, a + 2, a + 1 + l) = [j \in 1 .. l |-> q[(a + 2) + j - 1]]
<1>1. a + 2 \in Nat /\ a + 1 + l \in Nat /\ (a + 1 + l) - (a + 2) + 1 = l
  OBVIOUS
<1>2. ASSUME NEW m \in Nat, NEW n \in Nat, n - m + 1 = l
      PROVE  SubSeq(q, m, n) = [j \in 1 .. l |-> q[m + j - 1]]
  BY <1>2
<1> QED BY <1>1, <1>2

LEMMA ExecDeclared ==
  ASSUME NEW node \in [state : 0 .. 255, ops : Seq(Operation)],
         \A i \in DOMAIN node.ops : Fits(node.ops[i])
  PROVE  Exec(Ops(node)) = [i \in DOMAIN node.ops |-> Payload(node.ops[i])]
<1> DEFINE o == node.ops
           N == Len(o)
           seqs == [i \in DOMAIN node.ops |-> Encode(node.ops[i])]
           bytes == FlattenSeq(seqs)
           ops == Ops(node)
           pos == Position(ops)
<1>1. /\ o \in Seq(Operation) /\ N \in Nat /\ DOMAIN o = 1 .. N
      /\ \A i \in 1 .. N : o[i] \in Operation /\ Fits(o[i])
  OBVIOUS
<1>2. seqs \in [1 .. N -> Seq(Nat)] /\ \A i \in 1 .. N : seqs[i] = Encode(o[i])
  BY <1>1, Encoded
<1>3. ops = bytes \o << OpPack(0, 0) >>
  BY DEF Ops
<1> HIDE DEF seqs, ops, o, N
<1>4. bytes \in Seq(Nat)
  BY <1>1, <1>2, Concatenated
<1>5. PICK at \in [0 .. N -> Nat] :
        /\ at[0] = 0 /\ at[N] = Len(bytes)
        /\ \A i \in 1 .. N : /\ at[i] = at[i - 1] + Len(seqs[i])
                             /\ \A j \in 1 .. Len(seqs[i]) : bytes[at[i - 1] + j] = seqs[i][j]
  <2>1. seqs \in [1 .. N -> Seq(Nat)] /\ N \in Nat
    BY <1>1, <1>2
  <2>2. PICK at \in [0 .. N -> Nat] : Begin(N, seqs, at)
    BY <2>1, Concatenated, Zenon
  <2> QED BY <2>2, Zenon DEF Begin
<1> HIDE DEF bytes
<1>6. /\ ops \in Seq(Nat) /\ Len(ops) = at[N] + 1 /\ at[N] \in Nat
      /\ ops[at[N] + 1] = OpPack(0, 0)
      /\ \A x \in 1 .. at[N] : ops[x] = bytes[x]
  <2>1. << OpPack(0, 0) >> \in Seq(Nat)
    BY OpBits
  <2> QED BY <1>1, <1>3, <1>4, <1>5, <2>1, Joined
<1>7. \A i \in 1 .. N : /\ Payload(o[i]) \in Seq(Nat) /\ Len(Payload(o[i])) \in Nat
                        /\ Len(seqs[i]) = 1 + Len(Payload(o[i]))
                        /\ OpCode(seqs[i][1]) = 1 /\ OpSize(seqs[i][1]) = Len(Payload(o[i]))
                        /\ \A j \in 1 .. Len(Payload(o[i])) : seqs[i][1 + j] = Payload(o[i])[j]
  <2> TAKE i \in 1 .. N
  <2>1. o[i] \in Operation /\ Fits(o[i]) /\ seqs[i] = Encode(o[i])
    BY <1>1, <1>2
  <2> QED BY <2>1, Encoded
<1>8. \A i \in 1 .. N : at[i - 1] \in Nat /\ at[i] \in Nat /\ at[i - 1] <= at[i]
                        /\ at[i] = at[i - 1] + 1 + Len(Payload(o[i]))
  <2> TAKE i \in 1 .. N
  <2>1. i - 1 \in 0 .. N /\ i \in 0 .. N
    BY <1>1
  <2>2. at[i - 1] \in Nat /\ at[i] \in Nat /\ at[i] = at[i - 1] + Len(seqs[i])
    BY <1>5, <2>1
  <2>3. Len(seqs[i]) = 1 + Len(Payload(o[i])) /\ Len(Payload(o[i])) \in Nat
    BY <1>7
  <2>4. PICK p \in Nat : p = Len(Payload(o[i]))
    BY <2>3, Zenon
  <2>5. at[i] = at[i - 1] + (1 + p)
    BY <2>2, <2>3, <2>4, Zenon
  <2>6. at[i - 1] <= at[i] /\ at[i] = at[i - 1] + 1 + p
    BY <2>2, <2>5, OneMore
  <2> QED BY <2>2, <2>4, <2>6, Zenon
<1>9. ASSUME NEW i \in 1 .. N, NEW j \in 1 .. 1 + Len(Payload(o[i]))
      PROVE  ops[at[i - 1] + j] = seqs[i][j]
  <2>1. at[i] <= at[N]
    <3>1. i \in 0 .. N /\ N \in 0 .. N /\ i <= N
      BY <1>1
    <3> QED BY <1>1, <1>8, <3>1, Rising
  <2>2. at[i - 1] + j \in 1 .. at[N]
    <3>1. \A a, b, c, d \in Nat : c \in 1 .. 1 + b /\ a + 1 + b <= d => a + c \in 1 .. d
      OBVIOUS
    <3>2. Len(Payload(o[i])) \in Nat /\ j \in Nat
      BY <1>7
    <3>3. /\ at[i - 1] \in Nat /\ at[N] \in Nat
          /\ at[i - 1] + 1 + Len(Payload(o[i])) <= at[N]
      BY <1>6, <1>8, <2>1
    <3> QED BY <3>1, <3>2, <3>3
  <2>3. j \in 1 .. Len(seqs[i])
    BY <1>7
  <2> QED BY <1>5, <1>6, <2>2, <2>3
(* The op pointer stands before every operation in turn.                     *)
<1> DEFINE There(k) == k <= at[k] /\ pos[k] = at[k] + 1
<1>10. \A k \in 0 .. N : There(k)
  <2> DEFINE T == {k \in Nat : k <= N => There(k)}
  <2>1. 0 \in T
    <3>1. pos[0] = 1
      BY <1>6, PositionDefined
    <3> QED BY <1>5, <3>1
  <2>2. ASSUME NEW k \in Nat, k \in T
        PROVE  k + 1 \in T
    <3> SUFFICES ASSUME k + 1 <= N
                 PROVE  There(k + 1)
      OBVIOUS
    <3>0. \A n \in Nat : k + 1 <= n => /\ k + 1 \in 1 .. n /\ k \in 0 .. n /\ k + 1 \in 0 .. n
                                       /\ (k + 1) - 1 = k
      OBVIOUS
    <3>1. k + 1 \in 1 .. N /\ (k + 1) - 1 = k /\ k \in 0 .. N /\ k + 1 \in 0 .. N
      BY <1>1, <3>0
    <3>2. k <= at[k] /\ pos[k] = at[k] + 1 /\ at[k] \in Nat
      BY <1>1, <2>2, <3>1
    <3>3. at[k + 1] = at[k] + 1 + Len(Payload(o[k + 1])) /\ Len(Payload(o[k + 1])) \in Nat
      BY <1>7, <1>8, <3>1
    <3>4. at[k + 1] <= at[N] /\ at[k + 1] \in Nat
      <4>1. N \in 0 .. N /\ k + 1 <= N
        BY <1>1
      <4> QED BY <1>1, <1>8, <3>1, <4>1, Rising
    <3>5. k + 1 \in 0 .. Len(ops)
      <4>1. at[k] + 1 + Len(Payload(o[k + 1])) <= at[N]
        BY <3>3, <3>4, Zenon
      <4>2. k + 1 \in 0 .. at[N] + 1
        BY <1>6, <3>2, <3>3, <4>1, Between, Zenon
      <4> QED BY <1>6, <4>2, Zenon
    <3>6. pos[k + 1] = pos[k] + 1 + OpSize(ops[pos[k]])
      <4>1. k + 1 # 0
        OBVIOUS
      <4>2. Len(ops) \in Nat
        BY <1>6
      <4>3. pos[k + 1] = IF k + 1 = 0 THEN 1
                         ELSE pos[(k + 1) - 1] + 1 + OpSize(ops[pos[(k + 1) - 1]])
        BY <3>5, <4>2, PositionDefined, Zenon
      <4> QED BY <3>1, <4>1, <4>3
    <3>7. OpSize(ops[at[k] + 1]) = Len(Payload(o[k + 1]))
      <4>1. 1 \in 1 .. 1 + Len(Payload(o[k + 1]))
        BY <3>3
      <4>2. ops[at[k] + 1] = seqs[k + 1][1]
        BY <1>9, <3>1, <4>1
      <4> QED BY <1>7, <3>1, <4>2
    <3> QED BY <3>2, <3>3, <3>6, <3>7
  <2> HIDE DEF T
  <2>3. Nat \subseteq T
    BY <2>1, <2>2, NatSteps
  <2> QED BY <1>1, <2>3 DEF T
<1> HIDE DEF pos
<1>11. \A i \in 1 .. N : /\ pos[i - 1] = at[i - 1] + 1
                         /\ OpCode(ops[pos[i - 1]]) = 1
                         /\ OpSize(ops[pos[i - 1]]) = Len(Payload(o[i]))
  <2> TAKE i \in 1 .. N
  <2>1. i - 1 \in 0 .. N
    BY <1>1
  <2>2. 1 \in 1 .. 1 + Len(Payload(o[i]))
    BY <1>7
  <2>3. pos[i - 1] = at[i - 1] + 1 /\ ops[at[i - 1] + 1] = seqs[i][1]
    BY <1>9, <1>10, <2>1, <2>2
  <2> QED BY <1>7, <2>3
<1>12. OpCode(ops[pos[N]]) = 0
  <2>1. N \in 0 .. N
    BY <1>1
  <2> QED BY <1>6, <1>10, <2>1, OpBits
<1> DEFINE Ends(n) == OpCode(ops[pos[n]]) = 0 /\ \A m \in 0 .. n - 1 : OpCode(ops[pos[m]]) # 0
<1>13. (CHOOSE n \in 0 .. Len(ops) : Ends(n)) = N
  <2>1. N \in 0 .. Len(ops)
    <3>1. N <= at[N]
      <4>1. N \in 0 .. N
        BY <1>1
      <4> QED BY <1>10, <4>1
    <3> QED BY <1>1, <1>6, <3>1
  <2>2. \A m \in 0 .. N - 1 : OpCode(ops[pos[m]]) # 0
    <3> TAKE m \in 0 .. N - 1
    <3>1. m + 1 \in 1 .. N /\ (m + 1) - 1 = m
      BY <1>1
    <3>2. OpCode(ops[pos[m]]) = 1
      BY <1>11, <3>1
    <3> QED BY <3>2
  <2>3. Ends(N)
    BY <1>12, <2>2
  <2>4. ASSUME NEW n \in 0 .. Len(ops), Ends(n)
        PROVE  n = N
    <3>1. ~(n < N)
      <4>1. n < N => n \in 0 .. N - 1
        BY <1>1
      <4> QED BY <2>2, <2>4, <4>1
    <3>2. ~(N < n)
      <4>1. N < n => N \in 0 .. n - 1
        BY <1>1
      <4> QED BY <1>12, <2>4, <4>1
    <3> QED BY <1>1, <1>6, <3>1, <3>2
  <2> HIDE DEF Ends
  <2> QED BY <2>1, <2>3, <2>4
<1>14. Exec(ops) = [n \in 1 .. N |->
                      SubSeq(ops, pos[n - 1] + 1, pos[n - 1] + OpSize(ops[pos[n - 1]]))]
  BY <1>13 DEF Exec, pos
<1>15. ASSUME NEW i \in 1 .. N
       PROVE  SubSeq(ops, pos[i - 1] + 1, pos[i - 1] + OpSize(ops[pos[i - 1]])) = Payload(o[i])
  <2> DEFINE p == Payload(o[i])
             from == at[i - 1] + 2
             to == at[i - 1] + 1 + Len(p)
  <2>1. p \in Seq(Nat) /\ Len(p) \in Nat /\ at[i - 1] \in Nat
    BY <1>7, <1>8
  <2>2. SubSeq(ops, pos[i - 1] + 1, pos[i - 1] + OpSize(ops[pos[i - 1]])) = SubSeq(ops, from, to)
    <3>1. /\ pos[i - 1] = at[i - 1] + 1 /\ OpSize(ops[pos[i - 1]]) = Len(p)
          /\ at[i - 1] + 1 + 1 = at[i - 1] + 2
      BY <1>11, <2>1
    <3>2. pos[i - 1] + 1 = from /\ pos[i - 1] + OpSize(ops[pos[i - 1]]) = to
      BY <3>1, Zenon
    <3> QED BY <3>2, Zenon
  <2>3. \A j \in 1 .. Len(p) : ops[from + j - 1] = p[j]
    <3> TAKE j \in 1 .. Len(p)
    <3>0. \A a, b, c \in Nat : c \in 1 .. b => 1 + c \in 1 .. 1 + b /\ (a + 2) + c - 1 = a + (1 + c)
      OBVIOUS
    <3>1. 1 + j \in 1 .. 1 + Len(p) /\ from + j - 1 = at[i - 1] + (1 + j)
      <4>1. j \in Nat
        BY <2>1
      <4> QED BY <2>1, <3>0, <4>1
    <3>2. ops[at[i - 1] + (1 + j)] = seqs[i][1 + j]
      BY <1>9, <3>1
    <3> QED BY <1>7, <3>1, <3>2
  <2>4. SubSeq(ops, from, to) = [j \in 1 .. Len(p) |-> ops[from + j - 1]]
    BY <1>6, <2>1, Piece, Zenon
  <2>5. p = [j \in 1 .. Len(p) |-> p[j]]
    BY <2>1, SeqFacts, Zenon
  <2> HIDE DEF p, from, to
  <2>6. SubSeq(ops, from, to) = p
    BY <2>3, <2>4, <2>5
  <2> QED BY <2>2, <2>6 DEF p
<1>16. Exec(ops) = [i \in DOMAIN o |-> Payload(o[i])]
  BY <1>1, <1>14, <1>15
<1> QED BY <1>16 DEF ops, o

LEMMA WritesDeclared == \A s : Writes(s) = Declared(s)
<1>1. \A n \in DOMAIN Nodes :
        Exec(Ops(Nodes[n])) = [i \in DOMAIN Nodes[n].ops |-> Payload(Nodes[n].ops[i])]
  <2> TAKE n \in DOMAIN Nodes
  <2>1. Nodes[n] \in [state : 0 .. 255, ops : Seq(Operation)]
    <3>1. Nodes \in Seq([state : 0 .. 255, ops : Seq(Operation)])
      BY ConfiguratorAssumption
    <3>2. n \in 1 .. Len(Nodes)
      BY <3>1, SeqFacts, Zenon
    <3> QED BY <3>1, <3>2, SeqFacts, Zenon
  <2>2. \A i \in DOMAIN Nodes[n].ops : Fits(Nodes[n].ops[i])
    BY OperationsFit
  <2> QED BY <2>1, <2>2, ExecDeclared, Zenon
<1> QED BY <1>1 DEF Writes, Declared

LEMMA InitConfigured == Init => Configured
BY WritesDeclared DEF Init, CwInit, Configured

LEMMA NextConfigured == Configured /\ [Next]_vars => Configured'
<1> SUFFICES ASSUME Configured, [Next]_vars
             PROVE  Configured'
  OBVIOUS
<1>1. CASE UNCHANGED cvars
  <2>1. Declared(cstate)' = Declared(cstate)
    BY <1>1 DEF cvars, Declared
  <2> QED BY <1>1, <2>1 DEF cvars, Configured
<1>2. CASE SetConfigurator
  BY <1>2 DEF SetConfigurator, CwSet, Configured
<1>3. CASE ConfiguratorWork
  <2>1. cwork /\ ~cwork' /\ CwTask /\ cstate' = cstate
    BY <1>3 DEF ConfiguratorWork, CwWork
  <2>2. cstatus = "again"
    BY <2>1 DEF Configured
  <2>3. CASE Done
    <3>1. chip' = Declared(cstate')
      BY <2>1, <2>3, WritesDeclared DEF Done
    <3>2. cstatus' = "ok"
      BY <2>2, <2>3 DEF Done
    <3> QED BY <2>1, <3>1, <3>2 DEF Configured, Declared
  <2>4. CASE \E k \in 0 .. Len(Writes(cstate)) - 1 : Stopped(k)
    <3>1. cstatus' = "fault"
      BY <2>4 DEF Stopped
    <3> QED BY <2>1, <3>1 DEF Configured
  <2> QED BY <2>1, <2>3, <2>4 DEF CwTask
<1>4. UNCHANGED vars => UNCHANGED cvars
  BY DEF vars, devVars
<1> QED BY <1>1, <1>2, <1>3, <1>4, ConfiguratorAlone DEF Next, QueueStep

-----------------------------------------------------------------------------
(* The rail, step by step.                                                   *)
LEMMA InitDelivers ==
  ASSUME Init
  PROVE  /\ GP!StageOrder /\ Asked
         /\ StagesPowered => Powered
         /\ StagesComplete => Arrived
<1>1. RP!Init
  BY RegulatorSame DEF Init
<1>2. rpc[RP!Caller] = "idle" /\ enabled = FALSE
  BY <1>1 DEF RP!Init, RP!On, RP!Actors, RP!Caller, RP!Boot
<1>3. GP!StageOrder
  BY GraphTables DEF Init, GP!StageOrder
<1>4. Asked
  BY <1>2 DEF Init, Asked
<1>5. StagesPowered => Powered
  BY DEF Init, CwInit, StagesPowered, Powered
<1>6. StagesComplete => Arrived
  <2>1. Value = [d \in Devs |-> IF d = Cfg THEN InitialState ELSE 0]
    BY <1>2 DEF Init, CwInit, Value, Devs, Reg, Cfg, Switch
  <2> QED BY <2>1 DEF Init, StagesComplete, Arrived
<1> QED BY <1>3, <1>4, <1>5, <1>6

(* Power before the chip, whatever the regulator waits for and whoever calls *)
(* back in between (power_graph_task goes on from a stage only when its      *)
(* device answers with the value and without EAGAIN): for every graph whose  *)
(* stages are declared in that order.                                        *)
THEOREM PowerComesFirst ==
  ASSUME StagesPowered
  PROVE  Spec => PoweredFirst
<1> DEFINE Inv == RailInv /\ GP!StageOrder /\ Configured /\ Asked /\ Powered
<1>1. Init => Inv
  BY InitRail, InitConfigured, InitDelivers
<1>2. Inv /\ [Next]_vars => Inv'
  BY NextRail, NextOrder, NextConfigured, NextAsked, NextPowered
<1>3. Inv /\ [Next]_vars =>
        [(chip' # chip /\ chip' # << >>) \/ (target = 0 /\ target' = 1) => out \/ badset]_vars
  BY StepPowered
<1> HIDE DEF Inv
<1> QED BY <1>1, <1>2, <1>3, PTL DEF Spec, PoweredFirst

(* A graph at rest has switched every device to what its state declares, and *)
(* the chip that reports no failure was sent what was declared for it, byte  *)
(* for byte as cw_exec decodes it (power_graph_task, cw_task): for every     *)
(* graph whose transitions name all devices.                                 *)
THEOREM RestIsDeclared ==
  ASSUME StagesComplete
  PROVE  Spec => []RestAsDeclared
<1> DEFINE Inv == RailInv /\ GP!StageOrder /\ Configured /\ Arrived
<1>1. Init => Inv
  BY InitRail, InitConfigured, InitDelivers
<1>2. Inv /\ [Next]_vars => Inv'
  BY NextRail, NextOrder, NextConfigured, NextArrived
<1>3. Inv => RestAsDeclared
  <2> SUFFICES ASSUME Inv, Rest
               PROVE  Value = Expected[state]
    BY DEF RestAsDeclared
  <2>1. transition = GP!None /\ pc = "idle"
    BY GraphTables DEF Rest, QueueFree
  <2> QED BY <2>1 DEF Arrived, Adrift
<1> HIDE DEF Inv
<1> QED BY <1>1, <1>2, <1>3, PTL DEF Spec

-----------------------------------------------------------------------------
(* What PowerGraph promises of every device it can meet, the rail keeps with *)
(* its drivers: the order of the stages, the log and the changes of state.   *)

(* Outside the task only callbacks write the log, and nothing moves the task *)
(* but the end of a value_set.                                               *)
LEMMA OutsideLogs ==
  ASSUME RailInv, [Next]_vars, ~GraphTask, ~GraphSettled
  PROVE  /\ UNCHANGED <<state, transition, stage>>
         /\ pc' = pc \/ (pc = "set" /\ pc' = "stage")
         /\ \/ UNCHANGED logVars
            \/ \E d \in Devs :
                 GP!PutFault([transition |-> transition, stage |-> stage, spec |-> d])
<1> DEFINE Log == \/ UNCHANGED logVars
                  \/ \E d \in Devs :
                       GP!PutFault([transition |-> transition, stage |-> stage, spec |-> d])
<1>1. Reg \in Devs /\ Cfg \in Devs
  BY DEF Devs
<1>2. ASSUME NEW d \in Devs, G!Callback(d)
      PROVE  Log
  <2>1. GP!Callback(d)
    BY <1>2, CallsSame
  <2> QED BY <2>1 DEF GP!Callback, GP!logVars, logVars
<1>3. \A called : Told(called, Reg) => Log
  BY <1>1, <1>2 DEF Told, logVars
<1>4. CASE CallRegulator \/ RegulatorCall \/ SetConfigurator \/ SetSwitch
  <2>1. Log
    BY <1>3, <1>4 DEF CallRegulator, RegulatorCall, SetConfigurator, SetSwitch, graphVars, logVars
  <2> HIDE DEF Log
  <2> QED
    BY <1>4, <2>1
    DEF CallRegulator, RegulatorCall, SetConfigurator, SetSwitch, Setting, graphVars, Log
<1>5. CASE RegulatorWork \/ ConfiguratorWork
  <2>1. Log
    BY <1>1, <1>2, <1>3, <1>5 DEF RegulatorWork, ConfiguratorWork
  <2> QED BY <1>5, <2>1 DEF RegulatorWork, ConfiguratorWork
<1>6. ASSUME NEW p \in Pins, PinEdge(p)
      PROVE  Log /\ UNCHANGED <<state, transition, stage, pc>>
  <2>1. Log
    BY <1>3, <1>6 DEF PinEdge
  <2> QED BY <1>6, <2>1 DEF PinEdge
<1>7. ASSUME NEW c \in Commands, CmdSame(c) \/ CmdSet(c) \/ CmdStep(c)
      PROVE  UNCHANGED <<state, transition, stage, pc, logVars>>
  <2>1. CASE CmdSet(c)
    <3>1. GP!SetCommit(c) \/ GP!SetSubmit(c) \/ \E v \in Requests : GP!SetCheck(c, v)
      BY <2>1, CallsSame DEF CmdSet
    <3> QED
      BY <3>1 DEF GP!SetCheck, GP!SetCommit, GP!SetSubmit, GP!taskVars, GP!logVars, logVars
  <2>2. CASE ~CmdSet(c)
    BY <1>7, <2>2
    DEF CmdSame, CmdStep, CmdGet, CmdSubscribe, CmdTake, CmdUnsubscribe, graphVars
  <2> QED BY <2>1, <2>2
<1>8. CASE UNCHANGED vars
  BY <1>8 DEF vars, graphVars
<1> QED BY <1>4, <1>5, <1>6, <1>7, <1>8 DEF Next, QueueStep

(* Outside the task a request that differs from the state stays: callbacks   *)
(* leave it alone, and the commands wait for the task.                       *)
LEMMA NextAside ==
  ASSUME [Next]_vars, ~GraphTask, ~GraphSettled, newState # state
  PROVE  newState' = newState \/ pc = "idle"
<1>1. \A d : G!Callback(d) => newState' = newState
  BY DEF G!Callback
<1>2. \A called, d : Told(called, d) => newState' = newState
  BY <1>1 DEF Told
<1>3. CASE CallRegulator \/ RegulatorCall \/ SetConfigurator \/ SetSwitch
  BY <1>2, <1>3 DEF CallRegulator, RegulatorCall, SetConfigurator, SetSwitch, graphVars
<1>4. CASE RegulatorWork \/ ConfiguratorWork
  BY <1>1, <1>2, <1>4 DEF RegulatorWork, ConfiguratorWork
<1>5. CASE \E p \in Pins : PinEdge(p)
  BY <1>2, <1>5 DEF PinEdge
<1>6. ASSUME NEW c \in Commands, CmdSame(c) \/ CmdSet(c) \/ CmdStep(c)
      PROVE  pc = "idle" \/ newState' = newState
  BY <1>6
  DEF CmdSame, CmdSet, CmdStep, CmdGet, CmdSubscribe, CmdTake, CmdUnsubscribe, At, G!MayRun,
      G!SetCheck, G!SetCommit, G!SetSubmit, G!taskVars, graphVars
<1>7. CASE UNCHANGED vars
  BY <1>7 DEF vars, graphVars
<1> QED BY <1>3, <1>4, <1>5, <1>6, <1>7 DEF Next, QueueStep

(* A callback takes no stage for passed, whichever driver it comes from      *)
(* (power_graph_task).                                                       *)
THEOREM RailStagesInOrder == Spec => []GP!StageOrder
<1> DEFINE Inv == RailInv /\ GP!StageOrder
<1>1. Init => Inv
  BY InitRail, InitDelivers
<1>2. Inv /\ [Next]_vars => Inv'
  BY NextRail, NextOrder
<1>3. Inv => GP!StageOrder
  OBVIOUS
<1> HIDE DEF Inv
<1> QED BY <1>1, <1>2, <1>3, PTL DEF Spec

(* The log of the rail is the bounded history of its faults, the regulator's *)
(* interrupts, the configurator's work item and the task writing it in any   *)
(* order (put_fault).                                                        *)
THEOREM RailLogKeepsNewest == Spec => GP!KeepsNewest
<1>1. Init => GP!LogInit
  BY DEF Init, G!LogInit, GP!LogInit, G!Slots, GP!Slots
<1>2. RailInv /\ [Next]_vars => [GP!LogNext]_(GP!logVars)
  <2> SUFFICES ASSUME RailInv, [Next]_vars
               PROVE  GP!LogNext \/ UNCHANGED GP!logVars
    OBVIOUS
  <2>1. \A d \in Devs : [transition |-> transition, stage |-> stage, spec |-> d] \in Entries
    BY GP!EntryFacts, GraphAssumed, SearchAssumed, EntriesAssumed DEF RailInv, RailTypes
  <2>2. CASE ~GraphTask /\ ~GraphSettled
    BY <2>1, <2>2, OutsideLogs DEF GP!LogNext, GP!logVars, logVars
  <2>3. CASE GP!LogFault
    <3>1. GP!Current.dev \in Devs
      BY <2>3, GP!CurrentFacts, GraphAssumed, SearchAssumed, EntriesAssumed
      DEF GP!LogFault, RailInv, RailTypes, GP!TypeOK, GP!TaskTypeOK
    <3> QED BY <2>1, <2>3, <3>1 DEF GP!LogFault, GP!LogNext
  <2>4. CASE (GraphTask \/ GraphSettled) /\ ~GP!LogFault
    BY <2>4, TaskSame
    DEF GraphTask, GraphSettled, GP!Begin, GP!Settled, GP!Enter, GP!Start, GP!NoRoute,
        GP!StillChanging, GP!StageFailed, GP!StageReached, GP!StageWrong, GP!Finish, GP!Close,
        GP!Abort, GP!Drop, GP!ToSafe
  <2> QED BY <2>2, <2>3, <2>4
<1>3. Spec => GP!LogSpec
  BY <1>1, <1>2, RailInvariant, PTL DEF Spec, GP!LogSpec
<1> QED BY <1>3, GP!LogKeepsNewest, GraphAssumed, SearchAssumed, EntriesAssumed, PTL

(* The state of the rail changes along declared transitions only, each with  *)
(* its stages passed or with its fault the newest of the log.                *)
LEMMA NextRoute ==
  ASSUME RailInv, GP!RouteInv, [Next]_vars
  PROVE  GP!RouteInv'
<1>1. CASE GraphTask \/ GraphSettled
  BY <1>1, TaskAlone, GP!TaskKeepsRoute, GraphAssumed, SearchAssumed, EntriesAssumed
  DEF RailInv, RailTypes
<1>2. CASE ~GraphTask /\ ~GraphSettled
  <2>1. /\ UNCHANGED <<state, transition, stage>>
        /\ pc' = pc \/ (pc = "set" /\ pc' = "stage")
    BY <1>2, OutsideLogs
  <2>2. CASE UNCHANGED logVars
    BY <2>1, <2>2 DEF GP!RouteInv, GP!Departs, GP!Logged, logVars
  <2>3. ASSUME NEW d \in Devs,
               GP!PutFault([transition |-> transition, stage |-> stage, spec |-> d])
        PROVE  GP!RouteInv'
    <3>1. [transition |-> transition, stage |-> stage, spec |-> d] \in Entries
      BY GP!EntryFacts, GraphAssumed, SearchAssumed, EntriesAssumed DEF RailInv, RailTypes
    <3>2. GP!LogTypeOK
      BY DEF RailInv, RailTypes, GP!TypeOK
    <3>3. faults'[lastFault'] = [transition |-> transition, stage |-> stage, spec |-> d]
      BY <2>3, <3>1, <3>2, GP!NewestIs, GraphAssumed, SearchAssumed, EntriesAssumed
    <3> QED BY <2>1, <3>3 DEF GP!RouteInv, GP!Departs, GP!Logged
  <2> QED BY <1>2, <2>2, <2>3, OutsideLogs
<1> QED BY <1>1, <1>2

THEOREM RailStateFollowsGraph == Spec => GP!StateChangesAlongTransition
<1> DEFINE Along ==
      state' # state =>
        /\ transition # GP!None
        /\ Transitions[transition].initial = state
        /\ Transitions[transition].target = state'
        /\ \/ stage > Len(Transitions[transition].stages)
           \/ faults[lastFault].transition = transition
    Inv == RailInv /\ GP!RouteInv
<1>1. Init => Inv
  <2>1. Init => GP!RouteInv
    BY GraphTables DEF Init, GP!RouteInv, GP!Departs, GP!Logged
  <2> QED BY <2>1, InitRail
<1>2. Inv /\ [Next]_vars => Inv'
  BY NextRail, NextRoute
<1>3. Inv /\ [Next]_vars => [Along]_(GP!vars)
  <2> SUFFICES ASSUME Inv, [Next]_vars, state' # state
               PROVE  Along
    BY DEF GP!vars, GP!taskVars
  <2>1. GraphTask \/ GraphSettled
    BY OutsideLogs
  <2>2. GP!Finish \/ GP!Abort
    BY <2>1, TaskSame
    DEF GraphTask, GraphSettled, GP!Begin, GP!Settled, GP!Enter, GP!Start, GP!NoRoute,
        GP!StillChanging, GP!StageFailed, GP!StageReached, GP!StageWrong, GP!Close,
        GP!LogFault, GP!Drop, GP!ToSafe, GP!taskVars
  <2>3. transition # GP!None /\ transition \in GP!TransitionIds
    BY <2>2 DEF GP!Finish, GP!Abort, RailInv, RailTypes, GP!TypeOK, GP!TaskTypeOK
  <2>4. CASE GP!Finish
    <3>1. Len(Transitions[transition].stages) \in Nat
      BY <2>3, GP!TransitionFacts, GraphAssumed, SearchAssumed, EntriesAssumed
    <3> QED BY <2>3, <2>4, <3>1
        DEF GP!Finish, RailInv, RailTypes, GP!TypeOK, GP!TaskTypeOK, GP!RouteInv, GP!Departs, GP!Stages
  <2>5. CASE GP!Abort
    BY <2>3, <2>5 DEF GP!Abort, GP!RouteInv, GP!Departs, GP!Logged
  <2> QED BY <2>2, <2>4, <2>5
<1> HIDE DEF Inv
<1> QED BY <1>1, <1>2, <1>3, PTL DEF Spec, GP!StateChangesAlongTransition

(* The task and the callbacks of the drivers never write the log at the same *)
(* time: a callback logs where the request is the state, the task where it   *)
(* works towards another (power_graph_dev_cb, put_fault).                    *)
THEOREM RailLogWritersExclude == Spec => []GP!LogExclusive
<1> DEFINE Inv == RailInv /\ GP!Underway
<1>1. Init => Inv
  BY InitRail DEF Init, GP!Underway
<1>2. Inv /\ [Next]_vars => GP!Underway'
  <2> SUFFICES ASSUME Inv, [Next]_vars
               PROVE  GP!Underway'
    OBVIOUS
  <2>1. CASE GraphTask \/ GraphSettled
    BY <2>1, TaskSame
    DEF GraphTask, GraphSettled, GP!Begin, GP!Settled, GP!Enter, GP!Start, GP!NoRoute,
        GP!StillChanging, GP!StageFailed, GP!StageReached, GP!StageWrong, GP!Finish, GP!Close,
        GP!LogFault, GP!Abort, GP!Drop, GP!ToSafe, GP!Underway, GP!taskVars
  <2>2. CASE ~GraphTask /\ ~GraphSettled
    <3>1. pc \in {"search", "stage", "set", "fault"} => newState' = newState
      BY <2>2, NextAside DEF GP!Underway
    <3> QED BY <2>2, <3>1, OutsideLogs DEF GP!Underway
  <2> QED BY <2>1, <2>2
<1>3. Inv /\ [Next]_vars => Inv'
  BY <1>2, NextRail
<1>4. Inv => GP!LogExclusive
  BY DEF GP!Underway, GP!LogExclusive
<1> HIDE DEF Inv
<1> QED BY <1>1, <1>3, <1>4, PTL DEF Spec

-----------------------------------------------------------------------------
(* With the work queue free and no answer pending the regulator is at rest:  *)
(* nobody is in it and nothing of it is scheduled.                           *)
LEMMA RegulatorAtRest ==
  ASSUME RailInv, QueueFree, Status[Reg] # "pending"
  PROVE  RP!AtRest
<1>1. rpc[RP!Caller] = "idle" /\ rpc[RP!Worker] = "idle" /\ rpc[RP!Boot] = "idle"
  BY RegulatorSame DEF QueueFree, RegWorks, RailInv, RailTypes, Turns, DriverInv
<1>2. ~work
  <2>1. SUFFICES ASSUME work PROVE FALSE
    OBVIOUS
  <2>2. dstate \in {"pending", "deferred"}
    BY <2>1 DEF RailInv, DriverInv, RP!TurnsInv, RP!ApartInv, RP!Settled, RP!RegulatorInv,
                RP!DriverStates
  <2> QED BY <2>2 DEF Status, Answer, Devs
<1> QED BY <1>1, <1>2 DEF RP!AtRest, RP!Actors, RP!Caller, RP!Worker, RP!Boot

(* What RestAsDeclared says of the answers of the regulator holds of its     *)
(* pins: the outputs supply what the state of the graph declares, and the    *)
(* power good callbacks of that direction are installed.                     *)
Supplied ==
  Rest =>
    LET on == Expected[state][Reg] = 1
    IN /\ out = on \/ badset
       /\ cbs = RP!Armed(on)

(* A graph at rest supplies its rail as its state declares and watches over  *)
(* it, unless setting the outputs failed: no deferred switch is left behind, *)
(* and no way of ending one forgets the callbacks (power_graph_task,         *)
(* regulator_extended_set, regulator_extended_work, finalize_transition).    *)
THEOREM RestIsSupplied ==
  ASSUME StagesComplete
  PROVE  Spec => []Supplied
<1>1. RailInv /\ RestAsDeclared => Supplied
  <2> SUFFICES ASSUME RailInv, RestAsDeclared, Rest
               PROVE  /\ out = (Expected[state][Reg] = 1) \/ badset
                      /\ cbs = RP!Armed(Expected[state][Reg] = 1)
    BY DEF Supplied
  <2>1. Reg \in Devs
    BY DEF Devs
  <2>2. RP!AtRest
    BY <2>1, RegulatorAtRest DEF Rest, G!Quiet
  <2>3. enabled = (Expected[state][Reg] = 1)
    BY <2>1 DEF RestAsDeclared, Value, RailInv, DriverInv, RP!RegulatorInv
  <2>4. out = enabled \/ badset
    BY <2>2 DEF RailInv, DriverInv, RP!TurnsInv, RP!OutputInv, RP!AtRest, RP!Actors, RP!Caller,
                RP!Worker, RP!Boot
  <2>5. cbs = RP!Armed(enabled)
    BY <2>2 DEF RailInv, DriverInv, RP!RegulatorInv, RP!ArmInv, RP!OnTheWay, RP!Onward, RP!AtRest,
                RP!Actors, RP!Caller, RP!Worker, RP!Boot
  <2> QED BY <2>3, <2>4, <2>5
<1> QED BY <1>1, RailInvariant, RestIsDeclared, PTL
=============================================================================
