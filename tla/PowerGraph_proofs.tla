--------------------------- MODULE PowerGraph_proofs ---------------------------
(***************************************************************************)
(* Proofs about the power graph, for every graph, every set of devices and *)
(* clients, whether or not clients preempt the task.                       *)
(***************************************************************************)
EXTENDS PowerGraph, FaultLog_proofs

(* A declared transition, taken apart.                                       *)
LEMMA TransitionFacts ==
  ASSUME NEW t \in TransitionIds
  PROVE  /\ Transitions[t].initial \in States /\ Transitions[t].target \in States
         /\ Transitions[t].stages \in Seq(StageType)
         /\ Len(Transitions[t].stages) \in Nat \ {0}
         /\ t # None
  <1>1. Transitions \in Seq(TransitionType)
    BY GraphAssumption
  <1>2. Transitions[t] \in TransitionType
    BY <1>1 DEF TransitionIds
  <1>3. Transitions[t].stages # << >>
    BY GraphAssumption
  <1>4. Transitions[t].stages \in Seq(StageType)
    BY <1>2 DEF TransitionType
  <1>5. Len(Transitions[t].stages) \in Nat \ {0}
    BY <1>3, <1>4
  <1> QED
    BY <1>2, <1>4, <1>5 DEF TransitionIds, TransitionType, None

LEMMA StageFacts ==
  ASSUME NEW t \in TransitionIds, NEW j \in 1 .. Len(Transitions[t].stages)
  PROVE  /\ Transitions[t].stages[j].dev \in Devs
         /\ Transitions[t].stages[j].state \in DevStates
  <1>1. Transitions[t].stages \in Seq(StageType)
    BY TransitionFacts
  <1>2. Transitions[t].stages[j] \in StageType
    BY <1>1
  <1> QED
    BY <1>2 DEF StageType

(* The current stage names a device and a value for it.                      *)
LEMMA CurrentFacts ==
  ASSUME TypeOK, transition # None, stage \in Stages(transition)
  PROVE  /\ Current.dev \in Devs /\ Current.state \in DevStates
         /\ transition \in TransitionIds
         /\ stage \in Nat /\ stage + 1 \in 1 .. Len(Transitions[transition].stages) + 1
  <1>1. transition \in TransitionIds
    BY DEF TypeOK, TaskTypeOK
  <1>2. Current \in StageType
    BY <1>1, TransitionFacts DEF Current, Stages
  <1> QED
    BY <1>1, <1>2, TransitionFacts DEF Stages, StageType

(* Whatever the graph is doing, the fault it would log is an entry.          *)
LEMMA EntryFacts ==
  ASSUME TypeOK, NEW d \in Devs
  PROVE  [transition |-> transition, stage |-> stage, spec |-> d] \in Entries
  <1>1. CASE transition = None
    BY <1>1, EntriesAssumption DEF TypeOK, TaskTypeOK
  <1>2. CASE transition # None
    <2>1. transition \in TransitionIds
      BY <1>2 DEF TypeOK, TaskTypeOK
    <2>2. stage \in {None} \cup Stages(transition) \cup {Len(Transitions[transition].stages) + 1}
      BY <1>2, <2>1 DEF TypeOK, TaskTypeOK
    <2> QED
      BY <1>2, <2>1, <2>2, EntriesAssumption
  <1> QED
    BY <1>1, <1>2

(* A callback writes the request, the work item and the log only, and keeps  *)
(* their types.                                                              *)
LEMMA CallbackFacts ==
  ASSUME TypeOK, NEW d \in Devs, Callback(d)
  PROVE  newState' \in States /\ queued' \in BOOLEAN /\ LogTypeOK'
  <1>1. LogTypeOK /\ newState \in States /\ queued \in BOOLEAN /\ SafeState \in States
    BY GraphAssumption DEF TypeOK, TaskTypeOK
  <1>2. CASE UNCHANGED logVars
    <2>1. LogTypeOK'
      BY <1>1, <1>2 DEF LogTypeOK, logVars
    <2> QED
      BY <1>1, <2>1 DEF Callback
  <1>3. CASE PutFault([transition |-> transition, stage |-> stage, spec |-> d])
    <2>1. LogTypeOK'
      BY <1>1, <1>3, EntryFacts, PutFaultTypeOK
    <2> QED
      BY <1>1, <2>1 DEF Callback
  <1> QED
    BY <1>2, <1>3 DEF Callback

LEMMA LogUnchanged ==
  ASSUME LogTypeOK, UNCHANGED logVars
  PROVE  LogTypeOK'
  BY DEF LogTypeOK, logVars

-----------------------------------------------------------------------------
LEMMA InitTypeOK == Init => TypeOK
  <1> SUFFICES ASSUME Init PROVE TypeOK
    OBVIOUS
  <1>1. TaskTypeOK
    BY GraphAssumption DEF Init, TaskTypeOK, WorkerPcs
  <1>2. DevTypeOK
    BY DEF Init, DevTypeOK
  <1>3. ClientTypeOK
    BY DEF Init, ClientTypeOK
  <1>4. CountsOK
    BY GraphAssumption DEF Init, CountsOK
  <1>5. LogTypeOK
    BY LogInitInv DEF Init, LogInv
  <1> QED
    BY <1>1, <1>2, <1>3, <1>4, <1>5 DEF TypeOK

(* A step of the task that calls no device.                                  *)
LEMMA TaskKeepsType ==
  ASSUME TypeOK,
         Begin \/ Settled \/ Enter \/ Start \/ NoRoute \/ StillChanging \/ StageFailed
           \/ StageReached \/ StageWrong \/ Finish \/ Close \/ Abort \/ Drop \/ ToSafe
  PROVE  TypeOK'
  <1>1. UNCHANGED <<devVars, clientVars, fails, logVars>>
    BY DEF Begin, Settled, Enter, Start, NoRoute, StillChanging, StageFailed, StageReached,
           StageWrong, Finish, Close, Abort, Drop, ToSafe
  <1>2. DevTypeOK' /\ ClientTypeOK' /\ CountsOK' /\ LogTypeOK'
    BY <1>1, LogUnchanged
    DEF TypeOK, DevTypeOK, ClientTypeOK, CountsOK, devVars, clientVars, Known
  <1>3. TaskTypeOK'
    <2> USE DEF TypeOK, TaskTypeOK, WorkerPcs, taskVars
    <2>1. CASE Begin \/ Settled \/ StillChanging
      BY <2>1 DEF Begin, Settled, StillChanging
    <2>2. CASE Enter
      BY <2>2 DEF Enter
    <2>3. CASE Start
      BY <2>3, SearchAssumption, TransitionFacts DEF Start, Stages
    <2>4. CASE NoRoute \/ ToSafe
      BY <2>4, GraphAssumption DEF NoRoute, ToSafe
    <2>5. CASE StageFailed \/ StageWrong
      BY <2>5 DEF StageFailed, StageWrong
    <2>6. CASE StageReached
      <3>1. transition \in TransitionIds /\ stage \in Stages(transition)
        BY <2>6 DEF StageReached
      <3>2. /\ stage' = stage + 1 /\ UNCHANGED <<state, newState, transition, queued>>
            /\ pc' = IF stage + 1 \in Stages(transition) THEN "stage" ELSE "finish"
        BY <2>6 DEF StageReached
      <3>3. \/ stage + 1 \in Stages(transition)
            \/ stage + 1 = Len(Transitions[transition].stages) + 1
        BY <3>1, TransitionFacts DEF Stages
      <3>4. transition # None
        BY <3>1, TransitionFacts
      <3>5. CASE stage + 1 \in Stages(transition)
        BY <3>1, <3>2, <3>4, <3>5
      <3>6. CASE stage + 1 \notin Stages(transition)
        BY <3>1, <3>2, <3>3, <3>4, <3>6
      <3> QED
        BY <3>5, <3>6
    <2>7. CASE Finish \/ Abort
      BY <2>7, TransitionFacts DEF Finish, Abort
    <2>8. CASE Close \/ Drop
      BY <2>8 DEF Close, Drop
    <2> QED
      BY <2>1, <2>2, <2>3, <2>4, <2>5, <2>6, <2>7, <2>8
  <1> QED
    BY <1>2, <1>3 DEF TypeOK
(* A step of the task that calls value_set or logs a fault.                  *)
LEMMA SetKeepsType ==
  ASSUME TypeOK,
         (\E outcome \in {"idle", "failed"} : SetDone(outcome)) \/ SetStarted \/ SetRefused
           \/ LogFault
  PROVE  TypeOK'
  <1>1. transition # None /\ stage \in Stages(transition) /\ transition \in TransitionIds
    BY DEF SetDone, SetStarted, SetRefused, LogFault, TypeOK, TaskTypeOK
  <1>2. Current.dev \in Devs /\ Current.state \in DevStates
    BY <1>1, CurrentFacts
  <1>3. UNCHANGED clientVars /\ ClientTypeOK'
    <2>1. UNCHANGED clientVars
      BY DEF SetDone, SetStarted, SetRefused, LogFault
    <2> QED
      BY <2>1 DEF TypeOK, ClientTypeOK, clientVars, Known
  <1>4. CASE \E outcome \in {"idle", "failed"} : SetDone(outcome)
    <2> PICK outcome \in {"idle", "failed"} : SetDone(outcome)
      BY <1>4
    <2>1. newState' \in States /\ queued' \in BOOLEAN /\ LogTypeOK'
      BY <1>2, CallbackFacts DEF SetDone
    <2>2. TaskTypeOK'
      BY <1>1, <2>1 DEF SetDone, TypeOK, TaskTypeOK, WorkerPcs
    <2>3. DevTypeOK'
      BY <1>2 DEF SetDone, TypeOK, DevTypeOK
    <2>4. CountsOK'
      BY <1>3, GraphAssumption DEF SetDone, TypeOK, CountsOK, clientVars
    <2> QED
      BY <1>3, <2>1, <2>2, <2>3, <2>4 DEF TypeOK
  <1>5. CASE SetStarted
    <2>1. TaskTypeOK'
      BY <1>1, <1>5 DEF SetStarted, TypeOK, TaskTypeOK, WorkerPcs, taskVars
    <2>2. DevTypeOK'
      BY <1>2, <1>5 DEF SetStarted, TypeOK, DevTypeOK
    <2>3. CountsOK' /\ LogTypeOK'
      BY <1>5, LogUnchanged DEF SetStarted, TypeOK, CountsOK, clientVars
    <2> QED
      BY <1>3, <2>1, <2>2, <2>3 DEF TypeOK
  <1>6. CASE SetRefused
    <2>1. TaskTypeOK'
      BY <1>1, <1>6 DEF SetRefused, TypeOK, TaskTypeOK, WorkerPcs, taskVars
    <2>2. DevTypeOK'
      BY <1>6 DEF SetRefused, TypeOK, DevTypeOK, devVars
    <2>3. CountsOK' /\ LogTypeOK'
      BY <1>6, LogUnchanged, GraphAssumption DEF SetRefused, TypeOK, CountsOK, clientVars
    <2> QED
      BY <1>3, <2>1, <2>2, <2>3 DEF TypeOK
  <1>7. CASE LogFault
    <2>1. TaskTypeOK'
      BY <1>1, <1>7 DEF LogFault, TypeOK, TaskTypeOK, WorkerPcs, taskVars
    <2>2. DevTypeOK' /\ CountsOK'
      BY <1>7 DEF LogFault, TypeOK, DevTypeOK, CountsOK, devVars, clientVars
    <2>3. LogTypeOK'
      BY <1>2, <1>7, EntryFacts, PutFaultTypeOK DEF LogFault, TypeOK
    <2> QED
      BY <1>3, <2>1, <2>2, <2>3 DEF TypeOK
  <1> QED
    BY <1>4, <1>5, <1>6, <1>7

LEMMA DeviceKeepsType ==
  ASSUME TypeOK, NEW d \in Devs, Device(d)
  PROVE  TypeOK'
  <1>1. Callback(d) /\ UNCHANGED <<state, transition, stage, pc, value, clientVars>>
    BY DEF Device, DevFinish, DevFail
  <1>2. newState' \in States /\ queued' \in BOOLEAN /\ LogTypeOK'
    BY <1>1, CallbackFacts
  <1>3. TaskTypeOK' /\ ClientTypeOK'
    BY <1>1, <1>2 DEF TypeOK, TaskTypeOK, ClientTypeOK, clientVars, Known
  <1>4. DevTypeOK' /\ CountsOK'
    BY <1>1, GraphAssumption
    DEF Device, DevFinish, DevFail, TypeOK, DevTypeOK, CountsOK, clientVars
  <1> QED
    BY <1>2, <1>3, <1>4 DEF TypeOK

LEMMA ClientKeepsType ==
  ASSUME TypeOK, NEW c \in Clients, Client(c)
  PROVE  TypeOK'
  <1>1. /\ UNCHANGED <<state, transition, stage, pc, devVars, fails, logVars>>
        /\ DevTypeOK' /\ LogTypeOK'
    <2>1. UNCHANGED <<state, transition, stage, pc, devVars, fails, logVars>>
      BY DEF Client, SetCheck, SetCommit, SetSubmit, taskVars
    <2> QED
      BY <2>1, LogUnchanged DEF TypeOK, DevTypeOK, devVars
  <1>2. CASE \E v \in Requests : SetCheck(c, v)
    <2>1. TaskTypeOK'
      BY <1>1, <1>2 DEF SetCheck, TypeOK, TaskTypeOK, taskVars
    <2>2. CountsOK'
      BY <1>1, <1>2, GraphAssumption DEF SetCheck, TypeOK, CountsOK
    <2>3. ClientTypeOK'
      <3>1. PICK v \in Requests : SetCheck(c, v)
        BY <1>2
      <3>2. /\ request' = [request EXCEPT ![c] = v] /\ cpc' = [cpc EXCEPT ![c] = "commit"]
            /\ Known(v)
        BY <3>1 DEF SetCheck
      <3> QED
        BY <3>2 DEF TypeOK, ClientTypeOK, Known
    <2> QED
      BY <1>1, <2>1, <2>2, <2>3 DEF TypeOK
  <1>3. CASE SetCommit(c)
    <2>1. TaskTypeOK'
      BY <1>1, <1>3 DEF SetCommit, TypeOK, TaskTypeOK, ClientTypeOK, Known
    <2>2. ClientTypeOK' /\ CountsOK'
      BY <1>1, <1>3 DEF SetCommit, TypeOK, ClientTypeOK, CountsOK, Known
    <2> QED
      BY <1>1, <2>1, <2>2 DEF TypeOK
  <1>4. CASE SetSubmit(c)
    <2>1. TaskTypeOK'
      BY <1>1, <1>4 DEF SetSubmit, TypeOK, TaskTypeOK, taskVars
    <2>2. ClientTypeOK' /\ CountsOK'
      BY <1>1, <1>4 DEF SetSubmit, TypeOK, ClientTypeOK, CountsOK, Known
    <2> QED
      BY <1>1, <2>1, <2>2 DEF TypeOK
  <1> QED
    BY <1>2, <1>3, <1>4 DEF Client

LEMMA StutterKeepsType ==
  ASSUME TypeOK, UNCHANGED vars
  PROVE  TypeOK'
  BY LogUnchanged
  DEF TypeOK, TaskTypeOK, DevTypeOK, ClientTypeOK, CountsOK, Known, vars, taskVars, devVars,
      clientVars

LEMMA NextKeepsType == TypeOK /\ [Next]_vars => TypeOK'
  <1> SUFFICES ASSUME TypeOK, [Next]_vars PROVE TypeOK'
    OBVIOUS
  <1>1. CASE Task
    BY <1>1, TaskKeepsType, SetKeepsType DEF Task
  <1>2. CASE \E d \in Devs : Device(d)
    BY <1>2, DeviceKeepsType
  <1>3. CASE \E c \in Clients : Client(c)
    BY <1>3, ClientKeepsType
  <1>4. CASE UNCHANGED vars
    BY <1>4, StutterKeepsType
  <1> QED
    BY <1>1, <1>2, <1>3, <1>4 DEF Next

(* The stage the task reads is always one of a declared transition, the      *)
(* state and the request are states of the graph, and the log is well        *)
(* formed, whatever callbacks and clients do in between.                     *)
THEOREM TypeCorrect == Spec => []TypeOK
  <1> QED
    BY InitTypeOK, NextKeepsType, PTL DEF Spec
-----------------------------------------------------------------------------
(* One pending device.  OnePending alone is not inductive: where the task    *)
(* leaves a stage, and where it calls value_set, it must be known that the   *)
(* device of the stage has come to rest.  No device whose get fails is ever  *)
(* set, so none of them is pending.                                          *)
Steady ==
  /\ pc \in {"set", "fault", "abort", "drop"} => status[Current.dev] # "pending"
  /\ pc = "set" => Current.dev \notin Broken

OnlyReadable == \A d \in Devs : status[d] = "pending" => d \notin Broken

PendingInv == OnePending /\ Steady /\ OnlyReadable

LEMMA InitPendingInv == Init => PendingInv
  BY DEF Init, PendingInv, OnePending, Steady, OnlyReadable

(* A step that moves neither the stage nor a device keeps the invariant when *)
(* it does not come to value_set or to the error branch unprepared.          *)
LEMMA PendingFrame ==
  ASSUME PendingInv, UNCHANGED <<transition, stage, status>>,
         pc' \in {"set", "fault", "abort", "drop"} =>
           pc \in {"set", "fault", "abort", "drop"} \/ status[Current.dev] # "pending",
         pc' = "set" => pc = "set" \/ Current.dev \notin Broken
  PROVE  PendingInv'
  BY DEF PendingInv, OnePending, Steady, OnlyReadable, InFlight, Current

(* The steps of the task that are at a stage know its device.                *)
LEMMA TaskKeepsPending ==
  ASSUME TypeOK, PendingInv, Task
  PROVE  PendingInv'
  <1>1. CASE Begin \/ Settled \/ Enter \/ NoRoute \/ StillChanging \/ Finish \/ ToSafe
    BY <1>1, PendingFrame
    DEF Begin, Settled, Enter, NoRoute, StillChanging, Finish, ToSafe, taskVars, devVars
  <1>2. CASE StageFailed \/ StageWrong \/ SetRefused \/ LogFault \/ Abort
    BY <1>2, PendingFrame
    DEF StageFailed, StageWrong, StageReadable, SetRefused, LogFault, Abort, taskVars, devVars
  <1>3. CASE Start \/ StageReached \/ Close \/ Drop
    <2>1. UNCHANGED status /\ pc' \in {"stage", "finish", "check", "safe"}
      BY <1>3 DEF Start, StageReached, Close, Drop, devVars
    <2>2. \A d \in Devs : status[d] # "pending"
      <3>1. CASE Start
        BY <3>1 DEF Start, TypeOK, TaskTypeOK, PendingInv, OnePending, InFlight
      <3>2. CASE StageReached
        BY <3>2 DEF StageReached, StageReadable, PendingInv, OnePending
      <3>3. CASE Close
        <4>1. stage = Len(Transitions[transition].stages) + 1 /\ transition \in TransitionIds
          BY <3>3 DEF Close, TypeOK, TaskTypeOK
        <4>2. ~InFlight
          BY <4>1, TransitionFacts DEF InFlight, Stages
        <4> QED
          BY <4>2 DEF PendingInv, OnePending
      <3>4. CASE Drop
        BY <3>4 DEF Drop, PendingInv, OnePending, Steady
      <3> QED
        BY <1>3, <3>1, <3>2, <3>3, <3>4
    <2> QED
      BY <2>1, <2>2 DEF PendingInv, OnePending, Steady, OnlyReadable
  <1>4. CASE (\E outcome \in {"idle", "failed"} : SetDone(outcome)) \/ SetStarted
    <2>1. /\ transition # None /\ stage \in Stages(transition)
          /\ Current.dev \notin Broken /\ pc' = "stage"
          /\ UNCHANGED <<transition, stage>>
      BY <1>4 DEF SetDone, SetStarted, PendingInv, Steady, TypeOK, TaskTypeOK, taskVars
    <2>2. \A d \in Devs : status[d] # "pending"
      BY <1>4 DEF SetDone, SetStarted, PendingInv, OnePending, Steady
    <2>3. \A d \in Devs : status'[d] = "pending" => d = Current.dev
      BY <1>4, <2>2 DEF SetDone, SetStarted, TypeOK, DevTypeOK
    <2> QED
      BY <2>1, <2>3 DEF PendingInv, OnePending, Steady, OnlyReadable, InFlight, Current
  <1> QED
    BY <1>1, <1>2, <1>3, <1>4 DEF Task

LEMMA DeviceKeepsPending ==
  ASSUME TypeOK, PendingInv, NEW d \in Devs, Device(d)
  PROVE  PendingInv'
  <1>1. /\ UNCHANGED <<transition, stage, pc>>
        /\ \A e \in Devs : status'[e] = "pending" => status[e] = "pending"
    BY DEF Device, DevFinish, DevFail, TypeOK, DevTypeOK
  <1>2. UNCHANGED Current /\ (InFlight => Current.dev \in Devs)
    BY <1>1, CurrentFacts DEF Current, InFlight
  <1>3. pc \in {"set", "fault", "abort", "drop"} => Current.dev \in Devs
    BY CurrentFacts DEF TypeOK, TaskTypeOK
  <1> QED
    BY <1>1, <1>2, <1>3 DEF PendingInv, OnePending, Steady, OnlyReadable, InFlight

LEMMA NextKeepsPending == TypeOK /\ PendingInv /\ [Next]_vars => PendingInv'
  <1> SUFFICES ASSUME TypeOK, PendingInv, [Next]_vars PROVE PendingInv'
    OBVIOUS
  <1>1. CASE Task
    BY <1>1, TaskKeepsPending
  <1>2. CASE \E d \in Devs : Device(d)
    BY <1>2, DeviceKeepsPending
  <1>3. CASE \E c \in Clients : Client(c)
    BY <1>3, PendingFrame DEF Client, SetCheck, SetCommit, SetSubmit, taskVars, devVars
  <1>4. CASE UNCHANGED vars
    BY <1>4, PendingFrame DEF vars, taskVars, devVars
  <1> QED
    BY <1>1, <1>2, <1>3, <1>4 DEF Next

LEMMA PendingInvariant == Spec => []PendingInv
  <1> QED
    BY InitPendingInv, NextKeepsPending, TypeCorrect, PTL DEF Spec

(* At most one device is on the way, and it is the one of the current stage  *)
(* (power_graph.c:334-338 is the only place the task waits for a device).    *)
THEOREM AtMostOnePending == Spec => []OnePending
  <1>1. PendingInv => OnePending
    BY DEF PendingInv
  <1> QED
    BY <1>1, PendingInvariant, PTL

-----------------------------------------------------------------------------
LEMMA InitNoLostWakeup == Init => NoLostWakeup
  BY DEF Init, NoLostWakeup

LEMMA TaskKeepsWakeup ==
  ASSUME TypeOK, NoLostWakeup, Task
  PROVE  NoLostWakeup'
  <1>1. CASE Settled
    BY <1>1 DEF Settled, taskVars, NoLostWakeup
  <1>2. CASE StillChanging
    BY <1>2 DEF StillChanging, taskVars, devVars, NoLostWakeup, InFlight, Current, TypeOK, TaskTypeOK
  <1>3. CASE ~Settled /\ ~StillChanging
    <2>1. pc' # "idle"
      BY <1>3 DEF Task, Begin, Enter, Start, NoRoute, StageFailed, StageReached, StageWrong,
                  SetDone, SetStarted, SetRefused, Finish, Close, LogFault, Abort, Drop, ToSafe
    <2> QED
      BY <2>1 DEF NoLostWakeup
  <1> QED
    BY <1>1, <1>2, <1>3

(* The callback of a device that was on the way submits the work; a failure  *)
(* of a device at rest changes the request only together with a submit.      *)
LEMMA DeviceKeepsWakeup ==
  ASSUME Deaf \subseteq Broken, TypeOK, PendingInv, NoLostWakeup, NEW d \in Devs, Device(d)
  PROVE  NoLostWakeup'
  <1>1. Callback(d) /\ UNCHANGED <<state, transition, stage, pc, cpc>>
    BY DEF Device, DevFinish, DevFail, clientVars
  <1>2. CASE d \notin Deaf
    BY <1>1, <1>2 DEF Callback, NoLostWakeup
  <1>3. CASE d \in Deaf
    <2>1. UNCHANGED <<newState, queued>>
      BY <1>1, <1>3 DEF Callback
    <2>2. status[d] # "pending"
      BY <1>3 DEF PendingInv, OnlyReadable
    <2>3. InFlight /\ status[Current.dev] = "pending" => status'[Current.dev] = "pending"
      BY <2>2, CurrentFacts DEF Device, DevFinish, DevFail, TypeOK, DevTypeOK, InFlight
    <2> QED
      BY <1>1, <2>1, <2>3 DEF NoLostWakeup, InFlight, Current
  <1> QED
    BY <1>2, <1>3

LEMMA ClientKeepsWakeup ==
  ASSUME TypeOK, NoLostWakeup, NEW c \in Clients, Client(c)
  PROVE  NoLostWakeup'
  <1>1. UNCHANGED <<state, transition, stage, pc, status>>
    BY DEF Client, SetCheck, SetCommit, SetSubmit, taskVars, devVars
  <1>2. UNCHANGED <<InFlight, Current>>
    BY <1>1 DEF InFlight, Current
  <1>3. CASE \E v \in Requests : SetCheck(c, v)
    <2>1. UNCHANGED <<newState, queued>> /\ cpc[c] = "idle" /\ cpc' = [cpc EXCEPT ![c] = "commit"]
      BY <1>3 DEF SetCheck, taskVars
    <2>2. \A e \in Clients : cpc[e] = "submit" => cpc'[e] = "submit"
      BY <2>1 DEF TypeOK, ClientTypeOK
    <2> QED
      BY <1>1, <1>2, <2>1, <2>2 DEF NoLostWakeup
  <1>4. CASE SetCommit(c)
    BY <1>4 DEF SetCommit, NoLostWakeup, TypeOK, ClientTypeOK
  <1>5. CASE SetSubmit(c)
    BY <1>5 DEF SetSubmit, NoLostWakeup
  <1> QED
    BY <1>3, <1>4, <1>5 DEF Client

(* No request is ever forgotten, as long as a device that could not be       *)
(* subscribed to cannot be read either: a graph with a request to carry out  *)
(* runs, is queued, is about to be, or waits for a device whose callback     *)
(* will submit the work (power_graph.c:303-338, 460-478, 568-570).           *)
THEOREM WakeupNeverLost ==
  ASSUME Deaf \subseteq Broken
  PROVE  Spec => []NoLostWakeup
  <1>1. TypeOK /\ PendingInv /\ NoLostWakeup /\ [Next]_vars => NoLostWakeup'
    <2> SUFFICES ASSUME TypeOK, PendingInv, NoLostWakeup, [Next]_vars PROVE NoLostWakeup'
      OBVIOUS
    <2>1. CASE UNCHANGED vars
      BY <2>1 DEF vars, taskVars, devVars, clientVars, NoLostWakeup, InFlight, Current
    <2> QED
      BY <2>1, TaskKeepsWakeup, DeviceKeepsWakeup, ClientKeepsWakeup DEF Next
  <1> QED
    BY <1>1, InitNoLostWakeup, TypeCorrect, PendingInvariant, PTL DEF Spec
-----------------------------------------------------------------------------
LEMMA InitStageOrder == Init => StageOrder
  BY DEF Init, StageOrder

(* A step that leaves the transition, the stage and what the devices are set *)
(* to, and starts no device, keeps the order.                                *)
LEMMA OrderFrame ==
  ASSUME StageOrder, TypeOK, UNCHANGED <<transition, stage, value>>,
         \A d \in Devs : status'[d] = "pending" => status[d] = "pending"
  PROVE  StageOrder'
  <1> SUFFICES ASSUME transition # None, NEW j \in 1 .. stage - 1,
                      ~\E k \in j + 1 .. stage :
                         /\ k <= Len(Transitions[transition].stages)
                         /\ Transitions[transition].stages[k].dev = Transitions[transition].stages[j].dev
               PROVE  /\ value[Transitions[transition].stages[j].dev] = Transitions[transition].stages[j].state
                      /\ status'[Transitions[transition].stages[j].dev] # "pending"
    BY DEF StageOrder
  <1>1. /\ value[Transitions[transition].stages[j].dev] = Transitions[transition].stages[j].state
        /\ status[Transitions[transition].stages[j].dev] # "pending"
    BY DEF StageOrder
  <1>2. transition \in TransitionIds /\ j \in 1 .. Len(Transitions[transition].stages)
    BY TransitionFacts DEF TypeOK, TaskTypeOK, Stages
  <1>3. Transitions[transition].stages[j].dev \in Devs
    BY <1>2, StageFacts
  <1> QED
    BY <1>1, <1>3

LEMMA TaskKeepsOrder ==
  ASSUME TypeOK, StageOrder, Task
  PROVE  StageOrder'
  <1>1. CASE Begin \/ Settled \/ Enter \/ NoRoute \/ StillChanging \/ StageFailed \/ StageWrong
               \/ SetRefused \/ Finish \/ LogFault \/ Abort \/ ToSafe
    BY <1>1, OrderFrame
    DEF Begin, Settled, Enter, NoRoute, StillChanging, StageFailed, StageWrong, SetRefused,
        Finish, LogFault, Abort, ToSafe, taskVars, devVars
  <1>2. CASE Start
    BY <1>2 DEF Start, StageOrder
  <1>3. CASE Close \/ Drop
    BY <1>3 DEF Close, Drop, StageOrder
  <1>4. CASE StageReached
    <2>1. /\ transition \in TransitionIds /\ stage \in 1 .. Len(Transitions[transition].stages)
          /\ transition # None
      BY <1>4 DEF StageReached, TypeOK, TaskTypeOK, Stages
    <2>2. stage \in Nat /\ stage' = stage + 1 /\ UNCHANGED <<transition, value, status>>
      BY <1>4, <2>1, TransitionFacts DEF StageReached, devVars
    <2>3. /\ value[Transitions[transition].stages[stage].dev] = Transitions[transition].stages[stage].state
          /\ status[Transitions[transition].stages[stage].dev] # "pending"
      BY <1>4 DEF StageReached, StageReadable, Current
    <2>4. ASSUME NEW j \in 1 .. stage' - 1
          PROVE  \/ /\ value[Transitions[transition].stages[j].dev] = Transitions[transition].stages[j].state
                    /\ status[Transitions[transition].stages[j].dev] # "pending"
                 \/ \E k \in j + 1 .. stage' :
                      /\ k <= Len(Transitions[transition].stages)
                      /\ Transitions[transition].stages[k].dev = Transitions[transition].stages[j].dev
      <3>1. CASE j = stage
        BY <2>3, <3>1
      <3>2. CASE j # stage
        <4>1. j \in 1 .. stage - 1
          BY <2>2, <3>2
        <4>2. j + 1 .. stage \subseteq j + 1 .. stage'
          BY <2>2, <4>1
        <4> QED
          BY <2>1, <4>1, <4>2 DEF StageOrder
      <3> QED
        BY <3>1, <3>2
    <2> QED
      BY <2>2, <2>4 DEF StageOrder
  <1>5. CASE (\E outcome \in {"idle", "failed"} : SetDone(outcome)) \/ SetStarted
    <2>1. /\ transition \in TransitionIds /\ stage \in 1 .. Len(Transitions[transition].stages)
          /\ transition # None
      BY <1>5 DEF SetDone, SetStarted, TypeOK, TaskTypeOK, Stages
    <2>2. /\ UNCHANGED <<transition, stage>>
          /\ \A d \in Devs : d # Current.dev => value'[d] = value[d] /\ status'[d] = status[d]
      BY <1>5 DEF SetDone, SetStarted, TypeOK, DevTypeOK, taskVars
    <2>3. ASSUME NEW j \in 1 .. stage - 1
          PROVE  \/ /\ value'[Transitions[transition].stages[j].dev] = Transitions[transition].stages[j].state
                    /\ status'[Transitions[transition].stages[j].dev] # "pending"
                 \/ \E k \in j + 1 .. stage :
                      /\ k <= Len(Transitions[transition].stages)
                      /\ Transitions[transition].stages[k].dev = Transitions[transition].stages[j].dev
      <3>1. stage \in j + 1 .. stage /\ stage <= Len(Transitions[transition].stages)
        BY <2>1, TransitionFacts
      <3>2. CASE Transitions[transition].stages[j].dev = Current.dev
        BY <3>1, <3>2 DEF Current
      <3>3. CASE Transitions[transition].stages[j].dev # Current.dev
        <4>1. j \in 1 .. Len(Transitions[transition].stages)
          BY <2>1, TransitionFacts
        <4>2. Transitions[transition].stages[j].dev \in Devs
          BY <2>1, <4>1, StageFacts
        <4> QED
          BY <2>1, <2>2, <3>3, <4>2 DEF StageOrder
      <3> QED
        BY <3>2, <3>3
    <2> QED
      BY <2>2, <2>3 DEF StageOrder
  <1> QED
    BY <1>1, <1>2, <1>3, <1>4, <1>5 DEF Task

(* "sequentially turned on or off": no stage is passed before its device has *)
(* its value and is at rest, and no device of a passed stage is touched      *)
(* again but by a later stage (power_graph.c:334-385).                       *)
THEOREM StagesInOrder == Spec => []StageOrder
  <1>1. TypeOK /\ StageOrder /\ [Next]_vars => StageOrder'
    <2> SUFFICES ASSUME TypeOK, StageOrder, [Next]_vars PROVE StageOrder'
      OBVIOUS
    <2>1. CASE Task
      BY <2>1, TaskKeepsOrder
    <2>2. ASSUME NEW d \in Devs, Device(d) PROVE StageOrder'
      BY <2>2, OrderFrame DEF Device, DevFinish, DevFail, TypeOK, DevTypeOK
    <2>3. ASSUME NEW c \in Clients, Client(c) PROVE StageOrder'
      BY <2>3, OrderFrame DEF Client, SetCheck, SetCommit, SetSubmit, taskVars, devVars
    <2>4. CASE UNCHANGED vars
      BY <2>4, OrderFrame DEF vars, taskVars, devVars
    <2> QED
      BY <2>1, <2>2, <2>3, <2>4 DEF Next
  <1> QED
    BY <1>1, InitStageOrder, TypeCorrect, PTL DEF Spec

-----------------------------------------------------------------------------
(* What the steps that write the state rely on: a current transition starts  *)
(* at the state until its target has been written, and when the error branch *)
(* comes to write it, the newest entry of the log is of that transition, a   *)
(* callback's that came in between included.                                 *)
Departs ==
  transition # None /\ pc \notin {"close", "drop"} => Transitions[transition].initial = state

Logged == pc = "abort" => faults[lastFault].transition = transition

RouteInv == Departs /\ Logged

LEMMA InitRouteInv == Init => RouteInv
  BY DEF Init, RouteInv, Departs, Logged

LEMMA NewestIs ==
  ASSUME LogTypeOK, NEW e \in Entries, PutFault(e)
  PROVE  faults'[lastFault'] = e
  BY NextSlotInSlots DEF PutFault, LogTypeOK

LEMMA TaskKeepsRoute ==
  ASSUME TypeOK, RouteInv, Task
  PROVE  RouteInv'
  <1>1. CASE Start
    BY <1>1, SearchAssumption DEF Start, RouteInv, Departs, Logged, TypeOK, TaskTypeOK
  <1>2. CASE Finish \/ Abort
    BY <1>2 DEF Finish, Abort, RouteInv, Departs, Logged
  <1>3. CASE Close \/ Drop
    BY <1>3 DEF Close, Drop, RouteInv, Departs, Logged
  <1>4. CASE LogFault
    <2>1. UNCHANGED <<state, transition, stage>> /\ pc = "fault" /\ pc' = "abort"
      BY <1>4 DEF LogFault, taskVars
    <2>2. Current.dev \in Devs
      BY <2>1, CurrentFacts DEF TypeOK, TaskTypeOK
    <2>3. faults'[lastFault'] = [transition |-> transition, stage |-> stage, spec |-> Current.dev]
      BY <1>4, <2>2, EntryFacts, NewestIs DEF LogFault, TypeOK
    <2> QED
      BY <2>1, <2>3 DEF RouteInv, Departs, Logged
  <1>5. CASE (\E outcome \in {"idle", "failed"} : SetDone(outcome)) \/ SetStarted \/ SetRefused
    BY <1>5 DEF SetDone, SetStarted, SetRefused, RouteInv, Departs, Logged, taskVars
  <1>6. CASE Begin \/ Settled \/ Enter \/ NoRoute \/ StillChanging \/ StageFailed \/ StageWrong
               \/ StageReached \/ ToSafe
    BY <1>6
    DEF Begin, Settled, Enter, NoRoute, StillChanging, StageFailed, StageWrong, StageReached,
        ToSafe, taskVars, RouteInv, Departs, Logged, TypeOK, TaskTypeOK
  <1> QED
    BY <1>1, <1>2, <1>3, <1>4, <1>5, <1>6 DEF Task

LEMMA DeviceKeepsRoute ==
  ASSUME TypeOK, RouteInv, NEW d \in Devs, Device(d)
  PROVE  RouteInv'
  <1>1. Callback(d) /\ UNCHANGED <<state, transition, stage, pc>>
    BY DEF Device, DevFinish, DevFail
  <1>2. \/ UNCHANGED logVars
        \/ faults'[lastFault'] = [transition |-> transition, stage |-> stage, spec |-> d]
    BY <1>1, EntryFacts, NewestIs DEF Callback, TypeOK
  <1> QED
    BY <1>1, <1>2 DEF RouteInv, Departs, Logged, logVars

LEMMA NextKeepsRoute == TypeOK /\ RouteInv /\ [Next]_vars => RouteInv'
  <1> SUFFICES ASSUME TypeOK, RouteInv, [Next]_vars PROVE RouteInv'
    OBVIOUS
  <1>1. CASE Task
    BY <1>1, TaskKeepsRoute
  <1>2. CASE \E d \in Devs : Device(d)
    BY <1>2, DeviceKeepsRoute
  <1>3. CASE \E c \in Clients : Client(c)
    BY <1>3 DEF Client, SetCheck, SetCommit, SetSubmit, RouteInv, Departs, Logged, taskVars, logVars
  <1>4. CASE UNCHANGED vars
    BY <1>4 DEF vars, taskVars, logVars, RouteInv, Departs, Logged
  <1> QED
    BY <1>1, <1>2, <1>3, <1>4 DEF Next

(* The state of the graph changes along declared transitions only, and each  *)
(* change is either a transition whose stages have all been passed or one    *)
(* given up with its fault logged (power_graph.c:365-371, 387-393).          *)
THEOREM StateFollowsGraph == Spec => StateChangesAlongTransition
  <1> DEFINE Along ==
        state' # state =>
          /\ transition # None
          /\ Transitions[transition].initial = state
          /\ Transitions[transition].target = state'
          /\ \/ stage > Len(Transitions[transition].stages)
             \/ faults[lastFault].transition = transition
  <1>1. TypeOK /\ RouteInv /\ [Next]_vars => [Along]_vars
    <2> SUFFICES ASSUME TypeOK, RouteInv, Next, state' # state PROVE Along
      OBVIOUS
    <2>1. Finish \/ Abort
      BY DEF Next, Task, Device, Client, Begin, Settled, Enter, Start, NoRoute, StillChanging,
             StageFailed, StageReached, StageWrong, SetDone, SetStarted, SetRefused, Close,
             LogFault, Drop, ToSafe, DevFinish, DevFail, SetCheck, SetCommit, SetSubmit, taskVars
    <2>2. transition # None /\ transition \in TransitionIds
      BY <2>1 DEF Finish, Abort, TypeOK, TaskTypeOK
    <2>3. CASE Finish
      BY <2>2, <2>3, TransitionFacts DEF Finish, TypeOK, TaskTypeOK, RouteInv, Departs
    <2>4. CASE Abort
      BY <2>2, <2>4 DEF Abort, RouteInv, Departs, Logged
    <2> QED
      BY <2>1, <2>3, <2>4
  <1> QED
    BY <1>1, InitRouteInv, NextKeepsRoute, TypeCorrect, PTL DEF Spec, StateChangesAlongTransition

-----------------------------------------------------------------------------
(* While the task works towards a request, nothing makes the request equal   *)
(* to the state under it: callbacks only write it when the two are equal,    *)
(* and a client of lower priority does not run.                              *)
Underway == pc \in {"search", "stage", "set", "fault"} => newState # state

LEMMA NextKeepsUnderway ==
  ASSUME WorkqFirst, TypeOK, Underway, [Next]_vars
  PROVE  Underway'
  <1>1. CASE Task
    BY <1>1
    DEF Task, Begin, Settled, Enter, Start, NoRoute, StillChanging, StageFailed, StageReached,
        StageWrong, SetDone, SetStarted, SetRefused, Finish, Close, LogFault, Abort, Drop, ToSafe,
        Callback, Underway, taskVars
  <1>2. ASSUME NEW d \in Devs, Device(d) PROVE Underway'
    BY <1>2 DEF Device, DevFinish, DevFail, Callback, Underway
  <1>3. ASSUME NEW c \in Clients, Client(c) PROVE Underway'
    BY <1>3 DEF Client, SetCheck, SetCommit, SetSubmit, MayRun, Underway, taskVars
  <1>4. CASE UNCHANGED vars
    BY <1>4 DEF vars, taskVars, Underway
  <1> QED
    BY <1>1, <1>2, <1>3, <1>4 DEF Next

(* The two calls of put_fault exclude each other without a lock, as long as  *)
(* no client preempts the work queue (power_graph.c:387-388, 468-472).       *)
THEOREM LogWritersExclude ==
  ASSUME WorkqFirst
  PROVE  Spec => []LogExclusive
  <1>1. Init => Underway
    BY DEF Init, Underway
  <1>2. Underway => LogExclusive
    BY DEF Underway, LogExclusive
  <1>3. TypeOK /\ Underway /\ [Next]_vars => Underway'
    BY NextKeepsUnderway
  <1> QED
    BY <1>1, <1>2, <1>3, TypeCorrect, PTL DEF Spec
-----------------------------------------------------------------------------
(* The graph uses its log as FaultLog says: every step of the task, of a     *)
(* callback and of a client is one put_fault or leaves the log alone.        *)
THEOREM GraphKeepsLog == Spec => LogSpec
  <1>1. Init => LogInit
    BY DEF Init
  <1>2. TypeOK /\ [Next]_vars => [LogNext]_logVars
    <2> SUFFICES ASSUME TypeOK, [Next]_vars PROVE LogNext \/ UNCHANGED logVars
      OBVIOUS
    <2>1. ASSUME NEW d \in Devs, Callback(d) PROVE LogNext \/ UNCHANGED logVars
      BY <2>1, EntryFacts DEF Callback, LogNext
    <2>2. CASE Task
      <3>1. CASE \E outcome \in {"idle", "failed"} : SetDone(outcome)
        <4>1. pc = "set" /\ Callback(Current.dev)
          BY <3>1 DEF SetDone
        <4> QED
          BY <4>1, <2>1, CurrentFacts DEF TypeOK, TaskTypeOK
      <3>2. CASE LogFault
        <4>1. Current.dev \in Devs
          BY <3>2, CurrentFacts DEF LogFault, TypeOK, TaskTypeOK
        <4> QED
          BY <3>2, <4>1, EntryFacts DEF LogFault, LogNext
      <3>3. CASE ~LogFault /\ ~\E outcome \in {"idle", "failed"} : SetDone(outcome)
        BY <2>2, <3>3
        DEF Task, Begin, Settled, Enter, Start, NoRoute, StillChanging, StageFailed, StageReached,
            StageWrong, SetStarted, SetRefused, Finish, Close, Abort, Drop, ToSafe
      <3> QED
        BY <3>1, <3>2, <3>3
    <2>3. ASSUME NEW d \in Devs, Device(d) PROVE LogNext \/ UNCHANGED logVars
      BY <2>1, <2>3 DEF Device, DevFinish, DevFail
    <2>4. ASSUME NEW c \in Clients, Client(c) PROVE UNCHANGED logVars
      BY <2>4 DEF Client, SetCheck, SetCommit, SetSubmit
    <2>5. CASE UNCHANGED vars
      BY <2>5 DEF vars
    <2> QED
      BY <2>2, <2>3, <2>4, <2>5 DEF Next
  <1> QED
    BY <1>1, <1>2, TypeCorrect, PTL DEF Spec, LogSpec

(* Hence the log of a graph is the bounded history of its faults, newest     *)
(* first, however callbacks and the task interleave.                         *)
THEOREM GraphLogKeepsNewest == Spec => KeepsNewest
  <1> QED
    BY GraphKeepsLog, LogKeepsNewest, PTL
=============================================================================
