------------------------------ MODULE PowerGraph ------------------------------
(***************************************************************************)
(* One power graph of drivers/power_graph/power_graph.c: the task on the   *)
(* system work queue, the value callbacks that can interrupt it, the       *)
(* clients that call power_graph_set, and the devices it switches, as far  *)
(* as value_get, value_set and value_sub show them.                        *)
(*                                                                         *)
(* The worker's program counter cuts power_graph_task at every access to   *)
(* data that a callback or a client can touch in between.  Callbacks come  *)
(* from a work item of the same queue (DevFinish), from an interrupt       *)
(* (DevFail) or from a value_set of the task itself (SetDone).             *)
(***************************************************************************)
EXTENDS FaultLog, FiniteSets

CONSTANTS
  Devs,            \* the values the graph switches, cfg->specs
  States,          \* the state identifiers, cfg->states
  Transitions,     \* cfg->transitions, from index 1
  SafeState,       \* cfg->safe_state
  FirstTransition, \* find_first_transition: [current, new -> index or None]
  DevStates,       \* the values a device can be set to
  Broken,          \* the devices whose get fails with another error
  Deaf,            \* the devices power_graph_init could not subscribe to
  Clients,
  Requests,        \* the value_t clients ask for
  WorkqFirst,      \* TRUE: no client runs while the work item can run
  MaxFails,        \* bound on the failures of devices
  MaxReqs          \* bound on the accepted requests

None == 0          \* NO_STATE as a transition, NO_STAGE as a stage

TransitionIds == 1 .. Len(Transitions)

Stages(t) == 1 .. Len(Transitions[t].stages)

StageType == [dev : Devs, state : DevStates]

TransitionType ==
  [initial : States, target : States, ignore : BOOLEAN, stages : Seq(StageType)]

ASSUME GraphAssumption ==
  /\ SafeState \in States
  /\ States \subseteq 0 .. 254
  /\ Transitions \in Seq(TransitionType)
  /\ \A t \in TransitionIds : Transitions[t].stages # << >>
  /\ Broken \subseteq Devs /\ Deaf \subseteq Devs
  /\ Requests \subseteq Nat
  /\ MaxFails \in Nat /\ MaxReqs \in Nat

(* What the search is known for: it starts where the graph stands.           *)
ASSUME SearchAssumption ==
  /\ FirstTransition \in [States \X States -> TransitionIds \cup {None}]
  /\ \A s \in States \X States :
       FirstTransition[s] # None => Transitions[FirstTransition[s]].initial = s[1]

ASSUME EntriesAssumption ==
  \A d \in Devs, t \in TransitionIds \cup {None} :
    \A k \in {None} \cup (IF t = None THEN {} ELSE Stages(t) \cup {Len(Transitions[t].stages) + 1}) :
      [transition |-> t, stage |-> k, spec |-> d] \in Entries

VARIABLES
  state,      \* data->state
  newState,   \* data->new_state
  transition, \* data->transition
  stage,      \* data->stage
  queued,     \* data->work is on the work queue
  pc,         \* where power_graph_task is
  value,      \* per device: the value it has or is going to
  status,     \* per device: "idle", "pending" (-EAGAIN) or "failed" (-EFAULT)
  cpc,        \* per client: where power_graph_set is
  request,    \* per client: the value that passed the checks
  fails,      \* failures so far
  reqs        \* accepted requests so far

taskVars == <<state, newState, transition, stage>>
devVars == <<value, status>>
clientVars == <<cpc, request, reqs>>
vars == <<taskVars, queued, pc, devVars, clientVars, fails, logVars>>

WorkerPcs == {"idle", "check", "search", "stage", "set", "finish", "close",
              "fault", "abort", "drop", "safe"}

(* data->sub and the callbacks are set up by the initializers and init.      *)
Init ==
  /\ state = SafeState
  /\ newState = SafeState
  /\ transition = None
  /\ stage = None
  /\ queued = FALSE
  /\ pc = "idle"
  /\ value \in [Devs -> DevStates]
  /\ status = [d \in Devs |-> "idle"]
  /\ cpc = [c \in Clients |-> "idle"]
  /\ request = [c \in Clients |-> None]
  /\ fails = 0
  /\ reqs = 0
  /\ LogInit

Current == Transitions[transition].stages[stage]

-----------------------------------------------------------------------------
(* Mutant of Callback: a callback in a transition does not submit the work.  *)
CallbackNoSubmit(d) ==
  IF d \in Deaf \/ newState # state
  THEN UNCHANGED <<newState, queued, logVars>>
  ELSE /\ queued' = TRUE
       /\ PutFault([transition |-> transition, stage |-> stage, spec |-> d])
       /\ newState' = SafeState

(* Mutant of Callback: a fault at rest is logged and the work not submitted.  *)
CallbackFaultNoSubmit(d) ==
  IF d \in Deaf
  THEN UNCHANGED <<newState, queued, logVars>>
  ELSE IF newState = state
  THEN /\ PutFault([transition |-> transition, stage |-> stage, spec |-> d])
       /\ newState' = SafeState
       /\ UNCHANGED queued
  ELSE /\ queued' = TRUE
       /\ UNCHANGED <<newState, logVars>>

(* power_graph_cb, called with the device that changed.  The fault is logged *)
(* with whatever transition and stage are current, and the work submitted in *)
(* any case.  A device without a callback calls nobody.                      *)
Callback(d) ==
  IF d \in Deaf
  THEN UNCHANGED <<newState, queued, logVars>>
  ELSE /\ queued' = TRUE
       /\ IF newState = state
          THEN /\ PutFault([transition |-> transition, stage |-> stage, spec |-> d])
               /\ newState' = SafeState
          ELSE UNCHANGED <<newState, logVars>>

(* The work queue takes the item: power_graph_worker enters the task.        *)
Begin ==
  /\ pc = "idle" /\ queued
  /\ queued' = FALSE
  /\ pc' = "check"
  /\ UNCHANGED <<taskVars, devVars, clientVars, fails, logVars>>

(* The head of the outer loop: subscribers are notified, the task returns.   *)
Settled ==
  /\ pc = "check" /\ newState = state
  /\ pc' = "idle"
  /\ UNCHANGED <<taskVars, queued, devVars, clientVars, fails, logVars>>

Enter ==
  /\ pc = "check" /\ newState # state
  /\ pc' = IF transition = None THEN "search" ELSE "stage"
  /\ UNCHANGED <<taskVars, queued, devVars, clientVars, fails, logVars>>

Start ==
  /\ pc = "search"
  /\ FirstTransition[<<state, newState>>] # None
  /\ transition' = FirstTransition[<<state, newState>>]
  /\ stage' = 1
  /\ pc' = "stage"
  /\ UNCHANGED <<state, newState, queued, devVars, clientVars, fails, logVars>>

(* "try switch to the safe state".                                           *)
NoRoute ==
  /\ pc = "search"
  /\ FirstTransition[<<state, newState>>] = None
  /\ newState' = SafeState
  /\ pc' = "check"
  /\ UNCHANGED <<state, transition, stage, queued, devVars, clientVars, fails, logVars>>

(* Mutant of StillChanging: the task polls the device instead of returning.  *)
StillChangingPolls ==
  /\ pc = "stage" /\ status[Current.dev] = "pending"
  /\ UNCHANGED vars

(* value_get: -EAGAIN, and the task returns until a callback submits it.     *)
StillChanging ==
  /\ pc = "stage" /\ status[Current.dev] = "pending"
  /\ pc' = "idle"
  /\ UNCHANGED <<taskVars, queued, devVars, clientVars, fails, logVars>>

(* Mutant of StageFailed: the target state is forced before the fault is     *)
(* logged.                                                                   *)
StageFailedEarlyTarget ==
  /\ pc = "stage" /\ status[Current.dev] # "pending"
  /\ \/ Current.dev \in Broken
     \/ status[Current.dev] = "failed" /\ ~Transitions[transition].ignore
  /\ state' = Transitions[transition].target
  /\ pc' = "fault"
  /\ UNCHANGED <<newState, transition, stage, queued, devVars, clientVars, fails, logVars>>

(* value_get fails: -EFAULT and the transition does not ignore faults, or    *)
(* any other error.                                                          *)
StageFailed ==
  /\ pc = "stage" /\ status[Current.dev] # "pending"
  /\ \/ Current.dev \in Broken
     \/ status[Current.dev] = "failed" /\ ~Transitions[transition].ignore
  /\ pc' = "fault"
  /\ UNCHANGED <<taskVars, queued, devVars, clientVars, fails, logVars>>

(* Mutant of StageReadable: -EAGAIN is not told from success.                *)
StageReadableEager ==
  /\ Current.dev \notin Broken
  /\ status[Current.dev] = "failed" => Transitions[transition].ignore

StageReadable ==
  /\ status[Current.dev] # "pending"
  /\ Current.dev \notin Broken
  /\ status[Current.dev] = "failed" => Transitions[transition].ignore

(* Mutant of StageReached: the bound of the stages is off by one.            *)
StageReachedPastEnd ==
  /\ pc = "stage" /\ StageReadable
  /\ value[Current.dev] = Current.state
  /\ stage' = stage + 1
  /\ pc' = IF stage \in Stages(transition) THEN "stage" ELSE "finish"
  /\ UNCHANGED <<state, newState, transition, queued, devVars, clientVars, fails, logVars>>

(* Mutant of StageReached: a failed device is skipped without being set.     *)
StageReachedSkips ==
  /\ pc = "stage" /\ StageReadable
  /\ value[Current.dev] = Current.state \/ status[Current.dev] = "failed"
  /\ stage' = stage + 1
  /\ pc' = IF stage + 1 \in Stages(transition) THEN "stage" ELSE "finish"
  /\ UNCHANGED <<state, newState, transition, queued, devVars, clientVars, fails, logVars>>

StageReached ==
  /\ pc = "stage" /\ StageReadable
  /\ value[Current.dev] = Current.state
  /\ stage' = stage + 1
  /\ pc' = IF stage + 1 \in Stages(transition) THEN "stage" ELSE "finish"
  /\ UNCHANGED <<state, newState, transition, queued, devVars, clientVars, fails, logVars>>

StageWrong ==
  /\ pc = "stage" /\ StageReadable
  /\ value[Current.dev] # Current.state
  /\ pc' = "set"
  /\ UNCHANGED <<taskVars, queued, devVars, clientVars, fails, logVars>>

(* value_set succeeds and the device has changed, or failed to, before the   *)
(* call returns: it has called its subscribers.                              *)
SetDone(outcome) ==
  /\ pc = "set"
  /\ outcome = "failed" => fails < MaxFails
  /\ value' = [value EXCEPT ![Current.dev] = Current.state]
  /\ status' = [status EXCEPT ![Current.dev] = outcome]
  /\ fails' = IF outcome = "failed" THEN fails + 1 ELSE fails
  /\ pc' = "stage"
  /\ Callback(Current.dev)
  /\ UNCHANGED <<state, transition, stage, clientVars>>

(* value_set succeeds and the device will call its subscribers later.        *)
SetStarted ==
  /\ pc = "set"
  /\ value' = [value EXCEPT ![Current.dev] = Current.state]
  /\ status' = [status EXCEPT ![Current.dev] = "pending"]
  /\ pc' = "stage"
  /\ UNCHANGED <<taskVars, queued, clientVars, fails, logVars>>

SetRefused ==
  /\ pc = "set"
  /\ fails < MaxFails
  /\ fails' = fails + 1
  /\ pc' = "fault"
  /\ UNCHANGED <<taskVars, queued, devVars, clientVars, logVars>>

(* The last stage is done.                                                   *)
Finish ==
  /\ pc = "finish"
  /\ state' = Transitions[transition].target
  /\ pc' = "close"
  /\ UNCHANGED <<newState, transition, stage, queued, devVars, clientVars, fails, logVars>>

Close ==
  /\ pc = "close"
  /\ transition' = None
  /\ stage' = None
  /\ pc' = "check"
  /\ UNCHANGED <<state, newState, queued, devVars, clientVars, fails, logVars>>

(* The label fault: log, force the target state, drop the transition, and    *)
(* ask for the safe state.                                                   *)
LogFault ==
  /\ pc = "fault"
  /\ PutFault([transition |-> transition, stage |-> stage, spec |-> Current.dev])
  /\ pc' = "abort"
  /\ UNCHANGED <<taskVars, queued, devVars, clientVars, fails>>

(* Mutant of Abort: the safe state is entered without a transition to it.    *)
AbortToSafe ==
  /\ pc = "abort"
  /\ state' = SafeState
  /\ pc' = "drop"
  /\ UNCHANGED <<newState, transition, stage, queued, devVars, clientVars, fails, logVars>>

Abort ==
  /\ pc = "abort"
  /\ state' = Transitions[transition].target
  /\ pc' = "drop"
  /\ UNCHANGED <<newState, transition, stage, queued, devVars, clientVars, fails, logVars>>

Drop ==
  /\ pc = "drop"
  /\ transition' = None
  /\ stage' = None
  /\ pc' = "safe"
  /\ UNCHANGED <<state, newState, queued, devVars, clientVars, fails, logVars>>

ToSafe ==
  /\ pc = "safe"
  /\ newState' = SafeState
  /\ pc' = "check"
  /\ UNCHANGED <<state, transition, stage, queued, devVars, clientVars, fails, logVars>>

-----------------------------------------------------------------------------
(* The devices.  A change under way ends on the same work queue, so never    *)
(* while the task runs; it succeeds or fails and calls the subscribers.      *)
DevFinish(d, outcome) ==
  /\ pc = "idle" /\ status[d] = "pending"
  /\ outcome = "failed" => fails < MaxFails
  /\ status' = [status EXCEPT ![d] = outcome]
  /\ fails' = IF outcome = "failed" THEN fails + 1 ELSE fails
  /\ Callback(d)
  /\ UNCHANGED <<state, transition, stage, pc, value, clientVars>>

(* The power good signal of a device at rest is lost: an interrupt, which    *)
(* comes between any two steps and repeats on a device already failed.       *)
DevFail(d) ==
  /\ status[d] # "pending" /\ fails < MaxFails
  /\ status' = [status EXCEPT ![d] = "failed"]
  /\ fails' = fails + 1
  /\ Callback(d)
  /\ UNCHANGED <<state, transition, stage, pc, value, clientVars>>

-----------------------------------------------------------------------------
(* power_graph_set(PWRGRAPH_STATE, v), which takes no lock.  The three early *)
(* returns (same state, still in transition, unknown state) change nothing.  *)
(* The identifier is looked up as a state_id_t, a uint8_t.                   *)
MayRun == WorkqFirst => pc = "idle" /\ ~queued

Known(v) == v % 256 \in States

SetCheck(c, v) ==
  /\ cpc[c] = "idle" /\ MayRun
  /\ reqs < MaxReqs
  /\ state # v
  /\ transition = None
  /\ Known(v)
  /\ request' = [request EXCEPT ![c] = v]
  /\ cpc' = [cpc EXCEPT ![c] = "commit"]
  /\ reqs' = reqs + 1
  /\ UNCHANGED <<taskVars, queued, pc, devVars, fails, logVars>>

SetCommit(c) ==
  /\ cpc[c] = "commit" /\ MayRun
  /\ newState' = request[c] % 256
  /\ cpc' = [cpc EXCEPT ![c] = "submit"]
  /\ UNCHANGED <<state, transition, stage, queued, pc, devVars, request, reqs, fails, logVars>>

SetSubmit(c) ==
  /\ cpc[c] = "submit" /\ MayRun
  /\ queued' = TRUE
  /\ cpc' = [cpc EXCEPT ![c] = "idle"]
  /\ request' = [request EXCEPT ![c] = None]
  /\ UNCHANGED <<taskVars, pc, devVars, reqs, fails, logVars>>

(* power_graph_get(PWRGRAPH_STATE): the answer while a transition is current *)
(* is its target with -EAGAIN.                                               *)
GetState ==
  IF transition = None THEN [rc |-> "ok", val |-> state]
  ELSE [rc |-> "again", val |-> Transitions[transition].target]

-----------------------------------------------------------------------------
Task ==
  \/ Begin \/ Settled \/ Enter \/ Start \/ NoRoute
  \/ StillChanging \/ StageFailed \/ StageReached \/ StageWrong
  \/ (\E outcome \in {"idle", "failed"} : SetDone(outcome))
  \/ SetStarted \/ SetRefused
  \/ Finish \/ Close \/ LogFault \/ Abort \/ Drop \/ ToSafe

Device(d) ==
  \/ \E outcome \in {"idle", "failed"} : DevFinish(d, outcome)
  \/ DevFail(d)

Client(c) ==
  \/ \E v \in Requests : SetCheck(c, v)
  \/ SetCommit(c)
  \/ SetSubmit(c)

Next ==
  \/ Task
  \/ \E d \in Devs : Device(d)
  \/ \E c \in Clients : Client(c)

Spec == Init /\ [][Next]_vars

(* A queued work item is run to its end, a started change ends, and a call   *)
(* of value_set that passed the checks is carried out.  Nothing has to fail  *)
(* and nothing has to be asked for.                                          *)
Fairness ==
  /\ WF_vars(Task)
  /\ \A d \in Devs : WF_vars(\E outcome \in {"idle", "failed"} : DevFinish(d, outcome))
  /\ \A c \in Clients : WF_vars(SetCommit(c) \/ SetSubmit(c))

FairSpec == Spec /\ Fairness
-----------------------------------------------------------------------------
(* Where the task is, the transition and the stage fit: every stage it reads *)
(* is one of the current transition.                                         *)
TaskTypeOK ==
  /\ state \in States /\ newState \in States
  /\ transition \in TransitionIds \cup {None}
  /\ transition = None => stage = None
  /\ transition # None =>
       IF pc \in {"finish", "close"} THEN stage = Len(Transitions[transition].stages) + 1
                                     ELSE stage \in Stages(transition)
  /\ queued \in BOOLEAN
  /\ pc \in WorkerPcs
  /\ pc \in {"stage", "set", "fault", "finish", "close", "abort", "drop"} => transition # None
  /\ pc \in {"search", "safe"} => transition = None

DevTypeOK ==
  /\ value \in [Devs -> DevStates]
  /\ status \in [Devs -> {"idle", "pending", "failed"}]

ClientTypeOK ==
  /\ cpc \in [Clients -> {"idle", "commit", "submit"}]
  /\ request \in [Clients -> Requests \cup {None}]
  /\ \A c \in Clients : cpc[c] = "commit" => Known(request[c])

CountsOK == fails \in 0 .. MaxFails /\ reqs \in 0 .. MaxReqs

TypeOK == TaskTypeOK /\ DevTypeOK /\ ClientTypeOK /\ CountsOK /\ LogTypeOK

InFlight == transition # None /\ stage \in Stages(transition)

(* power_graph_task never has two devices on the way at once: a device that  *)
(* is still changing is the one of the current stage, whatever callbacks and *)
(* clients did to the request in the meantime.                               *)
OnePending ==
  \A d \in Devs : status[d] = "pending" => InFlight /\ Current.dev = d

(* No lost wakeup: a request that is not carried out yet has the work item   *)
(* queued or running, a client about to submit it, or a device under way     *)
(* whose callback will.  The task only returns at -EAGAIN and at the head of *)
(* the loop, and every write of new_state is followed by a submit.           *)
NoLostWakeup ==
  newState # state =>
    \/ queued \/ pc # "idle"
    \/ \E c \in Clients : cpc[c] = "submit"
    \/ InFlight /\ status[Current.dev] = "pending"

(* "sequentially turned on or off" (power-graph.yaml:69): while a transition *)
(* is at a stage, the device of every stage before it has the value of its   *)
(* stage and has come to rest, unless a later stage is for the same device.  *)
StageOrder ==
  transition # None =>
    \A j \in 1 .. stage - 1 :
      LET s == Transitions[transition].stages
      IN \/ value[s[j].dev] = s[j].state /\ status[s[j].dev] # "pending"
         \/ \E k \in j + 1 .. stage : k <= Len(s) /\ s[k].dev = s[j].dev

(* The state changes only along a declared transition that is current, and   *)
(* either every stage of it has been passed or its fault is the newest of    *)
(* the log.                                                                  *)
StateChangesAlongTransition ==
  [][state' # state =>
       /\ transition # None
       /\ Transitions[transition].initial = state
       /\ Transitions[transition].target = state'
       /\ \/ stage > Len(Transitions[transition].stages)
          \/ faults[lastFault].transition = transition]_vars

(* The task's put_fault and the callback's never meet: while the task is in  *)
(* its error branch, the request differs from the state.                     *)
LogExclusive == pc = "fault" => newState # state

-----------------------------------------------------------------------------
Quiet ==
  /\ pc = "idle" /\ ~queued
  /\ \A d \in Devs : status[d] # "pending"
  /\ \A c \in Clients : cpc[c] = "idle"

(* Once nothing fails and nothing is asked for any more, the task gives the  *)
(* system work queue back, however often it starts over, and the graph comes *)
(* to rest in the state it was last asked for or sent to.                    *)
ComesToRest == <>[](Quiet /\ newState = state)

(* With clients that never ask for the safe state themselves: when a fault,  *)
(* of a stage or of a device at rest, has asked for the safe state, the      *)
(* graph gets there.  A client that stands between its checks and its write  *)
(* of new_state takes the request back, also under WorkqFirst, whenever the  *)
(* task waits for a device: the state then never becomes the safe one if no  *)
(* stage that is left notices the fault.                                     *)
SafeReached ==
  newState = SafeState /\ (\A c \in Clients : cpc[c] # "commit") ~> state = SafeState

-----------------------------------------------------------------------------
(* "still in transition yet" (power_graph.c:558), the reason for -EBUSY: no    *)
(* transition is current in a graph that is at rest, so that it can be       *)
(* given a new state again.                                                  *)
NotBusyAtRest == Quiet /\ newState = state => transition = None
=============================================================================
