------------------------------ MODULE PowerRail ------------------------------
(***************************************************************************)
(* A supply rail as a product wires it: one power graph that switches a    *)
(* regulator, the I2C configuration of the chip behind it and the I2C      *)
(* targets of the bus (drivers/i2c_config_switch), and shell commands that *)
(* ask for a state and wait for it (cmd_state of power_graph_shell.c).     *)
(*                                                                         *)
(* The task is that of PowerGraph, whose abstract devices are replaced by  *)
(* the drivers: value and status are what their value_get answers.  The    *)
(* work items of graph, regulator and configurator share one cooperative   *)
(* queue, commands run in threads below it, power good pins interrupt.     *)
(***************************************************************************)
EXTENDS ValueSub, I2cConfigurator

CONSTANTS
  LogDepth, Entries, Unwritten, States, Transitions, SafeState, FirstTransition,
  Requests, MaxReqs,                                             \* PowerGraph
  Pins, FallPins, RisePins, Delay, MaxErrors, MaxGlitches,
                                                          \* RegulatorExtended
  Commands,      \* the threads with a shell
  Expected       \* per state of the graph, the value of every device

VARIABLES
  state, newState, transition, stage, queued, pc, faults, numFaults, lastFault,
  cpc, request, reqs,
  dstate, enabled, cbs, work, out, pin, rpc, arg, told, badset, cut, errors, glitches,
  target,        \* data->state of the config switch: the targets are registered
  spc, sem, list \* per command where it is and its semaphore; data->sub of the graph

Reg == 1
Cfg == 2
Switch == 3
Devs == {Reg, Cfg, Switch}
OnOff == {0, 1}

(* What value_get answers: *pval and the return code.                        *)
Value ==
  [d \in Devs |-> IF d = Reg THEN (IF enabled THEN 1 ELSE 0)
                  ELSE IF d = Cfg THEN cstate ELSE target]

(* Mutant of Answer: a deferred switch is not told from a settled state.      *)
AnswerDeferred ==
  [idle |-> "idle", failed |-> "failed", deferred |-> "idle", pending |-> "pending",
   ok |-> "idle", again |-> "pending", fault |-> "failed"]

Answer == [idle |-> "idle", failed |-> "failed", deferred |-> "pending", pending |-> "pending",
           ok |-> "idle", again |-> "pending", fault |-> "failed"]

Status ==
  [d \in Devs |-> IF d = Reg THEN Answer[dstate]
                  ELSE IF d = Cfg THEN Answer[cstatus] ELSE "idle"]

(* The value_driver_api of each driver; value_sub of one without .sub fails. *)
Api == [d \in Devs |-> IF d = Switch THEN {"get", "set"} ELSE {"get", "set", "sub"}]

G == INSTANCE PowerGraph WITH
       value <- Value, status <- Status, DevStates <- OnOff, Clients <- Commands,
       Deaf <- { d \in Devs : Dispatch(Api[d], "sub", "ok") # "ok" },
       Broken <- {}, WorkqFirst <- TRUE, fails <- 0, MaxFails <- 0

(* The system work queue, which nobody drains or plugs here, takes every     *)
(* item, so that no deferred switch is ever lost (TLC takes no bare FALSE    *)
(* where a variable stands in UNCHANGED).                                    *)
R == INSTANCE RegulatorExtended WITH
       pc <- rpc, AlwaysOn <- FALSE, BootOn <- FALSE, Simulate <- FALSE,
       WorkqFirst <- TRUE, ScheduleFails <- FALSE, lost <- ~TRUE, sets <- 0, MaxSets <- 0

(* The graph and the log as in PowerGraph, the regulator as in               *)
(* RegulatorExtended; the configurator starts in a state the graph can set.  *)
ASSUME RailGraph ==
  /\ SafeState \in States /\ States \subseteq 0 .. 254
  /\ Transitions \in Seq(G!TransitionType)
  /\ \A t \in G!TransitionIds : Transitions[t].stages # << >>
  /\ Requests \subseteq Nat /\ MaxReqs \in Nat
  /\ LogDepth \in 1 .. 255

ASSUME RailSearch ==
  /\ FirstTransition \in [States \X States -> G!TransitionIds \cup {G!None}]
  /\ \A s \in States \X States :
       FirstTransition[s] # G!None => Transitions[FirstTransition[s]].initial = s[1]

ASSUME RailEntries ==
  /\ \A d \in Devs : [transition |-> G!None, stage |-> G!None, spec |-> d] \in Entries
  /\ \A d \in Devs, t \in G!TransitionIds : \A k \in 0 .. Len(Transitions[t].stages) + 1 :
       [transition |-> t, stage |-> k, spec |-> d] \in Entries

ASSUME RailDevices ==
  /\ Pins \subseteq Nat /\ FallPins \subseteq Pins /\ RisePins \subseteq Pins
  /\ Delay \in [BOOLEAN -> {"none", "busy", "work"}]
  /\ {MaxErrors, MaxGlitches} \subseteq Nat
  /\ InitialState \in OnOff

logVars == <<faults, numFaults, lastFault>>
graphVars == <<state, newState, transition, stage, queued, pc, logVars>>
clientVars == <<cpc, request, reqs>>
regVars == <<dstate, enabled, cbs, work, out, pin, rpc, arg, told, badset, cut, errors, glitches>>
devVars == <<regVars, cvars, target>>
shellVars == <<spc, sem, list>>
vars == <<graphVars, clientVars, devVars, shellVars>>

(* Init without the devices of PowerGraph, which are expressions here.       *)
Init ==
  /\ R!Init /\ CwInit
  /\ target = 0
  /\ state = SafeState /\ newState = SafeState
  /\ transition = G!None /\ stage = G!None
  /\ queued = FALSE /\ pc = "idle"
  /\ cpc = [c \in Commands |-> "idle"] /\ request = [c \in Commands |-> G!None] /\ reqs = 0
  /\ G!LogInit
  /\ spc = [c \in Commands |-> "idle"] /\ sem = [c \in Commands |-> 0]
  /\ list = EmptyList

RegWorks == rpc[R!Worker] # "idle"

(* No work item runs.                                                        *)
QueueFree == pc = "idle" /\ ~RegWorks

-----------------------------------------------------------------------------
(* The task of the graph between its calls of value_set.                     *)
GraphTask ==
  /\ ~RegWorks
  /\ UNCHANGED <<devVars, shellVars>>
  /\ \/ G!Begin \/ G!Enter \/ G!Start \/ G!NoRoute
     \/ G!StillChanging \/ G!StageFailed \/ G!StageReached \/ G!StageWrong
     \/ G!Finish \/ G!Close \/ G!LogFault \/ G!Abort \/ G!Drop \/ G!ToSafe

(* The head of the loop gives the semaphores of the waiting commands.        *)
GraphSettled ==
  /\ UNCHANGED <<devVars, spc, list>>
  /\ G!Settled
  /\ sem' = [c \in Commands |-> IF c \in Notified(list) THEN 1 ELSE sem[c]]

Told(called, d) ==
  IF called THEN G!Callback(d) ELSE UNCHANGED <<newState, queued, logVars>>

Setting(d) == pc = "set" /\ G!Current.dev = d

(* value_set of the regulator, step by step.                                 *)
CallRegulator ==
  /\ Setting(Reg)
  /\ R!SetCheck(G!Current.state = 1)
  /\ UNCHANGED <<graphVars, clientVars, cvars, target, shellVars>>

RegulatorCall ==
  /\ Setting(Reg)
  /\ R!InCall
  /\ Told(rpc[R!Caller] = "notify", Reg)
  /\ pc' = IF rpc'[R!Caller] = "idle" THEN "stage" ELSE "set"
  /\ UNCHANGED <<state, transition, stage, clientVars, cvars, target, shellVars>>

(* value_set of the configurator.                                            *)
SetConfigurator ==
  /\ Setting(Cfg)
  /\ CwSet(G!Current.state)
  /\ pc' = "stage"
  /\ UNCHANGED <<state, newState, transition, stage, queued, logVars, clientVars, regVars, target, shellVars>>

(* i2c_config_switch_set registers or unregisters all targets and answers 0. *)
SetSwitch ==
  /\ Setting(Switch)
  /\ target' = G!Current.state
  /\ pc' = "stage"
  /\ UNCHANGED <<state, newState, transition, stage, queued, logVars, clientVars, regVars, cvars, shellVars>>

-----------------------------------------------------------------------------
(* The other work items of the queue, and the interrupts.                    *)
RegulatorWork ==
  /\ pc = "idle"
  /\ R!Work
  /\ Told(rpc[R!Worker] = "notify", Reg)
  /\ UNCHANGED <<state, transition, stage, pc, clientVars, cvars, target, shellVars>>

(* Mutant of ConfiguratorWork: cw_work tells nobody.                         *)
ConfiguratorWorkSilent ==
  /\ QueueFree
  /\ CwWork
  /\ UNCHANGED <<graphVars, clientVars, regVars, target, shellVars>>

ConfiguratorWork ==
  /\ QueueFree
  /\ CwWork
  /\ G!Callback(Cfg)
  /\ UNCHANGED <<state, transition, stage, pc, clientVars, regVars, target, shellVars>>

PinEdge(p) ==
  /\ R!PinFollows(p) \/ R!PinGlitches(p)
  /\ Told(R!Interrupts(p) /\ R!Alarm(p, R!Flipped(p)), Reg)
  /\ UNCHANGED <<state, transition, stage, pc, clientVars, cvars, target, shellVars>>

-----------------------------------------------------------------------------
(* A command.  A refused value_set ends it and changes nothing; asking for   *)
(* the state the graph has is accepted without a change.                     *)
At(c, l) == spc[c] = l /\ G!MayRun /\ ~RegWorks

GoOn(c, l) == spc' = [spc EXCEPT ![c] = l]

CmdSame(c) ==
  /\ At(c, "idle")
  /\ state \in Requests
  /\ GoOn(c, "get")
  /\ UNCHANGED <<graphVars, clientVars, devVars, sem, list>>

CmdSet(c) ==
  /\ At(c, "idle") \/ At(c, "set")
  /\ UNCHANGED <<devVars, sem, list>>
  /\ (\E v \in Requests : G!SetCheck(c, v)) \/ G!SetCommit(c) \/ G!SetSubmit(c)
  /\ GoOn(c, IF cpc'[c] = "idle" THEN "get" ELSE "set")

(* On -EAGAIN the lock is made on the stack of the command; any other answer  *)
(* of value_get ends it.                                                     *)
CmdGet(c) ==
  /\ At(c, "get")
  /\ IF G!GetState.rc = "again"
     THEN sem' = [sem EXCEPT ![c] = 0] /\ GoOn(c, "sub")
     ELSE GoOn(c, "idle") /\ UNCHANGED sem
  /\ UNCHANGED <<graphVars, clientVars, devVars, list>>

CmdSubscribe(c) ==
  /\ At(c, "sub")
  /\ list' = Manage(list, c, TRUE)
  /\ GoOn(c, "take")
  /\ UNCHANGED <<graphVars, clientVars, devVars, sem>>

(* Mutant of CmdTake: a timeout returns at once.                             *)
CmdTakeReturns(c) ==
  /\ At(c, "take")
  /\ sem' = [sem EXCEPT ![c] = 0]
  /\ GoOn(c, IF sem[c] = 0 THEN "idle" ELSE "unsub")
  /\ UNCHANGED <<graphVars, clientVars, devVars, list>>

(* Mutant of CmdTake: it waits for ever.                                     *)
CmdTakeForever(c) ==
  /\ At(c, "take")
  /\ sem[c] = 1
  /\ sem' = [sem EXCEPT ![c] = 0]
  /\ GoOn(c, "unsub")
  /\ UNCHANGED <<graphVars, clientVars, devVars, list>>

(* k_sem_take gets the semaphore, or its five seconds are over.              *)
CmdTake(c) ==
  /\ At(c, "take")
  /\ sem' = [sem EXCEPT ![c] = 0]
  /\ GoOn(c, "unsub")
  /\ UNCHANGED <<graphVars, clientVars, devVars, list>>

CmdUnsubscribe(c) ==
  /\ At(c, "unsub")
  /\ list' = Manage(list, c, FALSE)
  /\ GoOn(c, "idle")
  /\ UNCHANGED <<graphVars, clientVars, devVars, sem>>

-----------------------------------------------------------------------------
QueueStep ==
  \/ GraphTask \/ GraphSettled
  \/ CallRegulator \/ RegulatorCall \/ SetConfigurator \/ SetSwitch
  \/ RegulatorWork \/ ConfiguratorWork

CmdStep(c) ==
  \/ CmdGet(c) \/ CmdSubscribe(c) \/ CmdTake(c) \/ CmdUnsubscribe(c)
  \/ spc[c] = "set" /\ CmdSet(c)

Next ==
  \/ QueueStep
  \/ \E p \in Pins : PinEdge(p)
  \/ \E c \in Commands : CmdSame(c) \/ CmdSet(c) \/ CmdStep(c)

(* The queue runs its items, and a command that has begun goes on as soon as *)
(* the queue lets it.                                                        *)
Spec ==
  /\ Init /\ [][Next]_vars
  /\ WF_vars(QueueStep)
  /\ \A c \in Commands : WF_vars(CmdStep(c))

-----------------------------------------------------------------------------
RailTypeOK ==
  /\ G!TaskTypeOK /\ G!ClientTypeOK /\ G!LogTypeOK /\ R!RTypeOK
  /\ target \in OnOff
  /\ spc \in [Commands -> {"idle", "set", "get", "sub", "take", "unsub"}]
  /\ sem \in [Commands -> {0, 1}]
  /\ pc = "set" \/ rpc[R!Caller] = "idle"

(* The promises of PowerGraph, with real drivers as its devices: one of them *)
(* under way at a time, and no request forgotten.  Both rest on what the     *)
(* drivers do: a settled change has told, and nothing starts by itself.      *)
DriversKeepPromises ==
  /\ G!OnePending
  /\ ~RegWorks => G!NoLostWakeup

(* The chip is never written, and the targets of the bus never registered,   *)
(* while the outputs of the regulator are off, unless setting those failed:  *)
(* the stages of the graph come in order even though every device answers in *)
(* its own time.                                                             *)
PoweredFirst ==
  [][(chip' # chip /\ chip' # << >>) \/ (target = 0 /\ target' = 1) => out \/ badset]_vars

(* End to end: a graph at rest has its devices at what its state declares,   *)
(* and the chip of a configurator that reports no failure was sent exactly   *)
(* that configuration.                                                       *)
Rest == G!Quiet /\ QueueFree /\ newState = state /\ transition = G!None

RestAsDeclared ==
  /\ Rest => Value = Expected[state]
  /\ Configured

(* What PoweredFirst asks of the declared stages: the chip and the bus are   *)
(* switched on behind the regulator, which is switched off behind them.      *)
StagesPowered ==
  /\ InitialState = 0
  /\ \A t \in G!TransitionIds : \A k \in G!Stages(t) :
       LET s == Transitions[t].stages
           Behind(d, v) == \E j \in 1 .. k - 1 :
             s[j].dev = d /\ s[j].state = v /\ \A i \in j + 1 .. k - 1 : s[i].dev # d
       IN IF s[k].dev = Reg THEN s[k].state = 0 => Behind(Cfg, 0) /\ Behind(Switch, 0)
                            ELSE s[k].state = 1 => Behind(Reg, 1)

(* What Rest asks of them: a transition leaves every device as its target    *)
(* declares, and the one into the safe state goes through in any case.       *)
StagesComplete ==
  /\ Expected \in [States -> [Devs -> OnOff]]
  /\ Expected[SafeState] = [d \in Devs |-> IF d = Cfg THEN InitialState ELSE 0]
  /\ \A t \in G!TransitionIds :
       LET s == Transitions[t].stages
       IN /\ \A d \in Devs : \E k \in G!Stages(t) :
               /\ s[k].dev = d /\ s[k].state = Expected[Transitions[t].target][d]
               /\ \A i \in k + 1 .. Len(s) : s[i].dev # d
          /\ Transitions[t].target = SafeState => Transitions[t].ignore

(* The lock of a command is on its stack: the list of the graph names a      *)
(* command only while it is between its two calls of value_sub.              *)
NoDanglingCallback ==
  /\ Notified(list) = { c \in Commands : spc[c] \in {"take", "unsub"} }
  /\ IsInjective(list)

(* Every command ends, the one the graph will never answer too.              *)
CommandsEnd == \A c \in Commands : spc[c] # "idle" ~> spc[c] = "idle"

(* Once pins and commands leave it alone the rail comes to rest: no device   *)
(* is left pending, and the graph is where it was last asked or sent to.     *)
RailRests == <>[](QueueFree /\ ~queued /\ newState = state
                  /\ \A d \in Devs : Status[d] # "pending")

-----------------------------------------------------------------------------
(* "unsubscribe which hasn't subscribed" (include/zephyr/drivers/value.h:191)*)
(* is asserted of no command that has subscribed.                            *)
SubscribedIsActive == \A c \in Commands : spc[c] = "unsub" => MayManage(list, c, FALSE)
=============================================================================
