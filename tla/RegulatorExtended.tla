-------------------------- MODULE RegulatorExtended --------------------------
(***************************************************************************)
(* One regulator of drivers/regulator_extended/regulator_extended.c, built *)
(* with CONFIG_REGULATOR_EXTENDED_MONITOR_PGOODS: the thread that calls    *)
(* value_set, the work item that ends a delay or a deferred switch, and    *)
(* the interrupts of the power good pins.  No lock is taken anywhere, so   *)
(* each actor has a program counter that moves at every access to shared   *)
(* data.  The pins follow the enable outputs in their own time and can     *)
(* glitch.                                                                 *)
(***************************************************************************)
EXTENDS Integers, FiniteSets

CONSTANTS
  Pins,          \* cfg->pgood_gpio, numbered from 1
  FallPins,      \* the pins with GPIO_EDGE_TO_INACTIVE
  RisePins,      \* the pins with GPIO_EDGE_TO_ACTIVE
  Delay,         \* per direction: "none", "busy" or "work"
  AlwaysOn,      \* OPTION_ALWAYS_ON
  BootOn,        \* OPTION_BOOT_ON
  Simulate,      \* CONFIG_REGULATOR_EXTENDED_SIMULATE_FAULTS
  WorkqFirst,    \* TRUE: no call of value_set runs while the work item does
  ScheduleFails, \* whether k_work_schedule can fail
  MaxErrors,     \* bound on the failures of the enable outputs
  MaxGlitches,   \* bound on the glitches of the pins
  MaxSets        \* bound on the calls of value_set

ASSUME RegulatorAssumption ==
  /\ Pins \subseteq Nat
  /\ FallPins \subseteq Pins /\ RisePins \subseteq Pins
  /\ Delay \in [BOOLEAN -> {"none", "busy", "work"}]
  /\ {AlwaysOn, BootOn, Simulate, WorkqFirst, ScheduleFails} \subseteq BOOLEAN
  /\ {MaxErrors, MaxGlitches, MaxSets} \subseteq Nat

VARIABLES
  dstate,  \* data->state
  enabled, \* data->enabled
  cbs,     \* the pins whose callback is installed
  work,    \* data->work is scheduled
  out,     \* the enable outputs
  pin,     \* the power good inputs
  pc,      \* where the caller, the work item and init are
  arg,     \* the caller's value
  told,    \* history: subscribers were notified since the answer of get changed
  badset,  \* history: the last set_enables failed
  cut,     \* history: a simulated fault came while a change was under way
  lost,    \* history: a deferred switch got no work item
  errors, glitches, sets

hardVars == <<out, pin, glitches>>
histVars == <<told, badset, cut, lost>>
vars == <<dstate, enabled, cbs, work, hardVars, pc, arg, histVars, errors, sets>>

Caller == "caller"
Worker == "worker"
Boot == "boot"
Actors == {Caller, Worker, Boot}

DriverStates == {"idle", "deferred", "pending", "failed"}

Settled == dstate \in {"idle", "failed"}

(* test_pgoods(dev, on) = 0 *)
Good(pins, on) == \A p \in Pins : pins[p] = on

(* Mutant of Armed: the edge flags are ignored.                              *)
ArmedAll(on) == Pins

(* async_pgoods(dev, true): the callbacks that fit the direction.            *)
Armed(on) == IF on THEN FallPins ELSE RisePins

(* regulator_extended_init up to the end of init_pgoods; with boot-on the    *)
(* startup delay and the first test are still to come.                       *)
On == AlwaysOn \/ BootOn

Init ==
  /\ enabled = On
  /\ dstate = IF On THEN "pending" ELSE "idle"
  /\ out = On
  /\ pin \in [Pins -> {FALSE, On}]
  /\ cbs = Armed(On)
  /\ work = FALSE
  /\ pc = [a \in Actors |-> IF a = Boot /\ On THEN "wait" ELSE "idle"]
  /\ arg = FALSE
  /\ told = TRUE /\ badset = FALSE /\ cut = FALSE /\ lost = FALSE
  /\ errors = 0 /\ glitches = 0 /\ sets = 0

(* A write of data->state; a new answer of get is news to the subscribers.   *)
Write(s) ==
  /\ dstate' = s
  /\ told' = (told /\ s = dstate)

(* Actor a is at l and can run.  The system work queue is cooperative: a     *)
(* preemptible thread does not run while a work item does, and a caller on   *)
(* the queue is one of its items.                                            *)
At(a, l) ==
  /\ pc[a] = l
  /\ a = Caller /\ WorkqFirst => pc[Worker] = "idle"

Goto(a, l) == pc' = [pc EXCEPT ![a] = l]

(* The busy wait and the test that end regulator_extended_init.              *)
BootTest ==
  /\ At(Boot, "wait")
  /\ Goto(Boot, "idle")
  /\ dstate' = IF dstate = "pending"
               THEN IF Good(pin, enabled) THEN "idle" ELSE "failed"
               ELSE dstate
  /\ UNCHANGED <<enabled, cbs, work, hardVars, arg, histVars, errors, sets>>

-----------------------------------------------------------------------------
(* regulator_extended_set(REGEXT_STATE, v).  -ENOTSUP, -EAGAIN and the       *)
(* return for a value already set change nothing.  Init is over before       *)
(* anybody calls.                                                            *)
SetCheck(v) ==
  /\ At(Caller, "idle") /\ At(Boot, "idle")
  /\ ~AlwaysOn
  /\ \/ dstate = "failed"
     \/ dstate = "idle" /\ enabled # v
  /\ arg' = v
  /\ Goto(Caller, "enable")
  /\ UNCHANGED <<dstate, enabled, cbs, work, hardVars, histVars, errors>>

SetEnabled ==
  /\ At(Caller, "enable")
  /\ enabled' = arg
  /\ told' = FALSE
  /\ Goto(Caller, "mute")
  /\ UNCHANGED <<dstate, cbs, work, hardVars, arg, badset, cut, lost, errors, sets>>

SetMute ==
  /\ At(Caller, "mute")
  /\ cbs' = {}
  /\ Goto(Caller, "gpio")
  /\ UNCHANGED <<dstate, enabled, work, hardVars, arg, histVars, errors, sets>>

(* Where finalize_transition goes first for a delay of this direction.       *)
AfterSwitch(on) == IF Delay[on] = "none" THEN "test" ELSE "delay"

SwitchDone(a, on) ==
  /\ out' = enabled
  /\ badset' = FALSE
  /\ Goto(a, AfterSwitch(on))
  /\ UNCHANGED <<pin, glitches, errors>>

(* set_enables fails half way: the outputs may or may not have changed.      *)
SwitchFailed(a) ==
  /\ errors < MaxErrors
  /\ errors' = errors + 1
  /\ out' \in BOOLEAN
  /\ badset' = TRUE
  /\ Goto(a, "test")
  /\ UNCHANGED <<pin, glitches>>

SetSwitched ==
  /\ At(Caller, "gpio")
  /\ SwitchDone(Caller, arg)
  /\ UNCHANGED <<dstate, enabled, cbs, work, arg, told, cut, lost, sets>>

SetFailed ==
  /\ At(Caller, "gpio")
  /\ SwitchFailed(Caller)
  /\ Write("failed")
  /\ UNCHANGED <<enabled, cbs, work, arg, cut, lost, sets>>

(* -EWOULDBLOCK: the outputs cannot be set from here.                        *)
SetDeferred ==
  /\ At(Caller, "gpio")
  /\ Write("deferred")
  /\ Goto(Caller, "submit")
  /\ UNCHANGED <<enabled, cbs, work, hardVars, arg, badset, cut, lost, errors, sets>>

SetSubmit ==
  /\ At(Caller, "submit")
  /\ work' = TRUE
  /\ Goto(Caller, "idle")
  /\ UNCHANGED <<dstate, enabled, cbs, hardVars, arg, histVars, errors, sets>>

(* Nobody looks at what k_work_schedule returns: the call succeeds and the   *)
(* switch stays deferred, with no work item to carry it out.                 *)
SetUnscheduled ==
  /\ At(Caller, "submit") /\ ScheduleFails
  /\ lost' = TRUE
  /\ Goto(Caller, "idle")
  /\ UNCHANGED <<dstate, enabled, cbs, work, hardVars, arg, told, badset, cut, errors, sets>>

(* regulator_extended_set(REGEXT_PGOOD, _): a simulated fault notifies and   *)
(* goes on to finalize_transition, whatever the state: this is the only call *)
(* that gets a regulator out of a switch that is deferred for ever.          *)
SimulateFault ==
  /\ Simulate
  /\ At(Caller, "idle") /\ At(Boot, "idle")
  /\ dstate' = "failed"
  /\ told' = TRUE
  /\ cut' = (cut \/ ~Settled \/ lost)
  /\ lost' = FALSE
  /\ Goto(Caller, "test")
  /\ UNCHANGED <<enabled, cbs, work, hardVars, arg, badset, errors>>

(* The calls of value_set, MaxSets of them.                                  *)
Call ==
  /\ sets < MaxSets
  /\ sets' = sets + 1
  /\ (\E v \in BOOLEAN : SetCheck(v)) \/ SimulateFault

-----------------------------------------------------------------------------
(* regulator_extended_work *)
WorkStart ==
  /\ work /\ At(Worker, "idle")
  /\ work' = FALSE
  /\ Goto(Worker, "run")
  /\ UNCHANGED <<dstate, enabled, cbs, hardVars, arg, histVars, errors, sets>>

WorkSwitched ==
  /\ At(Worker, "run") /\ dstate = "deferred"
  /\ SwitchDone(Worker, enabled)
  /\ UNCHANGED <<dstate, enabled, cbs, work, arg, told, cut, lost, sets>>

WorkFailed ==
  /\ At(Worker, "run") /\ dstate = "deferred"
  /\ SwitchFailed(Worker)
  /\ Write("pending")
  /\ UNCHANGED <<enabled, cbs, work, arg, cut, lost, sets>>

(* Mutant of WorkDelayed: a deferred switch is not told from a delay.        *)
WorkDelayedAlways ==
  /\ At(Worker, "run")
  /\ Write("idle")
  /\ Goto(Worker, "test")
  /\ UNCHANGED <<enabled, cbs, work, hardVars, arg, badset, cut, lost, errors, sets>>

WorkDelayed ==
  /\ At(Worker, "run") /\ dstate # "deferred"
  /\ Write("idle")
  /\ Goto(Worker, "test")
  /\ UNCHANGED <<enabled, cbs, work, hardVars, arg, badset, cut, lost, errors, sets>>

-----------------------------------------------------------------------------
(* finalize_transition, run by the caller or by the work item.               *)
StartDelay(a) ==
  /\ At(a, "delay")
  /\ Write("pending")
  /\ Goto(a, IF Delay[enabled] = "busy" THEN "busy" ELSE "schedule")
  /\ UNCHANGED <<enabled, cbs, work, hardVars, arg, badset, cut, lost, errors, sets>>

BusyWait(a) ==
  /\ At(a, "busy")
  /\ Goto(a, "test")
  /\ UNCHANGED <<dstate, enabled, cbs, work, hardVars, arg, histVars, errors, sets>>

(* Mutant of Schedule: the work item is forgotten.                           *)
ScheduleForgotten(a) ==
  /\ At(a, "schedule")
  /\ Goto(a, "idle")
  /\ UNCHANGED <<dstate, enabled, cbs, work, hardVars, arg, histVars, errors, sets>>

Schedule(a) ==
  /\ At(a, "schedule")
  /\ work' = TRUE
  /\ Goto(a, "idle")
  /\ UNCHANGED <<dstate, enabled, cbs, hardVars, arg, histVars, errors, sets>>

ScheduleFailed(a) ==
  /\ At(a, "schedule") /\ ScheduleFails
  /\ Write("failed")
  /\ Goto(a, "test")
  /\ UNCHANGED <<enabled, cbs, work, hardVars, arg, badset, cut, lost, errors, sets>>

(* Mutant of Test: the caller is spared the callbacks and the notification   *)
(* when the pins are bad.                                                    *)
TestReturnsEarly(a) ==
  /\ At(a, "test")
  /\ Write(IF dstate # "failed" /\ ~Good(pin, enabled) THEN "failed" ELSE "idle")
  /\ Goto(a, IF Good(pin, enabled) THEN "arm" ELSE "idle")
  /\ UNCHANGED <<enabled, cbs, work, hardVars, arg, badset, cut, lost, errors, sets>>

Test(a) ==
  /\ At(a, "test")
  /\ Write(IF dstate # "failed" /\ ~Good(pin, enabled) THEN "failed" ELSE "idle")
  /\ Goto(a, "arm")
  /\ UNCHANGED <<enabled, cbs, work, hardVars, arg, badset, cut, lost, errors, sets>>

(* Mutant of Arm: the callbacks are installed on success only.               *)
ArmIfIdle(a) ==
  /\ At(a, "arm")
  /\ cbs' = IF dstate = "idle" THEN cbs \cup Armed(enabled) ELSE cbs
  /\ Goto(a, "notify")
  /\ UNCHANGED <<dstate, enabled, work, hardVars, arg, histVars, errors, sets>>

Arm(a) ==
  /\ At(a, "arm")
  /\ cbs' = cbs \cup Armed(enabled)
  /\ Goto(a, "notify")
  /\ UNCHANGED <<dstate, enabled, work, hardVars, arg, histVars, errors, sets>>

Notify(a) ==
  /\ At(a, "notify")
  /\ told' = TRUE
  /\ Goto(a, "idle")
  /\ UNCHANGED <<dstate, enabled, cbs, work, hardVars, arg, badset, cut, lost, errors, sets>>

-----------------------------------------------------------------------------
(* device_from_pgood_cb walks down the callbacks to the first one without a  *)
(* pin mask.  A pin without edges was never given one, so the walk ends      *)
(* there instead of at the marker.                                           *)
FindsDevice(p) == \A q \in Pins : q < p => q \in FallPins \cup RisePins

(* Mutant of HandlePgoods: good pins clear a failure.                        *)
HandlePgoodsClears(p, pins) ==
  /\ dstate' = IF Good(pins, enabled) THEN "idle" ELSE "failed"
  /\ told' = TRUE

(* handle_pgoods for pin p, with the pins as they are now: nothing to do     *)
(* when the test is good.  On a stray device the handler does something      *)
(* else; here, nothing to this regulator.                                    *)
Alarm(p, pins) == FindsDevice(p) /\ ~Good(pins, enabled)

HandlePgoods(p, pins) ==
  IF ~Alarm(p, pins)
  THEN UNCHANGED <<dstate, told>>
  ELSE dstate' = "failed" /\ told' = TRUE

(* An edge on an input interrupts when it is one of the configured edges and *)
(* the callback is installed.                                                *)
Flipped(p) == [pin EXCEPT ![p] = ~@]

Interrupts(p) == p \in cbs /\ p \in (IF pin[p] THEN FallPins ELSE RisePins)

Edge(p) ==
  LET pins == Flipped(p)
  IN /\ pin' = pins
     /\ IF Interrupts(p)
        THEN HandlePgoods(p, pins)
        ELSE UNCHANGED <<dstate, told>>
     /\ UNCHANGED <<enabled, cbs, work, out, pc, arg, badset, cut, lost, errors, sets>>

PinFollows(p) ==
  /\ pin[p] # out
  /\ Edge(p)
  /\ UNCHANGED glitches

PinGlitches(p) ==
  /\ pin[p] = out /\ glitches < MaxGlitches
  /\ Edge(p)
  /\ glitches' = glitches + 1

-----------------------------------------------------------------------------
Finalize(a) ==
  \/ StartDelay(a) \/ BusyWait(a) \/ Schedule(a) \/ ScheduleFailed(a)
  \/ Test(a) \/ Arm(a) \/ Notify(a)

InCall ==
  \/ SetEnabled \/ SetMute \/ SetSwitched \/ SetFailed \/ SetDeferred
  \/ SetSubmit \/ SetUnscheduled
  \/ Finalize(Caller)

Work == WorkStart \/ WorkSwitched \/ WorkFailed \/ WorkDelayed \/ Finalize(Worker)

Next ==
  \/ BootTest
  \/ Call
  \/ InCall
  \/ Work
  \/ \E p \in Pins : PinFollows(p) \/ PinGlitches(p)

Spec == Init /\ [][Next]_vars

(* Init ends, a call that has begun ends and a scheduled work item runs.     *)
FairSpec == Spec /\ WF_vars(BootTest) /\ WF_vars(InCall) /\ WF_vars(Work)
-----------------------------------------------------------------------------
Places == {"idle", "wait", "enable", "mute", "gpio", "submit", "run", "delay",
           "busy", "schedule", "test", "arm", "notify"}

RTypeOK ==
  /\ dstate \in DriverStates
  /\ enabled \in BOOLEAN /\ work \in BOOLEAN /\ out \in BOOLEAN /\ arg \in BOOLEAN
  /\ told \in BOOLEAN /\ badset \in BOOLEAN /\ cut \in BOOLEAN /\ lost \in BOOLEAN
  /\ cbs \subseteq FallPins \cup RisePins
  /\ pin \in [Pins -> BOOLEAN]
  /\ pc \in [Actors -> Places]
  /\ errors \in 0 .. MaxErrors /\ glitches \in 0 .. MaxGlitches /\ sets \in 0 .. MaxSets

AtRest == ~work /\ \A a \in Actors : pc[a] = "idle"

(* A regulator never hangs between two states: get answers -EAGAIN only      *)
(* while init, a call or the work item is on the way to change that.  And    *)
(* nobody waits in vain: by the time a change has settled the subscribers    *)
(* have been told, on which the power graph relies after -EAGAIN.  The one   *)
(* way to hang is the return code that regulator_extended_set ignores        *)
(* (SetUnscheduled): that switch is deferred, unmonitored and untold until a *)
(* fault is simulated.                                                       *)
NeverStuck == AtRest /\ ~lost => Settled /\ told

(* Whatever way a change went, and whether it failed, the callbacks of the   *)
(* direction it went in are installed when it is over.                       *)
MonitorArmed == AtRest /\ ~lost => cbs = Armed(enabled)

(* The outputs are what was asked for, unless setting them failed, the       *)
(* deferred switch got no work item or a simulated fault cut it short.       *)
OutputFollows == AtRest /\ ~badset /\ ~cut /\ ~lost => out = enabled

(* What the power graph expects of its devices.  Between the calls of value_ *)
(* set, the value stays and a device at rest can only fail; one on the way   *)
(* or in its work item comes to rest.  A simulated fault that cuts a change  *)
(* short leaves a stale work item behind and ends the promise.               *)
AnswersLikeDevice ==
  [][pc[Caller] = "idle" /\ pc'[Caller] = "idle" /\ ~cut =>
       /\ enabled' = enabled
       /\ dstate' # dstate =>
            IF Settled /\ pc[Worker] = "idle" THEN dstate' = "failed" ELSE dstate' \in {"pending", "idle", "failed"}]_vars

(* Every change comes to its end, unless its work item could not be          *)
(* scheduled.                                                                *)
Settles == ~Settled ~> Settled \/ lost

=============================================================================
