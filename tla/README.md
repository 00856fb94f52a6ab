# zephyr_value, specified

zephyr_value is a set of Zephyr drivers around one small API: a *value* is a
number of a device that can be read (`value_get`), written (`value_set`) and
watched (`value_sub`). Most drivers are both users and providers of values, so
that a product is built by wiring them in the devicetree.

This directory holds TLA+ modules of these drivers, the TLC configurations that
check them and the theorems TLAPS proves about them. Paths of source files are
relative to `src/`. `PROJECT.json` maps every definition to the lines it models.

## The system

### Who runs

* the **system work queue**, a cooperative thread: a work item is not preempted
  by threads of one core, and two items never overlap;
* **threads** (shells, the application), which can call any driver;
* **interrupts**: the power good pins of a regulator, the end of an ADC conversion.

No driver takes a lock. What protects shared data is the work queue being
cooperative, and where a caller is an interrupt or sits on another core, nothing.

### Components

| component | state | operations | calls |
|---|---|---|---|
| value API (`include/zephyr/drivers/value.h`) | one list of callbacks per watched value | `value_sub_manage`, `value_sub_notify` | callbacks of subscribers |
| power graph (`drivers/power_graph/power_graph.c`) | state, requested state, current transition and stage, work item, fault log | task (work item), callback of a switched device, `get`, `set`, `sub` | `get`/`set`/`sub` of the devices it switches |
| regulator (`drivers/regulator_extended/regulator_extended.c`) | driver state, enabled, installed callbacks, delayable work item | `set`, `get`, work item, power good interrupt, init | GPIO, its subscribers |
| I2C device configurator (`drivers/i2c_device_configurator`) | state, status, work item | `set`, `get`, work item | the bus, its subscribers |
| I2C config switch (`drivers/i2c_config_switch`) | state | `set`, `get` | targets of the bus |
| synchronisation loop (`drivers/value_sync/sync.c`) | delayable work item | `set`, `get`, work item | `set` of the SYNC value of others |
| ADC values (`drivers/adc_values`) | active, channel, ready and fault marks, samples, work item | `set` (state, sync), `get`, end of conversion | the converter |
| filter (`drivers/value_filter`) | alpha, 1 - alpha, active, marks, values | `set`, `get`, sync, load, save, reset | `get` of its inputs, settings |
| mixer (`drivers/value_mix`) | weights, output, ready, active | `set`, `get`, sync, load, save, reset | `get` of its inputs, settings |
| calculator (`drivers/value_calc`) | results, ready marks, active | `set`, `get`, sync | `get` of its inputs |
| min max (`drivers/value_minmax`) | extremes, ready marks, active | `set`, `get`, sync | `get` of its inputs |
| condition monitor (`drivers/condition_monitor`) | active, latched fault | `set`, `get`, sync | `get` of its inputs, its subscribers |
| parameters (`drivers/value_params`) | values | `set`, `get`, load, save, reset | settings |
| shells | none, except a waiting command | print and parse | all of the above |

The paths that carry the behaviour:

1. A client sets the state of a power graph. The work item looks for a route,
   and for each stage of a transition reads the device, sets it when it is not
   where it belongs, and returns when the device answers -EAGAIN. The device (a
   regulator, an I2C configurator) finishes later and calls the graph's callback,
   which submits the work item again. A callback at rest means that a device
   failed by itself: the graph logs it and goes to its safe state.
2. A regulator switches its outputs, waits for the startup delay in its work
   item, tests its power good pins, installs the interrupts and notifies. An
   interrupt that finds the pins wrong fails the regulator and notifies.
3. A synchronisation loop writes the SYNC value of ADC, filter, mixer,
   calculator, min max and monitor in order, every period. Each of them reads
   the values of those before it, pulls them through, and keeps a mark per value
   that says whether it is ready.
4. Filter, mixer and parameter device keep their parameters in the settings:
   a value of each saves them, another loads them, and init loads them.

### What is hard, and what makes each part correct

* power graph: interrupts and clients come between any two steps of the task.
  Correct is: one device at a time is under way, stages in the declared order,
  the state moves only along declared transitions, no request is forgotten, the
  task never keeps the work queue, the graph comes to rest, faults end in the
  safe state.
* route search: recursion cut off by a depth. Correct is: a route is found
  exactly when there is one, following it step by step arrives.
* fault log: a ring with hand made index arithmetic. Correct is: the newest
  faults, newest first.
* regulator: three actors write the driver state. Correct is: never stuck, every
  settled change told, monitored whenever it is settled, outputs as asked for,
  failures reported.
* synchronisation loop: stop against a running item. Correct is: stopped stays
  stopped, started keeps going.
* ADC: a new synchronisation against a conversion under way. Correct is: a
  sample ends in the channel it was taken for.
* filter, mixer, calculator, min max, monitor: one pass over their inputs per
  round, and a client whose calls write two fields, one after the other, with
  rounds in between. Correct is: what reads without an error is of this round, in
  range, and no alarm is false.
* parameters of filter, mixer and parameter device: write, reset, save, load, power
  cycle. Correct is: what was saved comes back, nothing leaves its limits.
* the whole rail, a graph over real drivers: nothing is configured without power,
  a graph at rest has its devices where it says, every waiting command ends.

`PROJECT.json` lists the hazards at their lines, those without a property too.

## Modules

| module | models |
|---|---|
| `FaultLog` | `put_fault`, `num_faults`, `get_fault`: the ring, in actions other modules use |
| `RecentFaults` | the abstract log: the newest faults, newest first |
| `TransitionSearch` | `find_first_transition(_to_state)` as a function of table, state and request |
| `TransitionWalk` | the outer loop of `power_graph_task` over all small tables |
| `StagePack` | how a stage is packed into an integer of the tables, and the widths it needs |
| `PowerGraph` | EXTENDS `FaultLog`: the task step by step, `power_graph_cb`, `power_graph_set` of several clients, abstract devices |
| `RegulatorExtended` | the caller of `set`, the work item, the interrupts, the pins, the boot delay |
| `I2cConfigurator` | the encoded operations and their interpreter, `set`, the work item, a bus that fails |
| `ValueSub` | the list of subscriptions, the test for an active callback, the dispatch |
| `PowerRail` | `PowerGraph` with a regulator, a configurator and a config switch as its devices, and shell commands that wait |
| `ValueSync` | the delayable work item of the loop with the flags of the kernel |
| `AdcValues` | the sweep over the channels: task, interrupt, work item |
| `Acquisition` | EXTENDS both: a loop that drives a poller |
| `ValueType` | the width of `value_t`, and the division of C |
| `Filter`, `Mix`, `Calc`, `MinMax`, `ConditionMonitor` | the operations of these drivers as functions of their data |
| `Pipeline` | the five behind one another on one loop, with a client |
| `Params` | the parameter device, its pairs in the settings |
| `Tuning` | filter, mixer and parameters with settings, resets and power cycles |
| `MC*` | graphs, tables, delays, programs and sets of values for TLC |
| `*_proofs` | theorems |

### PowerGraph

`pc` cuts `power_graph_task` wherever a callback or a client can touch what the
task reads next: `check` (head of the loop, 303), `search` (312), `stage`
(328-353), `set` (376), `finish` and `close` (369-371), `fault`, `abort`, `drop`,
`safe` (388-395). The transition and the stage are written together. Indices
count from 1, and `None` = 0 stands for `NO_STATE` and `NO_STAGE`.

A device is what the graph sees of it: `value`, what `value_get` writes, and
`status`, what it returns. `SetDone`, `SetStarted` and `SetRefused` are the three
outcomes of `value_set`; in the first the callback comes before the call returns.
`DevFinish` ends a change on the work queue; `DevFail` is an interrupt. This
is what `drivers/regulator_extended` does (`AnswersLikeDevice` checks it), and
`PowerRail` runs the task over the drivers themselves. Devices in `Broken` answer
`value_get` with an error other than -EFAULT; devices in `Deaf` refused the
subscription, as a config switch does.

`FirstTransition` is a constant of which the module knows that it answers with a
transition out of the current state or with none. The runs give it
`SearchTable` of `TransitionSearch`. Their stages are what was declared, which is what
the task reads under `PackingAssumption` of `StagePack` (theorem `StagesKept`).

The transitions are assumed to have stages and to join declared states. The
generated tables are not checked for it: `CHECK_TRANSITION` is emptied at
`drivers/power_graph/power_graph.c:655`.

`WorkqFirst` decides how clients interleave. TRUE: a client is a thread of the
same core, so it never runs while the work item is running or queued. FALSE: it
is on another core or in an interrupt.

### TransitionSearch and TransitionWalk

The recursion of `find_first_transition_to_state` is a function of the depth: `Answers`
at h is what a call with h as its hop count answers for every wanted state, made of the
answers at h + 1 (`AnswersAt`), and nothing where the code stops (`TooDeep`). Its loop
over the transitions is `Direct`, which breaks it, or the `Best` of those `Via` the
answers below. The walk carries out what is found until it is where it was asked to be.

### RegulatorExtended

Three actors with a program counter each: the caller of `value_set`, the work
item and the end of init. `finalize_transition` is one set of actions that caller
and work item share. `cbs` are the installed interrupts, `out` the outputs, `pin`
the power good inputs, which follow `out` whenever they like and may glitch.
Calls of `value_set` do not overlap each other. `told`, `badset`, `cut` and `lost`
are history variables for properties. `WorkqFirst` as above, for the caller.

`k_work_schedule` is called twice, and `ScheduleFails` says whether it can fail.
`finalize_transition` looks at what it returns (278, `ScheduleFailed`).
`regulator_extended_set` does not (411, `SetUnscheduled`): a switch that was deferred
then stays deferred, with its callbacks removed, nobody told and nobody on the way.
`lost` marks it, until a simulated fault, the only call that a deferred regulator does
not refuse, gets it out. `NeverStuck`, `MonitorArmed`, `OutputFollows` and `Settles`
exempt that switch and nothing else.

### I2cConfigurator, ValueSub and PowerRail

`Encode` is what `STATE_CONFIG_IMPL` makes of the declared operations, bytes with
an opcode and a length in one. `Exec` is `cw_exec`: `Position` is where its op pointer
is after so many writes, up to `op_done`. `chip` is
what the chip was sent since the state was last set; a write may fail at any place.

`PowerRail` instantiates `PowerGraph` with `value` and `status` as expressions
over the drivers' variables, so that its task actions read what `value_get` of
the drivers answers, and replaces the three `Set*` actions by the calls of the
drivers, step by step for the regulator. Work items of graph, regulator and
configurator take turns on one queue; pins interrupt anywhere; a notification of
a driver is `power_graph_cb`. Scheduling work does not fail on the rail
(`ScheduleFails` FALSE): a regulator whose switch got no work item would hold the graph
in its transition for ever, and neither graph nor commands would come to rest. A command is `cmd_state` of `power_graph_shell.c`:
set, get, and on -EAGAIN subscribe, take the semaphore (which the graph gives, or
five seconds end it), unsubscribe. Its lock and callback are on its stack.

### ValueSync, AdcValues and Acquisition

Whether a loop runs is not stored: `IsActive` is any flag of the work item, as
`k_work_delayable_is_pending` has it. `Schedule` and `Cancel` are the kernel's:
a schedule does nothing for an item that is already delayed or queued, a cancel of a
running item marks it until that run is over.

A sample is the channel it was taken from and the parity of its sweep. `conv` is
the conversion the converter is busy with, `buffer` the single sample buffer. The
task's loop over channels that cannot be started is one action with the number of
failures as its parameter, because it runs without anybody in between that touches
its data; starting a conversion waits for a busy converter, which lets threads in.

A thread that switches the poller off is preempted between its three writes
(`SetState`, `ClearFaults`, `SetInactive`). A channel that fails after the first and
before the second has both of its marks set and loses one of them: it then reads the
sample of another channel without an error. `torn` holds such channels, `OwnSample` is about
the others, and is false of these.

### Pipeline

The data of a driver is a record and an operation a function of it. `Round` is one
period: the loop writes the five sync values from the cooperative queue, and
nothing comes between. A client's call that writes two fields is two actions, the
first write and `Finish`, with rounds in between: state and marks for
`*_STATE`, alpha and 1 - alpha for `FILTER_ALPHA`. Readings and filter outputs are
not negative, so the division of C is that of TLA+; `Calc` has the `Quotient` of
`ValueType`. `ValueMax` has its real value, which none of these numbers reaches.

The function that the devicetree generates for the calculator is `After`, its state
after so many operations: a variable per name with its mark, the marks of the results and
the results. `ResultsCurrent` compares what it leaves with `Meaning`, which reads the same
operations as equations and knows no order, no variable and no mark: an operation
stands for the set of values it has, which is empty behind a division by zero.
`CalcAssumption` asks what the C compiler asks of the generated names, and that none
is used before its operation.

### Tuning

`store` holds per driver nothing or what was saved; a save may fail. `Restart`
forgets the drivers' data and runs their init over the store. `Stacks` is what lies
on the stack behind the array that `params_settings_set` reads its pairs into:
the code takes the number of bytes it read for a number of pairs, and the model
sets up to two pairs from there before those that were saved.

`mix_config_##id` (`mix.c:339`) lacks the initialiser of `settings_name` that filter and
parameter device have, so the mixer's settings have no name (`MixSettingsName` = `NoName`).
`Save` refuses to save without one, as every backend of the settings does, and
`LoadSubtree` without one loads all that is stored. So a mixer never has weights
to load, and each of its loads, in its init too, loads filter and parameters: changes
of them that were not saved are lost. `Restart` therefore takes the parameters with or
without a second load, depending on which init the linker puts first; the alpha of a filter
is the same after one load as after two.

The settings are taken to be ready when the drivers load them, at POST_KERNEL 95. Nothing
in this repository calls `settings_subsys_init`; a product has to do so before.

The conversions of `FILTER_SAMPLES` and `FILTER_WINDOW` are narrowed to `value_t` where
the code casts, assigns, or adds in 32 bits (`Narrow`, `filter.c:227-236`, `311-322`). A sum that
overflows wraps, because Zephyr is compiled with `-fno-strict-overflow`. A quotient
that does not fit reads as another number: with a scale of 2^20 an alpha of 511 reads as 7356448
samples, which are written back as alpha 261632; with a scale of 2^16 an alpha of 1 reads as -65536,
and the divisor of writing that back is zero. `ReadBack` is about the numbers that fit. The run has a
`value_t` of seven bits with a scale of 6 and a period of 13, so that samples and windows of small
alphas do not fit. Numbers whose divisor is zero are left out of `FilterParam`: what a division
by zero does is undefined, and none of its outcomes that return sets an alpha.

## Runs

All runs use the bounds in their cfg.

| run | what it shows | bounds | distinct states |
|---|---|---|---|
| `transition_walk` | the search is complete; the walk never revisits a state | all tables of up to 4 transitions over 4 states: every shape of route, cycle and side branch these allow; the theorems are about any table | 53,092 |
| `power_graph` | one device under way, order of stages, no lost wakeup, declared transitions | 3 devices, one unreadable without callback, 4 states, one without a route, 5 transitions, 2 preempting clients, 2 failures, 2 requests | 1,270,202 |
| `power_graph_live` | the log, its writers apart, graph comes to rest, safe state reached | 2 devices, 3 states, a first hop out of the third that leaves one device alone, 2 clients that ask for states 2 and 3 and never preempt, 2 failures, 2 requests, log of 2 so that it wraps | 176,964 |
| `regulator` | never stuck but for the one ignored error, subscribers told, monitor on, outputs follow, answers as a device of `PowerGraph`, settles | 3 pins (falling, both, none), deferred and delayed switches, both calls of `k_work_schedule` failing, simulated faults, 2 errors, 2 glitches, 3 calls | 43,777 |
| `power_rail` | the promises of `PowerGraph` of real drivers; power before configuration; rest is as declared; commands end | regulator with a pin and a deferred switch, chip with two nodes and a block write, switch; 2 commands, 1 failing output, 1 glitch, 1 failing write | 153,230 |
| `acquisition` | stop is final; own samples; sampling goes on | 2 targets, 3 channels, 3 failing starts, loop and poller switched at will, the poller write by write | 80,627 |
| `pipeline` | in range, nothing stale, exact peaks, current results, alarms neither false nor repeated | 2 sources with 2 and 3 values that fail or are late, 3 alphas, 2 calls | 295,655 |
| `tuning` | limits, weights that add up, conversions, what survives a power cycle | filter, 2 inputs, 3 parameters, 6 values, `value_t` of 7 bits, 5 calls, any number of power cycles | 116,772 |

`power_graph` lets clients in between any two steps (`WorkqFirst` FALSE), which
covers the behaviours of a cooperative queue. `LogExclusive` needs that queue, and
`power_graph_live` checks it there.

`dts/bindings/power-graph.yaml:16` says of the safe state "This is a safe state to switch in
case of errors." That needs more than the queue. A client that has passed its checks
(`power_graph.c:552-566`) and is preempted before its write (568) sleeps through the fault
of a device at rest, the callback's request for the safe state (468-477) and the start of the
transition there. When the task waits for a device (337) the client goes on and overwrites
the request. If the failed device is a stage of the current transition, the task
aborts it and asks for the safe state again; if not, nobody does, and the graph settles
where the client wanted it. `MCPowerGraph`'s way out of state 3 leaves device 1 alone so
that this happens in the run, and `SafeReached` speaks of a request for the safe state
while no client stands ready to overwrite it (`cpc` at `commit`). Without that condition
the run violates it.

A failure, a request or a glitch is counted and bounded because it is an input;
two of each is what it takes to meet a second one during the handling of the
first, and where a run has one, another run has two. In `pipeline` two calls are
what switches a driver off and on again, or writes alpha and resets it; `MaxOutput`
cuts off outputs that weights apart sum up to. In `acquisition` the parity of
a sweep is enough to tell the last one from the one before; `SlowSync` keeps the
period longer than a sweep. Once the bounds are used up a system may be at rest for
good, so deadlock is not checked there.

Fairness: a queued work item runs and goes on running, a started change of a
device ends, a call of `value_set` that passed its checks goes on, a command goes on
when the queue lets it, a timer expires, a conversion ends. Nothing has to fail and
nobody has to ask for anything. Fairness of `QueueStep` in `PowerRail` is weak and
over the queue as a whole: it is one thread. `SafeReached` is about clients that
never ask for the safe state themselves, so that a request for it always stems
from a fault. `KeepsSampling` leaves out channels marked as failed.

"violation" runs show where the code does something else than the repository
says; `PROJECT.json` quotes the sentence of each.

| run | what happens |
|---|---|
| `power_graph_busy` | two clients leave a resting graph that answers -EBUSY for ever |
| `weights_lost` | weights that were saved are not there after a power cycle |
| `subscription_assert` | the last callback of a list counts as not subscribed, and to unsubscribe it fails the assertion |
| `params_load` | a load leaves the parameter with the highest identifier as it was |

Reading the code against its documentation for the modules showed more, for which
no run is kept.

Power graph:
* A fault can be read at depth = number of faults (197), a slot nothing was logged to.
* Of two routes the longer can be taken: the hops compared are the depth at which the
  call was made, not the length of the route it found (265).
* A fault of a device whose stage has passed in the same transition goes unnoticed (340).
* `power_graph_set` compares 32 bits (552) and looks up 8 (563): 257 passes as 1.
* A refused `value_set` gives up a transition that ignores faults (377), where
  `dts/bindings/power-graph.yaml:86` says "Go to the next stage when previous failed."
* A client can overwrite the request for the safe state (568), see Runs.
* A device whose subscription failed and that answers -EAGAIN would be waited for in vain
  (423); no device of the repository does both.
* Stages are declared as `stage_idx_t` (636) and read as `packed_stage_t`; 3 devices
  with 80 values need nine bits and get eight. `PackingAssumption`, that the widths are
  the same and the largest stage fits, says which
  configurations are safe.
* The shell reads, then subscribes (`power_graph_shell.c:137`): a graph that settles
  in between has told nobody, and the command ends after five seconds.

Regulator (`drivers/regulator_extended/regulator_extended.c`):
* When setting the outputs fails the state is failed (414), and `finalize_transition` overwrites
  it with idle (290-300): `get` reports success, where
  `include/zephyr/dt-bindings/regulator_extended.h:27` says "If regulator failed to turn its state
  then @p value_get will return -ECANCELED." `badset` marks it.
* A failing `k_work_schedule` of a deferred switch is ignored (411): the regulator is stuck.
* A power good lost between the test and the installation of the interrupts goes
  unnoticed (290-297).
* A failed regulator that is set again is not tested (290), nor is a simulated
  fault (423) still there when `set` returns; one while the work is scheduled fails
  the assertion in 323.
* `REGEXT_PGOOD` of a disabled regulator tests for active pins (360).
* The walk to the device of an interrupt (152) ends at a pin without edges.
* The work item writes idle before its test (335): a caller in an interrupt can
  start a change in the middle of its end, and the outputs stay behind.

Acquisition:
* A start of a loop that is just being cancelled is lost (`sync.c:134`).
* A channel that fails while the poller is being switched off reads the sample of another one
  without an error (`adc_values.c:175`).
* A period shorter than a sweep puts a sample into the wrong channel (`adc_values.c:73`).
* A poller switched off in the middle of a sweep finishes it and marks its channels
  ready again; a channel that failed once reads as failed until the poller is switched off.

Values:
* `FILTER_PARAM_RESET` leaves 1 - alpha as it was (`filter.c:146`): outputs can sum
  up without bound, and writing the default alpha afterwards is "nothing to do".
* An alpha of 0 is accepted, and reading samples or window divides by it (`filter.c:229`).
* A load of the filter after a default alpha was saved loads nothing: the setting is
  deleted, and alpha stays what it was (`filter.c:127`).
* A round between the writes of alpha and 1 - alpha keeps its error (`filter.c:283`).
* Samples and windows that do not fit in 32 bits are cut off (`filter.c:227`, `234`), see Tuning.
* A monitor that is switched between a fault and the clearing of its latch has told an
  alarm that nobody can read any more (`monitor.c:94`).
* Nobody names the mixer's settings (`mix.c:340`): its saves fail, and its loads load the
  settings of all drivers (`mix.c:111`).
* Stored weights overwrite the current ones before their number is checked (`mix.c:91`).
* `mix_shell.c` sets as many weights as an uninitialised variable says (319), up to
  `MIX_STATE`, and its result overwrites the selected input: only input 0 can be selected.
* A result of the calculator is returned whether or not it is ready (`calc.c:89`).
* An operation may name the value of a later one, which is then read uninitialised
  (`calc.c:191`, `281`).

## Theorems

Each holds for every value of the constants that meets the named assumptions of the
modules it is about; TLC evaluates those assumptions on the instances of the runs.

Fault log and power graph (`LogDepthAssumption`, `GraphAssumption`, `SearchAssumption`,
`EntriesAssumption`):

* `LogInvariant`, `LogKeepsNewest` (`FaultLog_proofs`): the ring implements
  `RecentFaults`. The inductive invariant `LogInv` says that a ring that is not
  full yet has its newest entry in the last slot in use; without it the wrap of
  `SlotOf`, which adds `numFaults` and not the depth, is wrong. Each `PutFault`
  is shown to move what `get_fault` reads at k to k + 1.
* `TypeCorrect`: `TypeOK` is inductive as it stands. It carries where the stage
  is for each program counter, so every stage read exists.
* `AtMostOnePending`: needs `PendingInv`. A device under way is that of the
  current stage (`OnePending`), and from `StageReadable` on, until the transition
  is dropped, none is under way (`Steady`, `OnlyReadable`).
* `WakeupNeverLost`: assumes `Deaf \subseteq Broken`. A device that refused the
  subscription and answers -EAGAIN would be waited for in vain; the code goes on
  after a failed subscription.
* `StagesInOrder`: on top of `PendingInv`, because a stage is passed only when
  its device is at rest with the value of the stage, and nothing but the current
  stage's device is set.
* `StateFollowsGraph`: needs `RouteInv`: a current transition starts at the
  current state while it is under way (`Departs`), and in the error branch the
  newest fault is of the current transition or the request has changed (`Logged`).
* `LogWritersExclude`: assumes `WorkqFirst`. `Underway` says that new_state
  differs from state throughout the task after its head, since nobody but clients
  and the task write either in a transition.
* `GraphKeepsLog`, `GraphLogKeepsNewest`: a power graph step is a log step, so
  the log it keeps is the abstract one.

Route search (`WalkAssumption`), over tables of any length and any number of states:

* `SearchAnswersDepartures`, `SearchTableDeparts`: every answer is the index of a
  transition out of the current state. This is what `SearchAssumption` asks of the
  constant `FirstTransition`, for every table the search can be given.
* `WalkTypes`, `SearchFindsRoutes`: the walk stays in the declared states, and the
  search, cut off at a depth, answers exactly when a route exists. With n transitions
  a call at depth h answers for the states at most n - h + 1 transitions away
  (`AnswersReach`, backwards over the depth), and the first call is at depth 1.
* `WalkEnds`: the walk never comes back to a state it left for the same request, so it
  ends. At each depth the states that can reach a wanted one are in a strict
  order (`StrictOrder`): those with a transition of their own to it first, the others by
  the index of the transition their route goes through and then by the order one depth
  below (`Descends`). Carrying out what the search found leads to a smaller state or to
  the wanted one (`SearchDescends`), and the states behind the walk are never smaller.
* `StagesKept` (`PackingAssumption`): every stage is read from the tables as it was
  declared. The device index stays below the power of two it is packed with
  (`DeviceBits`), so division and remainder take the two apart, and no stage is
  larger than the largest.

Regulator (`RegulatorAssumption`):

* `RegulatorTypes`: `RTypeOK` is inductive as it stands.
* `NeverLeftStuck`, `MonitorStaysArmed`: with failing schedules anywhere, and the switch they leave
  behind (`lost`) as the only exception; from `RegulatorInv`. An unsettled state, an
  untold answer and a missing callback each have somebody on the way who will settle,
  tell or install (`SettleInv`, `TellInv`, `ArmInv`); while init waits nobody else is at
  work (`BootInv`). Nothing is assumed of `WorkqFirst`: it holds for callers on
  another core too.
* `OutputsFollow`: assumes `WorkqFirst`. `TurnsInv`: as long as no change was cut
  short or left without its work item, caller and work item take turns (`ApartInv`), no interrupt changes the state
  once the callbacks are removed (`QuietInv`), and outputs that are behind have a
  switch before them (`OutputInv`).
* `RegulatorIsDevice`: every step changes what `get` and the callback show the way
  a device of `PowerGraph` may change. With it the abstract devices are justified.

Rail (`RailGraph`, `RailSearch`, `RailEntries`, `RailDevices`, `ConfiguratorAssumption`,
`OperationsFit`, and those of the regulator). The lemmas about the task and the
regulator are those of `PowerGraph_proofs` and `RegulatorExtended_proofs`, cited through
the instances `GP` and `RP` of these modules with their assumptions shown from those of
the rail:

* `RailKeepsTypes`: `RailTypes` adds to the types that the caller of the regulator is
  the task at a `value_set`, and that the work item of the regulator runs while the
  task does not (`Turns`).
* `DriversKeep`: what `PowerGraph` promises of abstract devices holds over the drivers.
  `RailInv`: the regulator keeps its own invariants (`DriverInv`), what is under way
  belongs to the current stage (`Pending`, `Owner`), and while the regulator's work
  item is between its steps the wakeup is still to come (`Wakeup`).
* `NoneDangles`: for any number of commands; `ListInv` is the property with the type
  of the list, and uses that a list without repetition is so after one removal.
* `PowerComesFirst`: for graphs with `StagesPowered`, whose transitions switch the chip
  and the bus on behind the regulator and off before it. On top of `StageOrder`, the
  regulator is switched as the stage says and a device is set only when it is not where
  it belongs (`Asked`), and everything is off whenever the regulator is (`Powered`).
* `RestIsDeclared`: for graphs with `StagesComplete`, whose transitions name every device.
  A graph that is not between a fault and its request for the safe state (`Adrift`) has
  every device it has passed where the transition says (`Arrived`), and a chip that
  reports success was sent the declared writes (`Configured`). The latter needs
  `WritesDeclared`: for any operations that fit in seven bits of length, interpreting
  the encoded bytes gives them back in order.
* `RestIsSupplied`: the same for the pins behind the answers. A graph at rest has the
  outputs of its regulator as its state declares, unless setting them failed, and the
  callbacks of that direction installed (`Supplied`): nothing of the regulator is under
  way then (`RegulatorAtRest`), so `OutputInv` and `ArmInv` leave nothing open.
* `RailStagesInOrder`, `RailStateFollowsGraph`, `RailLogKeepsNewest`,
  `RailLogWritersExclude`: what is proved of the power graph holds on the rail, whose
  task runs over drivers that are in the middle of a call where an abstract device
  takes one step. Outside the task a step writes the log through a callback or not at
  all (`OutsideLogs`), leaves a request that differs from the state alone
  (`NextAside`), and moves no device but that of the current stage (`OnlyCurrentMoves`).

Acquisition (`SyncAssumption`, `AdcAssumption`, `AcquisitionAssumption`):

* `AcquisitionTypes`: needs that the loop is at the poller while the poller takes its
  sync (`SyncHeld`).
* `StopIsFinal`: `StoppedStays` is inductive as it stands: a
  schedule looks at the mark that a cancel left, and only a start takes it away.
* `SamplesAreOwn`: assumes `SlowSync`, a period longer than a sweep; without it a new
  synchronisation meets a conversion under way and the property is false. It is about the
  channels that are not `torn`. The
  inductive `AcquisitionInv` adds who may be at work (`Turns`: converter, work item
  and task one at a time, none of them while the loop comes back), that what is
  converted or buffered belongs to the current channel of the current sweep
  (`InFlight`), and that the channels before it are done (`OwnValues`).

Pipeline (`PipelineAssumption` and those of its drivers), for any readings, alphas, operations
and number of calls over the wiring of `Pipeline`:

* `NeverStale`: `NothingStale` needs that a driver that is
  switched off has no marks left unless the call that switches it off is not over
  (`OffIsUnready`), and the fields of the records (`FilterShape`, `MixShape`).
* `StaysBetweenSamples`: `RangeInv`. A ready value lies between two samples it was made
  of (`Smoothed`), which is kept because a floor of a weighted mean lies between
  what it weighs (`FloorBetween`), whichever alphas a call has written so far.
* `PeaksAreExtremes`: `PeakInv`, that minimum and maximum are members of the history and
  bound it, on top of `RangeInv` for the values that are read.
* `AlarmsHaveReasons`: assumes `WeightsFit`, that the weights map values within the limits to
  values within the limits; a monitor with other limits may alarm. `AlarmInv`:
  a latched fault was told once and has its reason (`Justified`).
* `ResultsAreMeant`: for every list of operations the devicetree may declare a ready
  result has the one value the operations mean for the filter outputs as they are. Along
  the operations, a variable is marked exactly when its operation has a value, and holds
  it; so does a result for the last operation before that has its identifier (`Calculated`,
  kept by `OpRuns` and `OpSkipped`). At the end that is the operation the result comes
  from (`LastComputes`). `CalcInv` carries this through rounds and the two writes of a switch.
* `PipelineTypes`: from all of these, with the rest of the fields (`OtherTypes`).

Tuning (`TuningAssumption`, `ParamsAssumption`, `FilterAssumption`, `MixAssumption`), from
`TuningInv`: every driver's data is in its limits, and what is in the store of filter and parameter device is what
was kept of them, or nothing where that was the default (`FilterStored`, `ParamsStored`), and of the
mixer nothing (`MixStored`):

* `ParametersInLimits`: through loads, resets and power cycles, whatever is on the stack
  behind the array.
* `OnlyResetTakesApart`: alpha and 1 - alpha add up unless a reset wrote alpha only.
* `SamplesReadBack`: for every width of `value_t` a number of samples that fits, written back as it
  was read, gives the same alpha. What fits is left alone by `Narrow`, and the two divisions round
  against each other.
* `WeightsForgotten`: an action property: after `Restart` the mixer has its default weights,
  whatever was done before; nothing is ever in the store for it (`MixStored`).
* `SettingsSurvive`: an action property: after `Restart` filter and parameter device hold what was
  saved, for any parameters and whether or not the mixer's init loads them again; the two loops (`params_save`, `params_settings_set`) are shown to
  run over all of them, the highest identifiers first.

Recursive functions (the answers of the search, the loops of the parameters, the operations
of the calculator and their meaning, `FlattenSeq`, the op pointer of `cw_exec`) are shown to be defined and to have the value
they are used with by taking the smallest number where that fails (`WFMin` of the
library), because its induction theorems take an operator as a parameter.

`StagesPowered`, `StagesComplete` and `WeightsFit` speak of a product's configuration and are
hypotheses of the theorems that need them; the MC modules assert them of the instances that are run.

Only model-checked:
* everything under fairness (`ComesToRest`, `SafeReached`, `Settles`, `CommandsEnd`,
  `RailRests`, `KeepsSampling`): the prover has no rules for `WF` and `ENABLED`. Their
  safety halves are proved: no request is forgotten, no regulator is left
  unsettled with nobody on the way, a walk never comes back;
* the negative results of the "violation" runs.

Every invariant and every action property that a run checks is stated by a theorem.

## Plan

The order in which the project was built: route search and power graph, their log, the
regulator, the value chain, the rail that joins graph and drivers, the parameters; theorems
about each component, then about what they do together. What could follow:

1. The error returns of the init functions, if devices come to be used after them.
2. The calculator and the filter with unequal scales and negative readings, which needs
   C's division in `FloorBetween`.
3. The commands of the regulator's shell on the rail: they bypass the graph, and
   `OnePending` would have to say what is left of it.

## Not modelled

Shell parsing and printing; Kconfig and devicetree generation, which fix the
constants; error returns of the init functions, after which a device is not used;
a build of the regulator without power good monitoring; the cycle counters of the
synchronisation loop; unequal scales of filter and calculator, which only multiply;
readings below zero in the filter, where C rounds towards zero; settings written by
another firmware.
