------------------------------ MODULE AdcValues ------------------------------
(***************************************************************************)
(* The poller of drivers/adc_values/adc_values.c: a sync starts a sweep,   *)
(* one conversion after the other into a single buffer, chained by an      *)
(* interrupt and a work item.                                              *)
(***************************************************************************)
EXTENDS Naturals

CONSTANTS
  NumChannels,    \* cfg->num_channels
  InitialActive,  \* initial-active
  MaxFailures     \* bound on the failing starts of a conversion

ASSUME AdcAssumption ==
  /\ NumChannels \in Nat \ {0} /\ InitialActive \in BOOLEAN /\ MaxFailures \in Nat

VARIABLES
  active,    \* data->active
  closing,   \* where a call that switches the poller off is: "no" such call,
             \* or what it writes next, "fault" or "state"
  channel,   \* data->channel
  ready,     \* data->ready
  fault,     \* data->fault
  values,    \* data->values: the sample a value was converted from
  buffer,    \* *data->sequence.buffer
  conv,      \* the conversion the converter is busy with, or NoSample
  task,      \* adc_values_task is about to start a conversion: "sync" or "cont"
  adcWork,   \* data->work is on the work queue
  sweep,     \* the parity of the sweeps that got started
  torn,      \* history: channels that lost the mark of a failure, but not the
             \* other one, since they failed between two writes of such a call
  failures

adcVars == <<active, closing, channel, ready, fault, values, buffer, conv, task, adcWork,
             sweep, torn, failures>>

Channels == 0 .. NumChannels - 1

(* A sample: the channel it was taken from and the sweep it belongs to.      *)
Samples == [of : Channels, sweep : {0, 1}]
NoSample == [of |-> NumChannels, sweep |-> 0]

AdcInit ==
  /\ active = InitialActive /\ closing = "no" /\ torn = {}
  /\ channel = 0
  /\ ready = {} /\ fault = {}
  /\ values = [c \in Channels |-> NoSample]
  /\ buffer = NoSample /\ conv = NoSample
  /\ task = "idle" /\ adcWork = FALSE
  /\ sweep = 0 /\ failures = 0

(* adc_values_value_get: a fault hides whether the value is ready.           *)
Get(c) ==
  [rc |-> IF c \in fault THEN "fault" ELSE IF c \in ready THEN "ok" ELSE "again",
   val |-> values[c]]

(* adc_values_value_set(ADC_VALUES_STATE, on): before a poller is switched   *)
(* off its marks are cleared, those of one kind after those of the other.    *)
SetState(on) ==
  /\ closing = "no"
  /\ IF active /\ ~on
     THEN closing' = "fault" /\ ready' = {} /\ torn' = {} /\ UNCHANGED active
     ELSE active' = on /\ UNCHANGED <<closing, ready, torn>>
  /\ UNCHANGED <<channel, fault, values, buffer, conv, task, adcWork, sweep, failures>>

ClearFaults ==
  /\ closing = "fault" /\ closing' = "state"
  /\ fault' = {}
  /\ torn' = torn \cup (ready \cap fault)
  /\ UNCHANGED <<active, channel, ready, values, buffer, conv, task, adcWork, sweep, failures>>

SetInactive ==
  /\ closing = "state" /\ closing' = "no"
  /\ active' = FALSE
  /\ UNCHANGED <<channel, ready, fault, values, buffer, conv, task, adcWork, sweep, torn, failures>>

(* adc_values_value_set(ADC_VALUES_SYNC, _) on an active poller.             *)
SyncBegin ==
  /\ active /\ task = "idle"
  /\ channel' = 0
  /\ task' = "sync"
  /\ UNCHANGED <<active, closing, ready, fault, values, buffer, conv, adcWork, sweep, torn, failures>>

Fails(n) == failures + n <= MaxFailures /\ failures' = failures + n

(* The first channel is tried NumChannels times, n of which fail.  A busy    *)
(* converter is waited for.                                                  *)
SyncRead(n) ==
  /\ task = "sync" /\ conv = NoSample
  /\ n \in 0 .. NumChannels
  /\ Fails(n)
  /\ fault' = IF n > 0 THEN fault \cup {0} ELSE fault
  /\ IF n < NumChannels
     THEN /\ sweep' = 1 - sweep
          /\ conv' = [of |-> channel, sweep |-> 1 - sweep]
     ELSE UNCHANGED <<sweep, conv>>
  /\ task' = "idle"
  /\ UNCHANGED <<active, closing, channel, ready, values, buffer, adcWork, torn>>

(* adc_values_sequence_callback, in the interrupt that ends a conversion.    *)
Converted ==
  /\ conv # NoSample
  /\ buffer' = conv
  /\ conv' = NoSample
  /\ adcWork' = TRUE
  /\ UNCHANGED <<active, closing, channel, ready, fault, values, task, sweep, torn, failures>>

(* Mutant of WorkBegin: the last channel is not told from the others.        *)
WorkBeginPastEnd ==
  /\ adcWork /\ task = "idle"
  /\ adcWork' = FALSE
  /\ values' = [values EXCEPT ![channel] = buffer]
  /\ ready' = ready \cup {channel}
  /\ torn' = torn \ {channel}
  /\ IF channel < NumChannels
     THEN channel' = channel + 1 /\ task' = "cont"
     ELSE UNCHANGED <<channel, task>>
  /\ UNCHANGED <<active, closing, fault, buffer, conv, sweep, failures>>

(* adc_values_work_handler: the sample becomes the value of the channel, and *)
(* the next one is selected.                                                 *)
WorkBegin ==
  /\ adcWork /\ task = "idle"
  /\ adcWork' = FALSE
  /\ values' = [values EXCEPT ![channel] = buffer]
  /\ ready' = ready \cup {channel}
  /\ torn' = torn \ {channel}
  /\ IF channel < NumChannels - 1
     THEN channel' = channel + 1 /\ task' = "cont"
     ELSE UNCHANGED <<channel, task>>
  /\ UNCHANGED <<active, closing, fault, buffer, conv, sweep, failures>>

(* Mutant of ContRead: a channel that fails is not marked.                   *)
ContReadUnmarked(next) ==
  /\ task = "cont" /\ conv = NoSample
  /\ next \in channel .. NumChannels
  /\ Fails(next - channel)
  /\ ready' = ready \cup channel .. next - 1
  /\ values' = [c \in Channels |-> IF c \in channel .. next - 1 THEN buffer ELSE values[c]]
  /\ IF next < NumChannels
     THEN channel' = next /\ conv' = [of |-> next, sweep |-> sweep]
     ELSE channel' = NumChannels - 1 /\ UNCHANGED conv
  /\ task' = "idle"
  /\ UNCHANGED <<active, closing, fault, buffer, adcWork, sweep, torn>>

(* The channels before next cannot be started: each is marked, and its value *)
(* converted from the old sample on the next turn of the loop.               *)
ContRead(next) ==
  /\ task = "cont" /\ conv = NoSample
  /\ next \in channel .. NumChannels
  /\ Fails(next - channel)
  /\ fault' = fault \cup channel .. next - 1
  /\ ready' = ready \cup channel .. next - 1
  /\ values' = [c \in Channels |-> IF c \in channel .. next - 1 THEN buffer ELSE values[c]]
  /\ IF next < NumChannels
     THEN channel' = next /\ conv' = [of |-> next, sweep |-> sweep]
     ELSE channel' = NumChannels - 1 /\ UNCHANGED conv
  /\ task' = "idle"
  /\ UNCHANGED <<active, closing, buffer, adcWork, sweep, torn>>

-----------------------------------------------------------------------------
Sweeping == conv # NoSample \/ adcWork \/ task # "idle"

AdcTypeOK ==
  /\ active \in BOOLEAN /\ adcWork \in BOOLEAN /\ closing \in {"no", "fault", "state"}
  /\ channel \in Channels /\ {ready, fault, torn} \subseteq SUBSET Channels
  /\ values \in [Channels -> Samples \cup {NoSample}]
  /\ buffer \in Samples \cup {NoSample} /\ conv \in Samples \cup {NoSample}
  /\ task \in {"idle", "sync", "cont"}
  /\ sweep \in {0, 1} /\ failures \in 0 .. MaxFailures

(* A channel that reads without an error shows a sample of its own channel,  *)
(* whatever failed and was skipped in the sweep, and whenever the poller was *)
(* switched off and on; between two sweeps it is one of the last that got    *)
(* started.  Of a channel that fails while the marks are being cleared only  *)
(* the mark of the failure is lost: it shows the sample of another one.      *)
OwnSample ==
  \A c \in Channels \ torn : Get(c).rc = "ok" =>
    /\ Get(c).val.of = c
    /\ ~Sweeping => Get(c).val.sweep = sweep
=============================================================================
