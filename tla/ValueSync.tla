------------------------------ MODULE ValueSync ------------------------------
(***************************************************************************)
(* The synchronisation loop of drivers/value_sync/sync.c: a delayable work *)
(* item that re-schedules itself and writes the sync value of every target *)
(* once per period.  Whether it is running is not stored: the driver reads *)
(* it from the flags of the work item.                                     *)
(***************************************************************************)
EXTENDS Naturals

CONSTANTS
  NumValues,         \* cfg->num_values
  InitialActiveLoop  \* cfg->initial_active

ASSUME SyncAssumption == NumValues \in Nat /\ InitialActiveLoop \in BOOLEAN

VARIABLES
  flags,   \* of data->work: subset of WorkFlags
  at,      \* where sync_work is: 0 before the loop, i at the target i
  wanted,  \* history: the last call asked for a running loop
  lost     \* history: that call found the item being cancelled

syncVars == <<flags, at, wanted, lost>>

WorkFlags == {"delayed", "queued", "running", "canceling"}

(* The delayable work item of the kernel.  It is scheduled when it is idle   *)
(* or running; a cancel takes it off timer and queue, and marks it if it is  *)
(* running until that run is over.                                           *)
Schedule == flags' = IF flags \ {"running"} = {} THEN flags \cup {"delayed"} ELSE flags

Cancel ==
  flags' = IF "running" \in flags THEN {"running", "canceling"} ELSE {}

SyncInit ==
  /\ flags = IF InitialActiveLoop THEN {"delayed"} ELSE {}
  /\ at = 0
  /\ wanted = InitialActiveLoop
  /\ lost = FALSE

(* Mutant of IsActive: only the timer counts.                                *)
IsActiveTimer == "delayed" \in flags

(* sync_is_active: k_work_delayable_is_pending is any flag at all.           *)
IsActive == flags # {}

(* sync_value_set(SYNC_STATE, on): the number of ways a positive result can  *)
(* come about is not told apart.                                             *)
SetActive(on) ==
  /\ IF on = IsActive THEN UNCHANGED flags
     ELSE IF on THEN Schedule ELSE Cancel
  /\ wanted' = on
  /\ lost' = (on /\ "canceling" \in flags)
  /\ UNCHANGED at

Expire ==
  /\ "delayed" \in flags
  /\ flags' = (flags \ {"delayed"}) \cup {"queued"}
  /\ UNCHANGED <<at, wanted, lost>>

Run ==
  /\ "queued" \in flags /\ "running" \notin flags
  /\ flags' = (flags \ {"queued"}) \cup {"running"}
  /\ at' = 0
  /\ UNCHANGED <<wanted, lost>>

(* Mutant of Rearm: the item is scheduled in init only.                      *)
RearmForgotten ==
  /\ "running" \in flags /\ at = 0
  /\ at' = 1
  /\ UNCHANGED <<flags, wanted, lost>>

(* The head of sync_work: schedule again unless it is being cancelled.       *)
Rearm ==
  /\ "running" \in flags /\ at = 0
  /\ IF "canceling" \in flags THEN UNCHANGED flags ELSE Schedule
  /\ at' = 1
  /\ UNCHANGED <<wanted, lost>>

(* value_set of target i is done.                                            *)
Target(i) ==
  /\ "running" \in flags /\ at = i /\ i \in 1 .. NumValues
  /\ at' = i + 1
  /\ UNCHANGED <<flags, wanted, lost>>

End ==
  /\ "running" \in flags /\ at > NumValues
  /\ flags' = flags \ {"running", "canceling"}
  /\ at' = 0
  /\ UNCHANGED <<wanted, lost>>

SyncTypeOK ==
  /\ flags \subseteq WorkFlags
  /\ at \in 0 .. NumValues + 1
  /\ "running" \notin flags => at = 0 /\ "canceling" \notin flags
  /\ {wanted, lost} \subseteq BOOLEAN

(* A stopped loop is off for good: wherever in its own run, on the queue or  *)
(* on the timer the stop met it, the item is neither queued nor scheduled    *)
(* again before somebody starts it, and a run that was under way is the last.*)
StoppedStays ==
  ~wanted => /\ {"delayed", "queued"} \cap flags = {}
             /\ "running" \in flags => "canceling" \in flags
=============================================================================
