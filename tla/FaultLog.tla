------------------------------- MODULE FaultLog -------------------------------
(***************************************************************************)
(* The fault log of the power graph driver: put_fault, num_faults and      *)
(* get_fault of drivers/power_graph/power_graph.c.  A ring of LogDepth     *)
(* entries with the number of entries written and the index of the newest. *)
(* PowerGraph EXTENDS this module and writes the ring through PutFault.    *)
(***************************************************************************)
EXTENDS Integers, Sequences

CONSTANTS
  LogDepth,   \* CONFIG_POWER_GRAPH_FAULT_LOG
  Entries,    \* the faults that can be logged
  Unwritten   \* the content of a slot nothing was logged to yet

ASSUME LogDepthAssumption == LogDepth \in Nat /\ 1 <= LogDepth /\ LogDepth < 256

VARIABLES
  faults,     \* driver_data.faults
  numFaults,  \* driver_data.num_faults
  lastFault   \* driver_data.last_fault

logVars == <<faults, numFaults, lastFault>>

Slots == 0 .. LogDepth - 1

LogInit ==
  /\ faults = [i \in Slots |-> Unwritten]
  /\ numFaults = 0
  /\ lastFault = 0

(* Mutant of NextSlot: the first entry is not told from the later ones.       *)
NextSlotAlwaysOn == (lastFault + 1) % LogDepth

(* put_fault: the first entry goes to slot 0, a later one to the next slot *)
NextSlot == IF numFaults > 0 THEN (lastFault + 1) % LogDepth ELSE lastFault

PutFault(e) ==
  /\ lastFault' = NextSlot
  /\ faults' = [faults EXCEPT ![NextSlot] = e]
  /\ numFaults' = IF numFaults < LogDepth THEN numFaults + 1 ELSE numFaults

(* Mutant of SlotOf: the wrap goes back one slot too far.                    *)
SlotOfShort(depth) ==
  (IF depth > lastFault THEN numFaults - 1 ELSE 0) + lastFault - depth

(* get_fault: the slot that depth is looked up in, and whether the depth is *)
(* accepted at all.  The depth argument of the driver is a uint8_t.         *)
SlotOf(depth) ==
  (IF depth > lastFault THEN numFaults ELSE 0) + lastFault - depth

Readable(n) == n % 256 <= numFaults

GetFault(n) == faults[SlotOf(n % 256)]

LogNext == \E e \in Entries : PutFault(e)

LogSpec == LogInit /\ [][LogNext]_logVars

-----------------------------------------------------------------------------
LogTypeOK ==
  /\ faults \in [Slots -> Entries \cup {Unwritten}]
  /\ numFaults \in 0 .. LogDepth
  /\ lastFault \in Slots

(* The newest fault sits where get_fault starts to count: while the ring is  *)
(* filling, the last of the slots in use; once it is full, any slot.         *)
Filling == lastFault = (IF numFaults = 0 THEN 0 ELSE numFaults - 1)

LogInv ==
  /\ LogTypeOK
  /\ numFaults < LogDepth => Filling

(* What the log promises: the newest min(LogDepth, all) faults, newest       *)
(* first.  PWRGRAPH_FAULT_*(n) for n below PWRGRAPH_NUM_FAULTS reads          *)
(* element n + 1 of the sequence.                                            *)
recentFaults == [k \in 1 .. numFaults |-> GetFault(k - 1)]

Recent == INSTANCE RecentFaults WITH recent <- recentFaults

(* The ring kept by put_fault, read through get_fault's index arithmetic, is *)
(* the bounded history of the log: every wrap keeps the order, no fault is   *)
(* lost before LogDepth newer ones, none is shown twice.                     *)
KeepsNewest == Recent!Spec
=============================================================================
