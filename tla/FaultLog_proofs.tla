---------------------------- MODULE FaultLog_proofs ----------------------------
(***************************************************************************)
(* Proofs about the fault log, for every depth of the ring: the invariant  *)
(* of put_fault, and that the ring read through get_fault implements the   *)
(* bounded history of RecentFaults.                                        *)
(***************************************************************************)
EXTENDS FaultLog, TLAPS

(* The slot after i, without the remainder.                                  *)
LEMMA WrapAround ==
  ASSUME NEW i \in Slots
  PROVE  (i + 1) % LogDepth = IF i + 1 = LogDepth THEN 0 ELSE i + 1
  BY LogDepthAssumption DEF Slots

LEMMA NextSlotInSlots ==
  ASSUME LogTypeOK
  PROVE  /\ NextSlot \in Slots
         /\ numFaults = 0 => NextSlot = lastFault
         /\ numFaults > 0 => NextSlot = IF lastFault + 1 = LogDepth THEN 0 ELSE lastFault + 1
  <1>1. (lastFault + 1) % LogDepth = IF lastFault + 1 = LogDepth THEN 0 ELSE lastFault + 1
    BY WrapAround DEF LogTypeOK
  <1> QED
    BY <1>1, LogDepthAssumption DEF LogTypeOK, NextSlot, Slots

(* put_fault writes a slot of the ring and counts no further than its depth. *)
LEMMA PutFaultTypeOK ==
  ASSUME LogTypeOK, NEW e \in Entries, PutFault(e)
  PROVE  LogTypeOK'
  BY NextSlotInSlots, LogDepthAssumption DEF LogTypeOK, PutFault

(* put_fault keeps the ring well formed and, while it is filling, the newest *)
(* entry at the last slot in use (power_graph.c:170-182).                    *)
LEMMA PutFaultInv ==
  ASSUME LogInv, NEW e \in Entries, PutFault(e)
  PROVE  LogInv'
  <1>1. LogTypeOK'
    BY PutFaultTypeOK DEF LogInv
  <1>2. (numFaults < LogDepth => Filling)'
    BY NextSlotInSlots, LogDepthAssumption DEF LogInv, LogTypeOK, Filling, PutFault, Slots
  <1> QED
    BY <1>1, <1>2 DEF LogInv

LEMMA LogInitInv == LogInit => LogInv
  BY LogDepthAssumption DEF LogInit, LogInv, LogTypeOK, Filling, Slots

LEMMA LogStutterInv == LogInv /\ UNCHANGED logVars => LogInv'
  BY DEF LogInv, LogTypeOK, Filling, logVars

(* The invariant of the ring holds in every state the driver can log itself  *)
(* into, whatever the configured depth.                                      *)
THEOREM LogInvariant == LogSpec => []LogInv
  <1>1. LogInv /\ [LogNext]_logVars => LogInv'
    BY PutFaultInv, LogStutterInv DEF LogNext
  <1> QED
    BY LogInitInv, <1>1, PTL DEF LogSpec

-----------------------------------------------------------------------------
(* The depth fits the uint8_t argument of get_fault.                         *)
LEMMA DepthFits ==
  ASSUME LogTypeOK, NEW k \in 1 .. numFaults
  PROVE  (k - 1) % 256 = k - 1
  BY LogDepthAssumption DEF LogTypeOK

LEMMA RecentIsSeq ==
  ASSUME LogTypeOK
  PROVE  Len(recentFaults) = numFaults
  BY LogDepthAssumption DEF LogTypeOK, recentFaults

(* After a put_fault every older entry is found one place deeper, in the     *)
(* slot it was in, and that slot is not the one written.                     *)
LEMMA OlderStays ==
  ASSUME LogInv, NEW e \in Entries, PutFault(e), NEW d \in 1 .. numFaults' - 1
  PROVE  /\ SlotOf(d)' = SlotOf(d - 1)
         /\ SlotOf(d - 1) # NextSlot
         /\ SlotOf(d - 1) \in Slots
  <1> USE LogDepthAssumption
  <1>1. lastFault' = NextSlot /\ numFaults' = IF numFaults < LogDepth THEN numFaults + 1 ELSE numFaults
    BY DEF PutFault
  <1>2. /\ numFaults \in 1 .. LogDepth /\ d \in 1 .. numFaults /\ d < LogDepth
        /\ lastFault \in 0 .. LogDepth - 1
    BY <1>1 DEF LogInv, LogTypeOK, Slots
  <1>3. NextSlot = IF lastFault + 1 = LogDepth THEN 0 ELSE lastFault + 1
    BY <1>2, NextSlotInSlots DEF LogInv
  <1>4. numFaults < LogDepth => lastFault = numFaults - 1
    BY <1>2 DEF LogInv, Filling
  <1> QED
    BY <1>1, <1>2, <1>3, <1>4 DEF SlotOf, Slots

(* A put_fault is the step Record of the bounded history.                    *)
LEMMA PutFaultRecords ==
  ASSUME LogInv, NEW e \in Entries, PutFault(e)
  PROVE  Recent!Record(e)
  <1> USE LogDepthAssumption
  <1>1. LogTypeOK /\ LogInv' /\ LogTypeOK'
    BY PutFaultInv DEF LogInv
  <1>2. numFaults' = Recent!Smaller(Len(recentFaults) + 1, LogDepth)
    BY <1>1, RecentIsSeq DEF PutFault, LogTypeOK, Recent!Smaller
  <1>3. ASSUME NEW k \in 1 .. numFaults'
        PROVE  GetFault(k - 1)' = IF k = 1 THEN e ELSE recentFaults[k - 1]
    <2>1. (k - 1) % 256 = k - 1
      BY <1>1, DepthFits DEF LogTypeOK
    <2>2. CASE k = 1
      <3>1. SlotOf(0)' = NextSlot
        BY <1>1 DEF PutFault, SlotOf, LogTypeOK, Slots
      <3>2. faults'[NextSlot] = e
        BY <1>1, NextSlotInSlots DEF PutFault, LogTypeOK
      <3> QED
        BY <2>1, <2>2, <3>1, <3>2 DEF GetFault
    <2>3. CASE k # 1
      <3>1. k - 1 \in 1 .. numFaults' - 1 /\ k - 1 \in 1 .. numFaults
        BY <1>1, <2>3 DEF PutFault, LogTypeOK
      <3>2. /\ SlotOf(k - 1)' = SlotOf(k - 1 - 1)
            /\ SlotOf(k - 1 - 1) # NextSlot
            /\ SlotOf(k - 1 - 1) \in Slots
        BY <3>1, OlderStays
      <3>3. faults'[SlotOf(k - 1 - 1)] = faults[SlotOf(k - 1 - 1)]
        BY <3>2, <1>1 DEF PutFault, LogTypeOK
      <3>4. (k - 1 - 1) % 256 = k - 1 - 1
        BY <3>1, <1>1, DepthFits
      <3>5. recentFaults[k - 1] = faults[SlotOf(k - 1 - 1)]
        BY <3>1, <3>4 DEF recentFaults, GetFault
      <3> QED
        BY <2>1, <2>3, <3>2, <3>3, <3>5 DEF GetFault
    <2> QED
      BY <2>2, <2>3
  <1>4. 1 \in 1 .. numFaults'
    BY <1>1 DEF PutFault, LogTypeOK
  <1>5. 1 \in DOMAIN recentFaults' /\ recentFaults'[1] = e
    BY <1>3, <1>4 DEF recentFaults
  <1> QED
    BY <1>2, <1>3, <1>5 DEF Recent!Record, recentFaults

(* The ring implements the bounded history: the newest LogDepth faults, in   *)
(* order, none lost early and none shown twice (power_graph.c:160-205).      *)
THEOREM LogKeepsNewest == LogSpec => KeepsNewest
  <1>1. LogInit => Recent!Init
    BY DEF LogInit, Recent!Init, recentFaults
  <1>2. LogInv /\ [LogNext]_logVars => [Recent!Next]_recentFaults
    <2>1. ASSUME LogInv, LogNext
          PROVE  Recent!Next
      BY <2>1, PutFaultRecords DEF LogNext, Recent!Next
    <2>2. UNCHANGED logVars => UNCHANGED recentFaults
      BY DEF logVars, recentFaults, GetFault, SlotOf
    <2> QED
      BY <2>1, <2>2
  <1> QED
    BY <1>1, <1>2, LogInvariant, PTL DEF LogSpec, KeepsNewest, Recent!Spec
=============================================================================
