----------------------------- MODULE RecentFaults -----------------------------
(***************************************************************************)
(* What the fault log of the power graph promises, without the ring: the   *)
(* newest LogDepth faults, newest first.                                   *)
(***************************************************************************)
EXTENDS Integers, Sequences

CONSTANTS LogDepth, Entries

VARIABLE recent

Smaller(a, b) == IF a < b THEN a ELSE b

Init == recent = [k \in 1 .. 0 |-> 0]

(* A new fault becomes number one; every other moves one place down and the  *)
(* one pushed past LogDepth is forgotten.                                    *)
Record(e) ==
  /\ 1 \in DOMAIN recent' /\ recent'[1] = e
  /\ recent' = [k \in 1 .. Smaller(Len(recent) + 1, LogDepth) |->
                  IF k = 1 THEN e ELSE recent[k - 1]]

Next == \E e \in Entries : Record(e)

Spec == Init /\ [][Next]_recent
=============================================================================
