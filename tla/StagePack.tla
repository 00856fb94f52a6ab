------------------------------ MODULE StagePack ------------------------------
(***************************************************************************)
(* How drivers/power_graph/power_graph.c keeps a stage in its tables: the  *)
(* device and the value it should have in one small integer, whose width   *)
(* follows from the configured numbers.                                    *)
(***************************************************************************)
EXTENDS Naturals

CONSTANTS
  NumDevices,  \* CONFIG_POWER_GRAPH_NUM_DEVICES
  NumStates,   \* CONFIG_POWER_GRAPH_NUM_STATES
  NumStages    \* CONFIG_POWER_GRAPH_NUM_STAGES

(* _LOG2: the bits that tell n values apart.                                 *)
BitsFor(n) == CHOOSE b \in 0 .. 15 : n <= 2^b /\ \A c \in 0 .. b - 1 : n > 2^c

DevIndexBits == BitsFor(NumDevices)

(* STAGE_PACK, DEV_INDEX, DEV_STATE                                          *)
Pack(dev, val) == dev + val * 2^DevIndexBits
Unpack(packed) == [dev |-> packed % 2^DevIndexBits, state |-> packed \div 2^DevIndexBits]

(* sizeof in bits: what a stage is read as (packed_stage_t), and what        *)
(* STAGES_CONFIG declares the array as (stage_idx_t).                        *)
ReadBits == IF NumDevices * NumStates <= 256 THEN 8 ELSE 16
DeclaredBits == IF NumStages <= 128 THEN 8 ELSE 16

(* What the task reads of a stage, when both types are the same.             *)
Stored(dev, val) == Unpack(Pack(dev, val) % 2^DeclaredBits)

(* The largest stage fits, and is read as it was written.  The assertions of *)
(* the code look at the packing, not at the two types: 3 devices and 80      *)
(* values need nine bits and get eight, 17 devices and 16 values are         *)
(* declared as bytes and read as halves of a word.                           *)
PackingAssumption ==
  /\ {NumDevices, NumStates, NumStages} \subseteq 1 .. 2^15
  /\ ReadBits = DeclaredBits
  /\ Pack(NumDevices - 1, NumStates - 1) < 2^ReadBits

ASSUME PackingAssumption
=============================================================================
