--------------------------- MODULE I2cConfigurator ---------------------------
(***************************************************************************)
(* One device of drivers/i2c_device_configurator: every state has writes   *)
(* for a chip on an I2C bus, encoded at build time as bytes, which the     *)
(* work item decodes and carries out when the state is set.  The chip      *)
(* keeps what it was sent since the state was last set.                    *)
(***************************************************************************)
EXTENDS SequencesExt, Integers

CONSTANTS
  Nodes,         \* the children: state, and the declared operations in order
  InitialState,  \* initial-state
  MaxBusErrors   \* bound on the failing writes

(* An operation: cmd and data bytes, and whether the length goes before data.*)
Bytes == Seq(0 .. 255)
Operation == [cmd : Bytes, block : BOOLEAN, data : Bytes]

ASSUME ConfiguratorAssumption ==
  /\ Nodes \in Seq([state : 0 .. 255, ops : Seq(Operation)])
  /\ InitialState \in 0 .. 255
  /\ MaxBusErrors \in Nat

VARIABLES
  cstate,    \* data->state
  cstatus,   \* data->status: "ok", "again" (EAGAIN) or "fault" (EFAULT)
  cwork,     \* data->work is on the work queue
  chip,      \* what the chip was sent since the state was last set
  busErrors

cvars == <<cstate, cstatus, cwork, chip, busErrors>>

-----------------------------------------------------------------------------
OpSizeBits == 7

OpPack(code, size) == code * 2^OpSizeBits + size
OpCode(op) == op \div 2^OpSizeBits

OpSize(op) == op % 2^OpSizeBits

(* OP_LENGTH, OP_CHECK                                                       *)
BlockLength(o) == IF o.block /\ o.data # << >> THEN << Len(o.data) >> ELSE << >>

Payload(o) == o.cmd \o BlockLength(o) \o o.data

Fits(o) == Len(Payload(o)) < 2^OpSizeBits - 1

ASSUME OperationsFit == \A n \in DOMAIN Nodes : \A i \in DOMAIN Nodes[n].ops : Fits(Nodes[n].ops[i])

(* OP_ENCODE and STATE_CONFIG_IMPL: the bytes of a state, ended by op_done.  *)
Encode(o) == << OpPack(1, Len(Payload(o))) >> \o Payload(o)

Ops(node) == FlattenSeq([i \in DOMAIN node.ops |-> Encode(node.ops[i])]) \o << OpPack(0, 0) >>

(* Where the op pointer of cw_exec stands after n writes: op += 1 + size.    *)
Position(ops) ==
  LET at[n \in 0 .. Len(ops)] ==
        IF n = 0 THEN 1 ELSE at[n - 1] + 1 + OpSize(ops[at[n - 1]])
  IN at

(* cw_exec: the writes up to the first op_done.                              *)
Exec(ops) ==
  LET at == Position(ops)
      done == CHOOSE n \in 0 .. Len(ops) :
                OpCode(ops[at[n]]) = 0 /\ \A m \in 0 .. n - 1 : OpCode(ops[at[m]]) # 0
  IN [n \in 1 .. done |-> SubSeq(ops, at[n - 1] + 1, at[n - 1] + OpSize(ops[at[n - 1]]))]

(* cw_task: every node of the state, in order.                               *)
Writes(s) ==
  FlattenSeq([n \in DOMAIN Nodes |-> IF Nodes[n].state = s THEN Exec(Ops(Nodes[n])) ELSE << >>])

-----------------------------------------------------------------------------
(* Mutant of Stopped: the failure is not kept.                               *)
StoppedSilently(k) ==
  /\ busErrors < MaxBusErrors
  /\ busErrors' = busErrors + 1
  /\ chip' = SubSeq(Writes(cstate), 1, k)
  /\ cstatus' = "ok"

(* cw_task when a write fails after k that did not.                          *)
Stopped(k) ==
  /\ busErrors < MaxBusErrors
  /\ busErrors' = busErrors + 1
  /\ chip' = SubSeq(Writes(cstate), 1, k)
  /\ cstatus' = "fault"

Done ==
  /\ chip' = Writes(cstate)
  /\ cstatus' = IF cstatus = "again" THEN "ok" ELSE cstatus
  /\ UNCHANGED busErrors

CwTask == Done \/ \E k \in 0 .. Len(Writes(cstate)) - 1 : Stopped(k)

(* i2c_device_configurator_init runs the task and tells nobody.              *)
CwInit ==
  /\ cstate = InitialState
  /\ cwork = FALSE
  /\ \/ cstatus = "ok" /\ chip = Writes(InitialState) /\ busErrors = 0
     \/ /\ MaxBusErrors > 0 /\ busErrors = 1
        /\ cstatus = "fault"
        /\ \E k \in 0 .. Len(Writes(InitialState)) - 1 :
             chip = SubSeq(Writes(InitialState), 1, k)

(* cw_work; the caller of the action notifies.                               *)
CwWork ==
  /\ cwork
  /\ cwork' = FALSE
  /\ CwTask
  /\ UNCHANGED cstate

(* cw_value_set.  The state it has is not set again unless it failed, and    *)
(* nothing is while the work is pending.                                     *)
SetIgnored(v) == cstatus # "fault" /\ (cstate = v \/ cstatus = "again")

CwSet(v) ==
  /\ ~SetIgnored(v)
  /\ cstate' = v
  /\ cstatus' = "again"
  /\ cwork' = TRUE
  /\ chip' = << >>
  /\ UNCHANGED busErrors

-----------------------------------------------------------------------------
(* Every declared operation of a state, as it was declared.                  *)
Declared(s) ==
  FlattenSeq([n \in DOMAIN Nodes |->
    IF Nodes[n].state = s THEN [i \in DOMAIN Nodes[n].ops |-> Payload(Nodes[n].ops[i])]
                          ELSE << >>])

(* A configurator that answers without an error has a chip that was sent     *)
(* exactly the declared writes of its state, complete and in order, whatever *)
(* failed before; one that is pending has its work item queued.              *)
Configured ==
  /\ cstatus = "ok" => chip = Declared(cstate)
  /\ cstatus = "again" <=> cwork
=============================================================================
