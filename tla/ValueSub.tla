------------------------------- MODULE ValueSub -------------------------------
(***************************************************************************)
(* The list of subscriptions of include/zephyr/drivers/value.h and the     *)
(* dispatch of value_get, value_set and value_sub to a driver.  A list is  *)
(* the sequence of its callbacks from the head; node.next of a callback is *)
(* its successor, and NULL when there is none.                             *)
(***************************************************************************)
EXTENDS SequencesExt

CONSTANT NULL

(* node.next: sys_slist_append clears it for the new tail and                *)
(* sys_slist_find_and_remove for the removed node.                           *)
NextOf(list, cb) ==
  IF \E i \in 1 .. Len(list) - 1 : list[i] = cb
  THEN list[1 + CHOOSE i \in 1 .. Len(list) - 1 : list[i] = cb]
  ELSE NULL

(* value_sub_init, VALUE_SUB_INIT *)
EmptyList == << >>

(* value_sub_active *)
Active(list, cb) == NextOf(list, cb) # NULL

(* The condition of the assertion in value_sub_manage.                       *)
MayManage(list, cb, on) == Active(list, cb) # on

(* value_sub_manage, built without assertions, for a callback that is not    *)
(* subscribed twice.                                                         *)
Manage(list, cb, on) ==
  IF on THEN Append(list, cb) ELSE RemoveFirst(list, cb)

(* value_sub_notify: whom it calls, in which order, while nobody manages the *)
(* list; the successor is read before the call.                              *)
Notified(list) == { list[i] : i \in 1 .. Len(list) }

(* value_get, value_set and value_sub: -ENOSYS without the handler in the    *)
(* driver's value_driver_api.                                                *)
Dispatch(api, op, answer) == IF op \in api THEN answer ELSE "ENOSYS"
===============================================================================
