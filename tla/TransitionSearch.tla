--------------------------- MODULE TransitionSearch ---------------------------
(***************************************************************************)
(* The route search of the power graph: find_first_transition_to_state and *)
(* find_first_transition of drivers/power_graph/power_graph.c, as a pure   *)
(* function of the transition table, the current state and the requested   *)
(* one.  The table is a sequence of records with an initial and a target   *)
(* state; a transition is known by its index, and 0 stands for -ENOENT.    *)
(***************************************************************************)
EXTENDS Integers, Sequences

NoTransition == 0

Edge(i, t) == [initial |-> i, target |-> t]

(* Mutant of TooDeep: the depth limit is off by one.                         *)
TooDeepEarly(h, n) == h >= n - 1

(* The recursive call is left out when as many hops as transitions are used. *)
TooDeep(h, n) == h >= n

(* The transitions into state s, those out of cur among them, and those with *)
(* an answer of the calls below for their initial state.                     *)
Into(table, s) == {i \in 1 .. Len(table) : table[i].target = s}

Direct(table, cur, s) == {i \in Into(table, s) : table[i].initial = cur}

Via(table, s, below) == {v \in Into(table, s) \X below : table[v[1]].initial = v[2].wanted}

(* A hop count only replaces the best one when it is smaller, so the first   *)
(* of the smallest stays.                                                    *)
Best(table, s, below) ==
  CHOOSE v \in Via(table, s, below) : \A w \in Via(table, s, below) :
    \/ v[2].hops < w[2].hops
    \/ v[2].hops = w[2].hops /\ v[1] <= w[1]

(* The loop breaks at the first transition out of cur.                       *)
First(table, cur, s) ==
  CHOOSE i \in Direct(table, cur, s) : \A j \in Direct(table, cur, s) : i <= j

Chosen(table, cur, s, below) ==
  IF Direct(table, cur, s) # {} THEN First(table, cur, s) ELSE Best(table, s, below)[2].id

(* find_first_transition_to_state.  The call at depth h (the hop count after *)
(* increment) answers a wanted state with the transition to start with; its  *)
(* answer is a record, and no record stands for -ENOENT.                     *)
AnswersAt(table, cur, states, h, below) ==
  {[wanted |-> s, id |-> Chosen(table, cur, s, below), hops |-> h] :
     s \in {q \in states : Direct(table, cur, q) # {} \/ Via(table, q, below) # {}}}

(* By depth, the answers for every wanted state.                             *)
Answers(table, cur, states) ==
  LET n == Len(table)
      answers[h \in 1 .. n] ==
        AnswersAt(table, cur, states, h, IF TooDeep(h, n) THEN {} ELSE answers[h + 1])
  IN answers

(* find_first_transition: the transition the task starts with.               *)
FindFirst(table, cur, wanted, states) ==
  LET found == IF Len(table) = 0 THEN {}
               ELSE {r \in Answers(table, cur, states)[1] : r.wanted = wanted}
  IN IF found = {} THEN NoTransition ELSE (CHOOSE r \in found : TRUE).id

(* The answers for every pair of states, the table PowerGraph takes as a     *)
(* constant.                                                                 *)
SearchTable(table, states) ==
  [s \in states \X states |-> FindFirst(table, s[1], s[2], states)]

-----------------------------------------------------------------------------
(* Reference definitions over the same tables.                               *)

(* Where the transitions out of these states lead.                           *)
Beyond(table, from) == {table[i].target : i \in {j \in 1 .. Len(table) : table[j].initial \in from}}

(* The states at most n transitions away from state s, by distance.          *)
Within(table, s) ==
  LET within[n \in 0 .. Len(table)] ==
        IF n = 0 THEN {s} ELSE within[n - 1] \cup Beyond(table, within[n - 1])
  IN within

Reachable(table, from, to) ==
  to \in Within(table, from)[Len(table)]
=============================================================================
