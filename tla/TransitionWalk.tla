---------------------------- MODULE TransitionWalk ----------------------------
(***************************************************************************)
(* The outer loop of power_graph_task over the route search, without the   *)
(* stages: while the requested state differs from the current one, search, *)
(* carry the found transition out and search again from where it led.      *)
(***************************************************************************)
EXTENDS TransitionSearch

CONSTANTS
  States,          \* the state identifiers of the graph
  Tables,          \* the transition tables considered
  From, To,        \* the state at the start and the one requested
  SafeState        \* cfg->safe_state

ASSUME WalkAssumption ==
  /\ {From, To, SafeState} \subseteq States
  /\ \A t \in Tables : t \in Seq([initial : States, target : States])

VARIABLES
  table,   \* cfg->transitions
  state,   \* data->state
  newState,\* data->new_state
  trail    \* history: the states passed since new_state was last written

walkVars == <<table, state, newState, trail>>

WalkInit ==
  /\ table \in Tables
  /\ state = From
  /\ newState = To
  /\ trail = <<From>>

(* Mutant of Found: the state at the start of the request is searched from.  *)
FoundStale == FindFirst(table, From, newState, States)

Found == FindFirst(table, state, newState, States)

(* The transition found is carried out to its last stage.                    *)
Take ==
  /\ state # newState
  /\ Found # NoTransition
  /\ state' = table[Found].target
  /\ trail' = Append(trail, state')
  /\ UNCHANGED <<table, newState>>

(* Mutant of GiveUp: NO_STATE is requested.                                  *)
GiveUpNoState ==
  /\ state # newState
  /\ Found = NoTransition
  /\ newState' = 255
  /\ trail' = <<state>>
  /\ UNCHANGED <<table, state>>

(* No route: the safe state is requested instead.                            *)
GiveUp ==
  /\ state # newState
  /\ Found = NoTransition
  /\ newState' = SafeState
  /\ trail' = <<state>>
  /\ UNCHANGED <<table, state>>

WalkNext == Take \/ GiveUp

WalkSpec == WalkInit /\ [][WalkNext]_walkVars

-----------------------------------------------------------------------------
WalkTypeOK ==
  /\ state \in States
  /\ newState \in States
  /\ trail \in Seq(States)

Connected == Reachable(table, state, newState)

(* The search cuts off at a recursion depth and keeps no set of visited      *)
(* states, and yet it answers a transition exactly when there is a route.    *)
FoundIffReachable ==
  state # newState => (Found # NoTransition <=> Connected)

(* The search starts over after every transition and does not remember the   *)
(* route it was on; the task still never comes back to a state it has left   *)
(* for the same request, so every request ends after fewer transitions than  *)
(* there are states.                                                         *)
NeverRevisits ==
  \A i, j \in 1 .. Len(trail) : trail[i] = trail[j] => i = j
=============================================================================
