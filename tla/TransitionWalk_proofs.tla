------------------------- MODULE TransitionWalk_proofs -------------------------
(***************************************************************************)
(* Theorems about the route search, for every transition table, about the  *)
(* walk of the power graph over what it finds, and about the table that    *)
(* the stages of a transition are packed in.                               *)
(***************************************************************************)
EXTENDS TransitionWalk, StagePack, WellFoundedInduction, TLAPS

(* Every set of natural numbers with an element has a smallest one, and what *)
(* starts at 0 and never stops holds for every number: the two forms of      *)
(* induction that need no operator for what is shown.                        *)
LEMMA SmallestOf ==
  ASSUME NEW T \in SUBSET Nat, T # {}
  PROVE  \E m \in T : \A k \in T : m <= k
<1>1. IsWellFoundedOn(OpToRel(<, Nat), Nat)
  BY NatLessThanWellFounded, Zenon
<1>2. PICK m \in T : \A k \in T : ~(<<k, m>> \in OpToRel(<, Nat))
  BY <1>1, WFMin, Zenon
<1>3. \A k \in T : k < m => <<k, m>> \in OpToRel(<, Nat)
  BY Zenon DEF OpToRel
<1>4. \A k \in T : ~(k < m)
  BY <1>2, <1>3, Zenon
<1> HIDE <1>2
<1> QED BY <1>4

LEMMA InductionOver ==
  ASSUME NEW S, 0 \in S, \A n \in Nat : n \in S => n + 1 \in S
  PROVE  Nat \subseteq S
<1> DEFINE T == {n \in Nat : n \notin S}
<1> SUFFICES ASSUME T # {}
             PROVE  FALSE
  OBVIOUS
<1>1. PICK m \in T : \A k \in T : m <= k
  BY SmallestOf
<1>2. m # 0 /\ m - 1 \in Nat /\ m - 1 \notin T
  BY <1>1
<1> QED BY <1>2

-----------------------------------------------------------------------------
(* The answers of the calls below a call, nothing at the depth limit.        *)
Below(f, h, n) == IF TooDeep(h, n) THEN {} ELSE f[h + 1]

(* The recursion of find_first_transition_to_state ends: the answers exist   *)
(* for every depth, from the deepest call up.                                *)
LEMMA AnswersDefined ==
  ASSUME NEW graph, Len(graph) \in Nat, NEW cur, NEW states
  PROVE  \A h \in 1 .. Len(graph) :
           Answers(graph, cur, states)[h] =
             AnswersAt(graph, cur, states, h, Below(Answers(graph, cur, states), h, Len(graph)))
<1> DEFINE n == Len(graph)
           Next0(f, h) == AnswersAt(graph, cur, states, h, Below(f, h, n))
           Ends(f, k) == f = [h \in (n - k) + 1 .. n |-> Next0(f, h)]
           Deep == {k \in Nat : k <= n => \E f : Ends(f, k)}
<1>1. 0 \in Deep
  <2>1. Ends([h \in (n - 0) + 1 .. n |-> {}], 0)
    OBVIOUS
  <2> HIDE DEF Ends
  <2> QED BY <2>1
<1>2. ASSUME NEW k \in Nat, k \in Deep, k + 1 <= n
      PROVE  k + 1 \in Deep
  <2>1. PICK f : Ends(f, k)
    BY <1>2
  <2> DEFINE g == [h \in (n - (k + 1)) + 1 .. n |-> IF h = n - k THEN Next0(f, h) ELSE f[h]]
  <2>2. ASSUME NEW h \in n - k .. n
        PROVE  Below(g, h, n) = Below(f, h, n)
    BY <1>2 DEF Below, TooDeep
  <2>3. ASSUME NEW h \in (n - (k + 1)) + 1 .. n
        PROVE  g[h] = Next0(g, h)
    <3>1. CASE h = n - k  BY <3>1, <2>2
    <3>2. CASE h # n - k
      <4>1. h \in (n - k) + 1 .. n
        BY <3>2
      <4> QED BY <4>1, <2>1, <2>2, <3>2
    <3> QED BY <3>1, <3>2
  <2>4. Ends(g, k + 1)
    BY <2>3
  <2> HIDE DEF Ends
  <2> QED BY <2>4
<1>3. n \in Deep
  <2> HIDE DEF Ends
  <2>1. \A k \in Nat : k \in Deep => k + 1 \in Deep
    BY <1>2
  <2> HIDE DEF Deep
  <2> QED BY <1>1, <2>1, InductionOver
<1>4. \E f : f = [h \in 1 .. n |-> Next0(f, h)]
  BY <1>3
<1> QED BY <1>4 DEF Answers, Below

(* A smallest transition out of the current state, and a best answer of the  *)
(* calls below, are there whenever there is one at all; the answers below    *)
(* all have the hops of their depth.                                         *)
LEMMA ChosenLeaves ==
  ASSUME NEW graph, Len(graph) \in Nat, NEW cur, NEW s, NEW below, NEW hops \in Nat,
         \A r \in below : /\ r.hops = hops /\ r.id \in 1 .. Len(graph)
                         /\ graph[r.id].initial = cur,
         Direct(graph, cur, s) # {} \/ Via(graph, s, below) # {}
  PROVE  /\ Chosen(graph, cur, s, below) \in 1 .. Len(graph)
         /\ graph[Chosen(graph, cur, s, below)].initial = cur
<1>1. CASE Direct(graph, cur, s) # {}
  <2>1. Direct(graph, cur, s) \in SUBSET Nat
    BY DEF Direct, Into
  <2>2. \E i \in Direct(graph, cur, s) : \A j \in Direct(graph, cur, s) : i <= j
    BY <1>1, <2>1, SmallestOf
  <2>3. First(graph, cur, s) \in Direct(graph, cur, s)
    BY <2>2 DEF First
  <2>4. Chosen(graph, cur, s, below) = First(graph, cur, s)
    BY <1>1 DEF Chosen
  <2> QED BY <2>3, <2>4 DEF Direct, Into
<1>2. CASE Direct(graph, cur, s) = {}
  <2> DEFINE V == Via(graph, s, below)
             T == {v[1] : v \in V}
  <2>1. V # {} /\ V \subseteq Nat \X below
    BY <1>2 DEF Via, Into
  <2>2. PICK m \in T : \A k \in T : m <= k
    <3>1. T \in SUBSET Nat /\ T # {}
      BY <2>1
    <3> HIDE DEF T
    <3> QED BY <3>1, SmallestOf
  <2>3. PICK v \in V : v[1] = m
    BY <2>2
  <2>4. \A w \in V : v[2].hops = w[2].hops /\ v[1] <= w[1]
    BY <2>1, <2>2, <2>3
  <2>5. Best(graph, s, below) \in V
    BY <2>3, <2>4 DEF Best
  <2>6. Best(graph, s, below)[2] \in below
    BY <2>1, <2>5
  <2> QED BY <1>2, <2>6 DEF Chosen
<1> QED BY <1>1, <1>2

(* Every answer, at every depth, is a transition out of the current state.   *)
Leaves(answers, graph, cur, hops) ==
  \A r \in answers : /\ r.hops = hops /\ r.id \in 1 .. Len(graph)
                    /\ graph[r.id].initial = cur

LEMMA AnswersLeave ==
  ASSUME NEW graph, Len(graph) \in Nat, NEW cur, NEW states
  PROVE  \A h \in 1 .. Len(graph) : Leaves(Answers(graph, cur, states)[h], graph, cur, h)
<1> DEFINE n == Len(graph)
           A == Answers(graph, cur, states)
           Deep == {k \in Nat : k < n => Leaves(A[n - k], graph, cur, n - k)}
<1>1. ASSUME NEW h \in 1 .. n, h < n => Leaves(A[h + 1], graph, cur, h + 1)
      PROVE  Leaves(A[h], graph, cur, h)
  <2>1. A[h] = AnswersAt(graph, cur, states, h, Below(A, h, n))
    BY AnswersDefined
  <2>2. Leaves(Below(A, h, n), graph, cur, h + 1)
    BY <1>1 DEF Below, TooDeep, Leaves
  <2> HIDE DEF A
  <2>3. ASSUME NEW r \in A[h]
        PROVE  r.hops = h /\ r.id \in 1 .. n /\ graph[r.id].initial = cur
    <3>1. PICK s : /\ Direct(graph, cur, s) # {} \/ Via(graph, s, Below(A, h, n)) # {}
                   /\ r = [wanted |-> s, id |-> Chosen(graph, cur, s, Below(A, h, n)), hops |-> h]
      BY <2>1 DEF AnswersAt
    <3>2. /\ Chosen(graph, cur, s, Below(A, h, n)) \in 1 .. n
          /\ graph[Chosen(graph, cur, s, Below(A, h, n))].initial = cur
      BY <2>2, <3>1, ChosenLeaves DEF Leaves
    <3> QED BY <3>1, <3>2
  <2> QED BY <2>3 DEF Leaves
<1> HIDE DEF A
<1>2. 0 \in Deep
  BY <1>1
<1>3. ASSUME NEW k \in Nat, k \in Deep
      PROVE  k + 1 \in Deep
  <2> SUFFICES ASSUME k + 1 < n
               PROVE  Leaves(A[n - (k + 1)], graph, cur, n - (k + 1))
    OBVIOUS
  <2>1. n - (k + 1) \in 1 .. n /\ (n - (k + 1)) + 1 = n - k
    OBVIOUS
  <2> QED BY <1>1, <1>3, <2>1
<1>4. Nat \subseteq Deep
  <2> HIDE DEF Deep
  <2> QED BY <1>2, <1>3, InductionOver
<1>5. ASSUME NEW h \in 1 .. n
      PROVE  Leaves(A[h], graph, cur, h)
  <2>1. n - h \in Deep /\ n - h < n /\ n - (n - h) = h
    BY <1>4
  <2> QED BY <2>1
<1> QED BY <1>5 DEF A

(* What the power graph assumes of its search holds for every table and      *)
(* every pair of states: the transition found starts at the current state,   *)
(* even on tables with cycles and however deep the calls go                  *)
(* (find_first_transition, power_graph_task).                                *)
THEOREM SearchAnswersDepartures ==
  ASSUME NEW graph, Len(graph) \in Nat, NEW cur, NEW wanted, NEW states
  PROVE  LET found == FindFirst(graph, cur, wanted, states) IN
         /\ found \in 0 .. Len(graph)
         /\ found # NoTransition => graph[found].initial = cur
<1> DEFINE A == Answers(graph, cur, states)
           found == IF Len(graph) = 0 THEN {} ELSE {r \in A[1] : r.wanted = wanted}
<1>1. FindFirst(graph, cur, wanted, states)
        = IF found = {} THEN NoTransition ELSE (CHOOSE r \in found : TRUE).id
  BY DEF FindFirst
<1>2. CASE found = {}
  BY <1>1, <1>2 DEF NoTransition
<1>3. CASE found # {}
  <2>1. Len(graph) # 0 /\ 1 \in 1 .. Len(graph)
    BY <1>3
  <2>2. Leaves(A[1], graph, cur, 1)
    BY <2>1, AnswersLeave
  <2>3. (CHOOSE r \in found : TRUE) \in A[1]
    BY <1>3
  <2> HIDE DEF A, found
  <2>4. /\ (CHOOSE r \in found : TRUE).id \in 1 .. Len(graph)
        /\ graph[(CHOOSE r \in found : TRUE).id].initial = cur
    BY <2>2, <2>3 DEF Leaves
  <2> QED BY <1>1, <1>3, <2>4
<1> QED BY <1>2, <1>3

(* The table of the search over a transition table meets the assumption of   *)
(* PowerGraph on its FirstTransition, so that the theorems about the task    *)
(* hold with the search the code has (find_first_transition).                *)
THEOREM SearchTableDeparts ==
  ASSUME NEW graph, Len(graph) \in Nat, NEW states
  PROVE  /\ SearchTable(graph, states) \in [states \X states -> 1 .. Len(graph) \cup {NoTransition}]
         /\ \A s \in states \X states :
              SearchTable(graph, states)[s] # NoTransition =>
                graph[SearchTable(graph, states)[s]].initial = s[1]
<1>1. ASSUME NEW s \in states \X states
      PROVE  /\ FindFirst(graph, s[1], s[2], states) \in 1 .. Len(graph) \cup {NoTransition}
             /\ FindFirst(graph, s[1], s[2], states) # NoTransition =>
                  graph[FindFirst(graph, s[1], s[2], states)].initial = s[1]
  <2>1. 0 .. Len(graph) = 1 .. Len(graph) \cup {NoTransition}
    BY DEF NoTransition
  <2> QED BY <2>1, SearchAnswersDepartures
<1> QED BY <1>1 DEF SearchTable

-----------------------------------------------------------------------------
(* The reference definition: where n transitions lead at most.               *)
LEMMA WithinDefined ==
  ASSUME NEW graph, Len(graph) \in Nat, NEW s
  PROVE  \A k \in 0 .. Len(graph) :
           Within(graph, s)[k] =
             IF k = 0 THEN {s}
             ELSE Within(graph, s)[k - 1] \cup Beyond(graph, Within(graph, s)[k - 1])
<1> DEFINE n == Len(graph)
           More(f, k) == IF k = 0 THEN {s} ELSE f[k - 1] \cup Beyond(graph, f[k - 1])
           Ends(f, k) == f = [j \in 0 .. k |-> More(f, j)]
           Far == {k \in Nat : \E f : Ends(f, k)}
<1>1. 0 \in Far
  <2>1. Ends([j \in 0 .. 0 |-> {s}], 0)
    OBVIOUS
  <2> HIDE DEF Ends
  <2> QED BY <2>1
<1>2. ASSUME NEW k \in Nat, k \in Far
      PROVE  k + 1 \in Far
  <2>1. PICK f : Ends(f, k)
    <3> HIDE DEF Ends
    <3> QED BY <1>2
  <2> DEFINE g == [j \in 0 .. k + 1 |-> IF j = k + 1 THEN More(f, j) ELSE f[j]]
  <2>2. ASSUME NEW j \in 0 .. k + 1
        PROVE  g[j] = More(g, j)
    <3>1. More(g, j) = More(f, j)
      <4>1. CASE j = 0
        BY <4>1
      <4>2. CASE j # 0
        <5>1. j - 1 \in 0 .. k + 1 /\ j - 1 # k + 1
          BY <4>2
        <5>2. g[j - 1] = f[j - 1]
          BY <5>1
        <5> QED BY <4>2, <5>2
      <4> QED BY <4>1, <4>2
    <3>2. CASE j = k + 1  BY <3>1, <3>2
    <3>3. CASE j # k + 1
      <4>1. j \in 0 .. k
        BY <3>3
      <4>2. f[j] = More(f, j)
        BY <2>1, <4>1
      <4> QED BY <3>1, <3>3, <4>2
    <3> QED BY <3>2, <3>3
  <2>3. Ends(g, k + 1)
    BY <2>2
  <2> HIDE DEF Ends
  <2> QED BY <2>3
<1>3. n \in Far
  <2> HIDE DEF Far
  <2> QED BY <1>1, <1>2, InductionOver
<1>4. \E f : f = [j \in 0 .. n |-> More(f, j)]
  BY <1>3
<1> QED BY <1>4 DEF Within

Wanted(answers) == {r.wanted : r \in answers}

(* One call answers for the states behind the current one and behind those   *)
(* that the calls below answer for.                                          *)
LEMMA WantedAt ==
  ASSUME NEW graph, Len(graph) \in Nat, NEW cur, NEW states, NEW h, NEW below,
         \A i \in 1 .. Len(graph) : graph[i].target \in states
  PROVE  Wanted(AnswersAt(graph, cur, states, h, below)) = Beyond(graph, {cur} \cup Wanted(below))
<1> DEFINE answered(q) == Direct(graph, cur, q) # {} \/ Via(graph, q, below) # {}
           answer(q) == [wanted |-> q, id |-> Chosen(graph, cur, q, below), hops |-> h]
<1>1. Wanted(AnswersAt(graph, cur, states, h, below)) = {q \in states : answered(q)}
  <2>1. AnswersAt(graph, cur, states, h, below) = {answer(q) : q \in {p \in states : answered(p)}}
    BY DEF AnswersAt
  <2>2. \A q : answer(q).wanted = q
    OBVIOUS
  <2> HIDE DEF answer, answered
  <2>3. \A r : r \in AnswersAt(graph, cur, states, h, below) <=>
                \E q \in {p \in states : answered(p)} : r = answer(q)
    BY <2>1, Zenon
  <2>4. \A w : w \in Wanted(AnswersAt(graph, cur, states, h, below)) <=>
                \E r \in AnswersAt(graph, cur, states, h, below) : r.wanted = w
    BY Zenon DEF Wanted
  <2>5. \A w : w \in Wanted(AnswersAt(graph, cur, states, h, below)) <=>
                w \in {p \in states : answered(p)}
    <3>1. ASSUME NEW q \in {p \in states : answered(p)}
          PROVE  \E r \in AnswersAt(graph, cur, states, h, below) : r.wanted = q
      <4>1. answer(q) \in AnswersAt(graph, cur, states, h, below)
        BY <2>3, Zenon
      <4>2. answer(q).wanted = q
        BY <2>2, Zenon
      <4> QED BY <4>1, <4>2, Zenon
    <3>2. ASSUME NEW r \in AnswersAt(graph, cur, states, h, below)
          PROVE  r.wanted \in {p \in states : answered(p)}
      <4>1. PICK q \in {p \in states : answered(p)} : r = answer(q)
        BY <2>3, Zenon
      <4>2. r.wanted = q
        BY <2>2, <4>1, Zenon
      <4> QED BY <4>2, Zenon
    <3> QED BY <2>4, <3>1, <3>2, Zenon
  <2> QED BY <2>5, Zenon
<1>2. ASSUME NEW q
      PROVE  answered(q) <=> \E i \in 1 .. Len(graph) :
                               graph[i].target = q /\ graph[i].initial \in {cur} \cup Wanted(below)
  <2>1. Direct(graph, cur, q) # {} <=>
          \E i \in 1 .. Len(graph) : graph[i].target = q /\ graph[i].initial = cur
    BY DEF Direct, Into
  <2>2. Via(graph, q, below) # {} <=>
          \E i \in 1 .. Len(graph) : graph[i].target = q /\ graph[i].initial \in Wanted(below)
    <3>1. ASSUME NEW v \in Via(graph, q, below)
          PROVE  /\ v[1] \in 1 .. Len(graph) /\ graph[v[1]].target = q
                 /\ graph[v[1]].initial \in Wanted(below)
      <4>1. v \in Into(graph, q) \X below /\ graph[v[1]].initial = v[2].wanted
        BY DEF Via
      <4>2. v[1] \in Into(graph, q) /\ v[2] \in below
        BY <4>1
      <4> QED BY <4>1, <4>2 DEF Into, Wanted
    <3>2. ASSUME NEW i \in 1 .. Len(graph), graph[i].target = q,
                 NEW r \in below, graph[i].initial = r.wanted
          PROVE  <<i, r>> \in Via(graph, q, below)
      BY <3>2 DEF Via, Into
    <3> QED BY <3>1, <3>2 DEF Wanted
  <2> QED BY <2>1, <2>2
<1>3. ASSUME NEW q
      PROVE  q \in Beyond(graph, {cur} \cup Wanted(below)) <=>
               \E i \in 1 .. Len(graph) :
                 graph[i].target = q /\ graph[i].initial \in {cur} \cup Wanted(below)
  BY DEF Beyond
<1> QED BY <1>1, <1>2, <1>3

LEMMA WithinGrows ==
  ASSUME NEW graph, Len(graph) \in Nat, NEW s
  PROVE  \A k \in 1 .. Len(graph) :
           Within(graph, s)[k] = {s} \cup Beyond(graph, Within(graph, s)[k - 1])
<1>0. \A k \in 0 .. Len(graph) :
        Within(graph, s)[k] =
          IF k = 0 THEN {s}
          ELSE Within(graph, s)[k - 1] \cup Beyond(graph, Within(graph, s)[k - 1])
  BY WithinDefined, ZenonT(60)
<1> DEFINE n == Len(graph)
           W == Within(graph, s)
           Far == {k \in Nat : k < n => W[k + 1] = {s} \cup Beyond(graph, W[k])}
<1>1. \A k \in 0 .. n : W[k] = IF k = 0 THEN {s} ELSE W[k - 1] \cup Beyond(graph, W[k - 1])
  BY <1>0, Zenon
<1> HIDE DEF W
<1>2. 0 \in Far
  <2> SUFFICES ASSUME 0 < n
               PROVE  W[0 + 1] = {s} \cup Beyond(graph, W[0])
    OBVIOUS
  <2>1. 0 \in 0 .. n /\ 1 \in 0 .. n /\ 1 # 0 /\ 1 - 1 = 0 /\ 0 + 1 = 1
    OBVIOUS
  <2>2. W[0] = {s}
    BY <1>1, <2>1
  <2>3. W[1] = W[1 - 1] \cup Beyond(graph, W[1 - 1])
    BY <1>1, <2>1, Zenon
  <2> QED BY <2>1, <2>2, <2>3
<1>3. ASSUME NEW k \in Nat, k \in Far
      PROVE  k + 1 \in Far
  <2> SUFFICES ASSUME k + 1 < n
               PROVE  W[(k + 1) + 1] = {s} \cup Beyond(graph, W[k + 1])
    OBVIOUS
  <2>0. /\ k + 1 \in 0 .. n /\ k + 1 # 0 /\ (k + 1) - 1 = k
        /\ k + 2 \in 0 .. n /\ k + 2 # 0 /\ (k + 2) - 1 = k + 1 /\ (k + 1) + 1 = k + 2
    OBVIOUS
  <2>1. W[k + 1] = {s} \cup Beyond(graph, W[k])
    BY <1>3
  <2>2. W[k + 2] = W[k + 1] \cup Beyond(graph, W[k + 1])
    BY <1>1, <2>0
  <2>3. W[k] \subseteq W[k + 1]
    <3>1. W[k + 1] = W[k] \cup Beyond(graph, W[k])
      BY <1>1, <2>0
    <3> QED BY <3>1
  <2>4. Beyond(graph, W[k]) \subseteq Beyond(graph, W[k + 1])
    BY <2>3 DEF Beyond
  <2> QED BY <2>0, <2>1, <2>2, <2>4
<1>4. Nat \subseteq Far
  <2> HIDE DEF Far
  <2> QED BY <1>2, <1>3, InductionOver
<1>5. ASSUME NEW k \in 1 .. n
      PROVE  W[k] = {s} \cup Beyond(graph, W[k - 1])
  <2>1. k - 1 \in Far /\ k - 1 < n /\ (k - 1) + 1 = k
    BY <1>4
  <2> QED BY <2>1
<1> QED BY <1>5 DEF W

(* The calls at depth h answer for the states that as many transitions reach *)
(* as there are depths left.                                                 *)
LEMMA AnswersReach ==
  ASSUME NEW graph, Len(graph) \in Nat, NEW cur, NEW states,
         \A i \in 1 .. Len(graph) : graph[i].target \in states
  PROVE  \A h \in 1 .. Len(graph) :
           {cur} \cup Wanted(Answers(graph, cur, states)[h]) = Within(graph, cur)[Len(graph) - h + 1]
<1> DEFINE n == Len(graph)
           A == Answers(graph, cur, states)
           W == Within(graph, cur)
           Deep == {k \in Nat : k < n => {cur} \cup Wanted(A[n - k]) = W[k + 1]}
<1>1. \A h \in 1 .. n : Wanted(A[h]) = Beyond(graph, {cur} \cup Wanted(Below(A, h, n)))
  BY AnswersDefined, WantedAt
<1>2. \A k \in 1 .. n : W[k] = {cur} \cup Beyond(graph, W[k - 1])
  BY WithinGrows
<1>3. W[0] = {cur}
  <2>1. 0 \in 0 .. n
    OBVIOUS
  <2> QED BY <2>1, WithinDefined
<1> HIDE DEF A, W
<1>4. 0 \in Deep
  <2>1. Wanted(Below(A, n, n)) = {}
    BY DEF Below, TooDeep, Wanted
  <2> SUFFICES ASSUME 0 < n
               PROVE  {cur} \cup Wanted(A[n - 0]) = W[0 + 1]
    OBVIOUS
  <2>2. n \in 1 .. n /\ n - 0 = n /\ 1 \in 1 .. n /\ 1 - 1 = 0 /\ 0 + 1 = 1
    OBVIOUS
  <2>3. Wanted(A[n]) = Beyond(graph, {cur})
    <3>1. {cur} \cup Wanted(Below(A, n, n)) = {cur}
      BY <2>1
    <3> QED BY <1>1, <2>2, <3>1
  <2>4. W[1] = {cur} \cup Beyond(graph, {cur})
    BY <1>2, <1>3, <2>2
  <2> QED BY <2>2, <2>3, <2>4
<1>5. ASSUME NEW k \in Nat, k \in Deep
      PROVE  k + 1 \in Deep
  <2> SUFFICES ASSUME k + 1 < n
               PROVE  {cur} \cup Wanted(A[n - (k + 1)]) = W[(k + 1) + 1]
    OBVIOUS
  <2>0. /\ n - (k + 1) \in 1 .. n /\ (n - (k + 1)) + 1 = n - k /\ ~(n - (k + 1) >= n)
        /\ (k + 1) + 1 \in 1 .. n /\ ((k + 1) + 1) - 1 = k + 1 /\ k < n
    OBVIOUS
  <2>1. Below(A, n - (k + 1), n) = A[n - k]
    BY <2>0 DEF Below, TooDeep
  <2>2. Wanted(A[n - (k + 1)]) = Beyond(graph, {cur} \cup Wanted(A[n - k]))
    BY <1>1, <2>0, <2>1
  <2>3. W[(k + 1) + 1] = {cur} \cup Beyond(graph, W[k + 1])
    BY <1>2, <2>0
  <2>4. {cur} \cup Wanted(A[n - k]) = W[k + 1]
    BY <1>5, <2>0
  <2> QED BY <2>2, <2>3, <2>4
<1>6. Nat \subseteq Deep
  <2> HIDE DEF Deep
  <2> QED BY <1>4, <1>5, InductionOver
<1>7. ASSUME NEW h \in 1 .. n
      PROVE  {cur} \cup Wanted(A[h]) = W[n - h + 1]
  <2>1. n - h \in Deep /\ n - h < n /\ n - (n - h) = h
    BY <1>6
  <2> QED BY <2>1
<1> QED BY <1>7 DEF A, W

LEMMA SearchComplete ==
  ASSUME NEW graph, Len(graph) \in Nat, NEW cur, NEW wanted, NEW states, cur # wanted,
         \A i \in 1 .. Len(graph) : graph[i].target \in states
  PROVE  FindFirst(graph, cur, wanted, states) # NoTransition <=> Reachable(graph, cur, wanted)
<1> DEFINE A == Answers(graph, cur, states)
           found == IF Len(graph) = 0 THEN {} ELSE {r \in A[1] : r.wanted = wanted}
<1>1. FindFirst(graph, cur, wanted, states)
        = IF found = {} THEN NoTransition ELSE (CHOOSE r \in found : TRUE).id
  BY DEF FindFirst
<1>2. CASE Len(graph) = 0
  <2>1. Within(graph, cur)[Len(graph)] = {cur}
    <3>1. 0 \in 0 .. Len(graph)
      OBVIOUS
    <3>2. Within(graph, cur)[0] = {cur}
      BY <3>1, WithinDefined
    <3> QED BY <1>2, <3>2
  <2>2. found = {}
    BY <1>2
  <2> HIDE DEF found
  <2> QED BY <1>1, <2>1, <2>2 DEF Reachable, NoTransition
<1>3. CASE Len(graph) # 0
  <2>1. {cur} \cup Wanted(A[1]) = Within(graph, cur)[Len(graph)]
    <3>1. 1 \in 1 .. Len(graph) /\ Len(graph) - 1 + 1 = Len(graph)
      BY <1>3
    <3>2. \A h \in 1 .. Len(graph) :
            {cur} \cup Wanted(A[h]) = Within(graph, cur)[Len(graph) - h + 1]
      BY AnswersReach
    <3> HIDE DEF A
    <3> QED BY <3>1, <3>2
  <2>2. Reachable(graph, cur, wanted) <=> wanted \in Wanted(A[1])
    BY <2>1 DEF Reachable
  <2> HIDE DEF A
  <2>3. found # {} <=> wanted \in Wanted(A[1])
    BY <1>3 DEF Wanted
  <2>4. Leaves(A[1], graph, cur, 1)
    <3>1. 1 \in 1 .. Len(graph)
      BY <1>3
    <3> QED BY <3>1, AnswersLeave DEF A
  <2>5. ASSUME found # {}
        PROVE  (CHOOSE r \in found : TRUE).id # NoTransition
    <3>1. (CHOOSE r \in found : TRUE) \in A[1]
      BY <1>3, <2>5
    <3> QED BY <2>4, <3>1 DEF Leaves, NoTransition
  <2> HIDE DEF found
  <2> QED BY <1>1, <2>2, <2>3, <2>5
<1> QED BY <1>2, <1>3

-----------------------------------------------------------------------------
WalkInv == WalkTypeOK /\ table \in Tables

LEMMA TablesLead ==
  ASSUME table \in Tables
  PROVE  /\ Len(table) \in Nat
         /\ \A i \in 1 .. Len(table) : table[i].target \in States
<1> DEFINE Edges == [initial : States, target : States]
<1>1. table \in Seq(Edges)
  BY WalkAssumption
<1>2. \A e \in Edges : e.target \in States
  OBVIOUS
<1> HIDE DEF Edges
<1>3. Len(table) \in Nat /\ \A i \in 1 .. Len(table) : table[i] \in Edges
  BY <1>1
<1> QED BY <1>2, <1>3

LEMMA WalkInductive == WalkInv /\ [WalkNext]_walkVars => WalkInv'
<1> SUFFICES ASSUME WalkInv, [WalkNext]_walkVars
             PROVE  WalkInv'
  OBVIOUS
<1> USE DEF WalkInv, WalkTypeOK
<1>1. CASE Take
  <2>1. Found \in 1 .. Len(table)
    <3>1. Found \in 0 .. Len(table) /\ Found # 0
      BY <1>1, TablesLead, SearchAnswersDepartures DEF Take, Found, NoTransition
    <3> QED BY <3>1, TablesLead
  <2>2. state' \in States
    BY <1>1, <2>1, TablesLead DEF Take
  <2> QED BY <1>1, <2>2 DEF Take
<1>2. CASE GiveUp
  BY <1>2, WalkAssumption DEF GiveUp
<1>3. CASE UNCHANGED walkVars
  BY <1>3 DEF walkVars
<1> QED BY <1>1, <1>2, <1>3 DEF WalkNext

LEMMA WalkInvariant == WalkSpec => []WalkInv
<1>1. WalkInit => WalkInv
  BY WalkAssumption DEF WalkInit, WalkInv, WalkTypeOK
<1> QED BY <1>1, WalkInductive, PTL DEF WalkSpec

(* The walk stays on the states of the graph, on every table over them       *)
(* (power_graph_task, with find_first_transition).                           *)
THEOREM WalkTypes == WalkSpec => []WalkTypeOK
<1>1. WalkInv => WalkTypeOK
  BY DEF WalkInv
<1> QED BY <1>1, WalkInvariant, PTL

(* The search answers a transition exactly when the requested state can be   *)
(* reached, on every table and wherever the walk has come to: the depth      *)
(* limit, one call per transition, cuts off no route, and without one        *)
(* nothing is found (find_first_transition_to_state).                        *)
THEOREM SearchFindsRoutes == WalkSpec => []FoundIffReachable
<1>1. WalkInv => FoundIffReachable
  <2> SUFFICES ASSUME WalkInv, state # newState
               PROVE  Found # NoTransition <=> Connected
    BY DEF FoundIffReachable
  <2> QED BY TablesLead, SearchComplete DEF WalkInv, Found, Connected
<1> QED BY <1>1, WalkInvariant, PTL
-----------------------------------------------------------------------------
(* Why the walk ends.  For a depth and a state that is looked for, the       *)
(* current states are ordered by what their calls choose there: those with a *)
(* transition of their own first, then by the transition they go through,    *)
(* and by the order of the depth below where that is the same.  Whoever      *)
(* carries out the transition found comes to a smaller one.                  *)
StrictOrder(R) ==
  /\ \A a : <<a, a>> \notin R
  /\ \A a, b, c : <<a, b>> \in R /\ <<b, c>> \in R => <<a, c>> \in R

Answered(answers, s) == \E r \in answers : r.wanted = s

(* The answers, by current state, lead to s or to a smaller state, which has *)
(* an answer for s as well.                                                  *)
Descends(R, graph, s, states, answers) ==
  /\ StrictOrder(R)
  /\ \A a \in states : \A r \in answers[a] : r.wanted = s =>
       \/ graph[r.id].target = s
       \/ /\ <<graph[r.id].target, a>> \in R
          /\ Answered(answers[graph[r.id].target], s)

LEMMA BestSmallest ==
  ASSUME NEW graph, Len(graph) \in Nat, NEW cur, NEW s, NEW below, NEW hops \in Nat,
         Leaves(below, graph, cur, hops), Via(graph, s, below) # {}
  PROVE  /\ Best(graph, s, below) \in Via(graph, s, below)
         /\ \A w \in Via(graph, s, below) : Best(graph, s, below)[1] <= w[1]
<1> DEFINE V == Via(graph, s, below)
           T == {v[1] : v \in V}
<1>1. V \subseteq Nat \X below
  BY DEF Via, Into
<1>2. \A v, w \in V : v[1] \in Nat /\ v[2].hops = w[2].hops /\ v[2].hops \in Nat
  BY <1>1 DEF Leaves
<1> HIDE DEF V
<1>3. PICK m \in T : \A k \in T : m <= k
  <2>1. T \in SUBSET Nat /\ T # {}
    BY <1>2 DEF V
  <2> HIDE DEF T
  <2> QED BY <2>1, SmallestOf
<1>4. PICK v \in V : v[1] = m
  BY <1>3
<1>5. \A w \in V : v[2].hops = w[2].hops /\ v[1] <= w[1]
  BY <1>2, <1>3, <1>4
<1>6. /\ Best(graph, s, below) \in V
      /\ \A w \in V : \/ Best(graph, s, below)[2].hops < w[2].hops
                      \/ Best(graph, s, below)[2].hops = w[2].hops /\ Best(graph, s, below)[1] <= w[1]
  BY <1>4, <1>5 DEF Best, V
<1> QED BY <1>2, <1>6 DEF V

LEMMA FirstDirect ==
  ASSUME NEW graph, NEW cur, NEW s, Direct(graph, cur, s) # {}
  PROVE  First(graph, cur, s) \in Direct(graph, cur, s)
<1>1. Direct(graph, cur, s) \in SUBSET Nat
  BY DEF Direct, Into
<1>2. \E i \in Direct(graph, cur, s) : \A j \in Direct(graph, cur, s) : i <= j
  BY <1>1, SmallestOf
<1> QED BY <1>2 DEF First

(* An order by a number, and by an order of the number's own where it is the *)
(* same.                                                                     *)
ByKey(states, key, Q) ==
  {p \in states \X states : \/ key[p[1]] < key[p[2]]
                            \/ key[p[1]] = key[p[2]] /\ p \in Q[key[p[2]]]}

LEMMA KeyOrder ==
  ASSUME NEW states, NEW key \in [states -> Nat], NEW Q, \A k \in Nat : StrictOrder(Q[k])
  PROVE  StrictOrder(ByKey(states, key, Q))
<1>1. ASSUME NEW a, <<a, a>> \in ByKey(states, key, Q)
      PROVE  FALSE
  <2>1. a \in states /\ key[a] \in Nat
    BY <1>1 DEF ByKey
  <2> QED BY <1>1, <2>1 DEF ByKey, StrictOrder
<1>2. ASSUME NEW a, NEW b, NEW c, <<a, b>> \in ByKey(states, key, Q), <<b, c>> \in ByKey(states, key, Q)
      PROVE  <<a, c>> \in ByKey(states, key, Q)
  <2>1. {a, b, c} \subseteq states /\ key[a] \in Nat /\ key[b] \in Nat /\ key[c] \in Nat
    BY <1>2 DEF ByKey
  <2>2. key[a] < key[b] \/ (key[a] = key[b] /\ <<a, b>> \in Q[key[b]])
    BY <1>2 DEF ByKey
  <2>3. key[b] < key[c] \/ (key[b] = key[c] /\ <<b, c>> \in Q[key[c]])
    BY <1>2 DEF ByKey
  <2>4. key[a] < key[c] \/ (key[a] = key[c] /\ <<a, c>> \in Q[key[c]])
    BY <2>1, <2>2, <2>3 DEF StrictOrder
  <2> QED BY <2>1, <2>4 DEF ByKey
<1> QED BY <1>1, <1>2 DEF StrictOrder

LEMMA OneDepth ==
  ASSUME NEW graph, Len(graph) \in Nat, NEW states, NEW h \in Nat, NEW below,
         \A i \in 1 .. Len(graph) : graph[i].initial \in states /\ graph[i].target \in states,
         \A a \in states : Leaves(below[a], graph, a, h + 1),
         \A s \in states : \E R : Descends(R, graph, s, states, below),
         NEW s \in states
  PROVE  \E R : Descends(R, graph, s, states,
                         [a \in states |-> AnswersAt(graph, a, states, h, below[a])])
<1> DEFINE n == Len(graph)
           through(a) == Via(graph, s, below[a])
           key == [a \in states |-> IF Direct(graph, a, s) # {} THEN 0
                                    ELSE IF through(a) # {} THEN Best(graph, s, below[a])[1]
                                    ELSE n + 1]
           Q == [k \in Nat |-> IF k \in 1 .. n
                               THEN CHOOSE R : Descends(R, graph, graph[k].initial, states, below)
                               ELSE {}]
           R == ByKey(states, key, Q)
           answers == [a \in states |-> AnswersAt(graph, a, states, h, below[a])]
<1>1. \A a \in states : through(a) # {} =>
        /\ Best(graph, s, below[a]) \in through(a)
        /\ \A w \in through(a) : Best(graph, s, below[a])[1] <= w[1]
  BY BestSmallest
<1>2. \A a \in states : \A w \in through(a) :
        /\ w[1] \in 1 .. n /\ graph[w[1]].target = s
        /\ w[2] \in below[a] /\ graph[w[1]].initial = w[2].wanted
  BY DEF Via, Into
<1>3. key \in [states -> Nat]
  BY <1>1, <1>2
<1>4. \A k \in 1 .. n : Descends(Q[k], graph, graph[k].initial, states, below)
  <2> TAKE k \in 1 .. n
  <2>1. graph[k].initial \in states
    OBVIOUS
  <2>2. \E P : Descends(P, graph, graph[k].initial, states, below)
    BY <2>1
  <2>3. Q[k] = CHOOSE P : Descends(P, graph, graph[k].initial, states, below)
    OBVIOUS
  <2> HIDE DEF Q
  <2> QED BY <2>2, <2>3
<1>5. \A k \in Nat : StrictOrder(Q[k])
  <2>1. \A k \in Nat \ (1 .. n) : StrictOrder(Q[k])
    BY DEF StrictOrder
  <2> HIDE DEF Q
  <2> QED BY <1>4, <2>1 DEF Descends
<1>6. StrictOrder(R)
  <2> HIDE DEF key, Q
  <2> QED BY <1>3, <1>5, KeyOrder
(* Who has a transition of its own into s, or one to go through, answers.    *)
<1>7. \A a \in states : Direct(graph, a, s) # {} \/ through(a) # {} => Answered(answers[a], s)
  <2> TAKE a \in states
  <2> HAVE Direct(graph, a, s) # {} \/ through(a) # {}
  <2> DEFINE r == [wanted |-> s, id |-> Chosen(graph, a, s, below[a]), hops |-> h]
  <2>1. r \in AnswersAt(graph, a, states, h, below[a])
    BY DEF AnswersAt
  <2>2. r.wanted = s
    OBVIOUS
  <2>3. answers[a] = AnswersAt(graph, a, states, h, below[a])
    OBVIOUS
  <2> HIDE DEF r, answers
  <2> QED BY <2>1, <2>2, <2>3 DEF Answered
<1>8. ASSUME NEW a \in states, NEW r \in answers[a], r.wanted = s
      PROVE  \/ graph[r.id].target = s
             \/ /\ <<graph[r.id].target, a>> \in R
                /\ Answered(answers[graph[r.id].target], s)
  <2>1. /\ r.id = Chosen(graph, a, s, below[a])
        /\ Direct(graph, a, s) # {} \/ through(a) # {}
    BY <1>8 DEF AnswersAt
  <2>2. CASE Direct(graph, a, s) # {}
    <3>1. r.id \in Direct(graph, a, s)
      BY <2>1, <2>2, FirstDirect DEF Chosen
    <3> QED BY <3>1 DEF Direct, Into
  <2>3. CASE Direct(graph, a, s) = {}
    <3> DEFINE v == Best(graph, s, below[a])
               x == graph[v[2].id].target
    <3>1. /\ r.id = v[2].id /\ v \in through(a) /\ key[a] = v[1]
      BY <1>1, <2>1, <2>3 DEF Chosen
    <3>2. /\ v[1] \in 1 .. n /\ graph[v[1]].target = s
          /\ v[2] \in below[a] /\ v[2].wanted = graph[v[1]].initial
      BY <1>2, <3>1
    <3>3. v[2].id \in 1 .. n /\ x \in states
      BY <3>2 DEF Leaves
    <3> HIDE DEF v
    <3>4. \/ x = graph[v[1]].initial
          \/ <<x, a>> \in Q[v[1]] /\ Answered(below[x], graph[v[1]].initial)
      <4>1. Descends(Q[v[1]], graph, graph[v[1]].initial, states, below)
        BY <1>4, <3>2
      <4> HIDE DEF Q
      <4> QED BY <3>2, <4>1 DEF Descends
    <3>5. ASSUME key[x] < key[a] \/ (key[x] = key[a] /\ <<x, a>> \in Q[key[a]])
          PROVE  <<x, a>> \in R
      <4> HIDE DEF key, Q
      <4> QED BY <3>3, <3>5 DEF ByKey
    <3>6. CASE Direct(graph, x, s) # {}
      <4>1. key[x] = 0 /\ key[a] > 0
        BY <3>1, <3>2, <3>3, <3>6
      <4>3. \A m, k : m = 0 /\ k > 0 => m < k
        OBVIOUS
      <4> HIDE DEF key, Q, R, answers
      <4>2. <<x, a>> \in R
        BY <3>5, <4>1, <4>3
      <4> QED BY <1>7, <3>1, <3>3, <3>6, <4>2
    <3>7. CASE Direct(graph, x, s) = {}
      <4>1. x # graph[v[1]].initial
        BY <3>2, <3>7 DEF Direct, Into
      <4>2. PICK q \in below[x] : q.wanted = graph[v[1]].initial
        BY <3>4, <4>1 DEF Answered
      <4>3. <<v[1], q>> \in through(x)
        BY <3>2, <4>2 DEF Via, Into
      <4>4. key[x] = Best(graph, s, below[x])[1] /\ key[x] <= v[1] /\ key[x] \in Nat
        <5>1. key[x] = Best(graph, s, below[x])[1]
          BY <3>3, <3>7, <4>3
        <5>2. Best(graph, s, below[x])[1] <= <<v[1], q>>[1]
          BY <1>1, <3>3, <4>3
        <5> QED BY <1>3, <3>3, <5>1, <5>2
      <4>5. key[x] < key[a] \/ (key[x] = key[a] /\ <<x, a>> \in Q[key[a]])
        <5> HIDE DEF key, Q
        <5> QED BY <3>1, <3>2, <3>4, <4>1, <4>4
      <4> HIDE DEF key, Q, R, answers
      <4> QED BY <1>7, <3>1, <3>3, <3>5, <4>3, <4>5
    <3> QED BY <3>6, <3>7
  <2> QED BY <2>2, <2>3
<1>9. Descends(R, graph, s, states, answers)
  <2> HIDE DEF R, answers
  <2> QED BY <1>6, <1>8 DEF Descends
<1> HIDE DEF R, answers
<1> QED BY <1>9 DEF answers

(* Every state is ordered so, at every depth.                                *)
LEMMA DepthsDescend ==
  ASSUME NEW graph, Len(graph) \in Nat, NEW states,
         \A i \in 1 .. Len(graph) : graph[i].initial \in states /\ graph[i].target \in states
  PROVE  \A h \in 1 .. Len(graph) : \A s \in states :
           \E R : Descends(R, graph, s, states, [a \in states |-> Answers(graph, a, states)[h]])
<1> DEFINE n == Len(graph)
           At(h) == [a \in states |-> Answers(graph, a, states)[h]]
           below(h) == [a \in states |-> Below(Answers(graph, a, states), h, n)]
           Ordered(answers) == \A s \in states : \E R : Descends(R, graph, s, states, answers)
           Deep == {k \in Nat : k < n => Ordered(At(n - k))}
<1>1. ASSUME NEW h \in 1 .. n, Ordered(below(h))
      PROVE  Ordered(At(h))
  <2>1. \A a \in states : Leaves(below(h)[a], graph, a, h + 1)
    <3> TAKE a \in states
    <3>1. h < n => h + 1 \in 1 .. n
      OBVIOUS
    <3>2. \A g \in 1 .. n : Leaves(Answers(graph, a, states)[g], graph, a, g)
      BY AnswersLeave
    <3> QED BY <3>1, <3>2 DEF Below, TooDeep, Leaves
  <2>2. At(h) = [a \in states |-> AnswersAt(graph, a, states, h, below(h)[a])]
    <3>1. \A a \in states : Answers(graph, a, states)[h] = AnswersAt(graph, a, states, h, below(h)[a])
      BY AnswersDefined
    <3> HIDE DEF below
    <3> QED BY <3>1
  <2>3. h \in Nat
    OBVIOUS
  <2> HIDE DEF At, below
  <2>4. Ordered([a \in states |-> AnswersAt(graph, a, states, h, below(h)[a])])
    BY <1>1, <2>1, <2>3, OneDepth, Zenon
  <2> HIDE DEF Ordered
  <2> QED BY <2>2, <2>4, Zenon
<1>2. 0 \in Deep
  <2> SUFFICES ASSUME 0 < n
               PROVE  Ordered(At(n - 0))
    <3> HIDE DEF Ordered, At
    <3> QED OBVIOUS
  <2>1. n \in 1 .. n /\ n - 0 = n
    OBVIOUS
  <2>2. \A a \in states : below(n)[a] = {}
    BY DEF Below, TooDeep
  <2>3. \A s \in states : Descends({}, graph, s, states, below(n))
    <3> HIDE DEF below
    <3> QED BY <2>2 DEF Descends, StrictOrder
  <2>4. Ordered(below(n))
    <3> HIDE DEF below
    <3> QED BY <2>3
  <2> HIDE DEF At, below, Ordered
  <2> QED BY <1>1, <2>1, <2>4
<1>3. ASSUME NEW k \in Nat, k \in Deep
      PROVE  k + 1 \in Deep
  <2> SUFFICES ASSUME k + 1 < n
               PROVE  Ordered(At(n - (k + 1)))
    <3> HIDE DEF Ordered, At
    <3> QED OBVIOUS
  <2>1. /\ n - (k + 1) \in 1 .. n /\ (n - (k + 1)) + 1 = n - k /\ ~(n - (k + 1) >= n) /\ k < n
    OBVIOUS
  <2>2. below(n - (k + 1)) = At(n - k)
    BY <2>1 DEF Below, TooDeep
  <2> HIDE DEF At, below, Ordered
  <2>3. Ordered(At(n - k))
    BY <1>3, <2>1
  <2> HIDE DEF Deep
  <2> QED BY <1>1, <2>1, <2>2, <2>3
<1> HIDE DEF Ordered, At
<1>4. Nat \subseteq Deep
  <2> HIDE DEF Deep
  <2> QED BY <1>2, <1>3, InductionOver
<1>5. ASSUME NEW h \in 1 .. n
      PROVE  Ordered(At(h))
  <2>1. n - h \in Nat /\ n - h < n /\ n - (n - h) = h
    OBVIOUS
  <2> QED BY <1>4, <2>1
<1> QED BY <1>5 DEF Ordered, At

(* One order of the states for a table and a request: the state where a      *)
(* transition found leads is the requested one or smaller.                   *)
Leading(R, graph, wanted, states) ==
  /\ StrictOrder(R)
  /\ \A a \in states :
       LET found == FindFirst(graph, a, wanted, states) IN
       found # NoTransition => graph[found].target = wanted \/ <<graph[found].target, a>> \in R

LEMMA SearchDescends ==
  ASSUME NEW graph, Len(graph) \in Nat, NEW states, NEW wanted \in states,
         \A i \in 1 .. Len(graph) : graph[i].initial \in states /\ graph[i].target \in states
  PROVE  \E R : Leading(R, graph, wanted, states)
<1>1. CASE Len(graph) = 0
  <2>1. \A a : FindFirst(graph, a, wanted, states) = NoTransition
    BY <1>1 DEF FindFirst
  <2>2. Leading({}, graph, wanted, states)
    BY <2>1 DEF Leading, StrictOrder
  <2> QED BY <2>2
<1>2. CASE Len(graph) # 0
  <2> DEFINE A(a) == Answers(graph, a, states)[1]
             found(a) == {r \in A(a) : r.wanted = wanted}
             top == [a \in states |-> A(a)]
  <2>1. PICK R : Descends(R, graph, wanted, states, top)
    <3>1. 1 \in 1 .. Len(graph)
      BY <1>2
    <3> QED BY <3>1, DepthsDescend
  <2>2. \A a : FindFirst(graph, a, wanted, states)
                 = IF found(a) = {} THEN NoTransition ELSE (CHOOSE r \in found(a) : TRUE).id
    BY <1>2 DEF FindFirst
  <2>3. \A a \in states : top[a] = A(a)
    OBVIOUS
  <2> HIDE DEF A, top
  <2>4. ASSUME NEW a \in states, FindFirst(graph, a, wanted, states) # NoTransition
        PROVE  \/ graph[FindFirst(graph, a, wanted, states)].target = wanted
               \/ <<graph[FindFirst(graph, a, wanted, states)].target, a>> \in R
    <3>1. PICK r \in A(a) : r.wanted = wanted /\ FindFirst(graph, a, wanted, states) = r.id
      BY <2>2, <2>4
    <3> QED BY <2>1, <2>3, <3>1 DEF Descends
  <2>5. Leading(R, graph, wanted, states)
    BY <2>1, <2>4 DEF Descends, Leading
  <2> QED BY <2>5
<1> QED BY <1>1, <1>2

-----------------------------------------------------------------------------
Smaller == CHOOSE R : Leading(R, table, newState, States)

(* The trail ends at the current state, the requested state is nowhere       *)
(* before, and everything before it gets smaller and smaller.                *)
TrailInv ==
  /\ Len(trail) # 0 /\ trail[Len(trail)] = state
  /\ \A i \in 1 .. Len(trail) - 1 : trail[i] # newState
  /\ \A i, j \in 1 .. Len(trail) :
       i < j => trail[j] = newState \/ <<trail[j], trail[i]>> \in Smaller

LEMMA SmallerLeads == WalkInv => Leading(Smaller, table, newState, States)
<1> SUFFICES ASSUME WalkInv
             PROVE  Leading(Smaller, table, newState, States)
  OBVIOUS
<1>1. table \in Seq([initial : States, target : States])
  BY WalkAssumption DEF WalkInv
<1>2. /\ Len(table) \in Nat
      /\ \A i \in 1 .. Len(table) : table[i].initial \in States /\ table[i].target \in States
  <2> DEFINE Edges == [initial : States, target : States]
  <2>1. \A e \in Edges : e.initial \in States /\ e.target \in States
    OBVIOUS
  <2>2. table \in Seq(Edges)
    BY <1>1
  <2> HIDE DEF Edges
  <2>3. Len(table) \in Nat /\ \A i \in 1 .. Len(table) : table[i] \in Edges
    BY <2>2
  <2> QED BY <2>1, <2>3
<1>3. newState \in States
  BY DEF WalkInv, WalkTypeOK
<1>4. \E R : Leading(R, table, newState, States)
  BY <1>2, <1>3, SearchDescends
<1> QED BY <1>4 DEF Smaller

LEMMA TrailInductive == WalkInv /\ TrailInv /\ [WalkNext]_walkVars => TrailInv'
<1> SUFFICES ASSUME WalkInv, TrailInv, [WalkNext]_walkVars
             PROVE  TrailInv'
  OBVIOUS
<1>0. trail \in Seq(States)
  BY DEF WalkInv, WalkTypeOK
<1>1. CASE Take
  <2> DEFINE n == Len(trail)
             x == table[Found].target
  <2>1. /\ trail' = Append(trail, x) /\ state' = x /\ state # newState /\ Found # NoTransition
        /\ table' = table /\ newState' = newState
    BY <1>1 DEF Take
  <2>2. n \in Nat /\ n # 0 /\ trail[n] = state
    BY <1>0 DEF TrailInv
  <2>3. /\ Len(trail') = n + 1 /\ trail'[n + 1] = x
        /\ \A i \in 1 .. n : trail'[i] = trail[i]
    BY <1>0, <2>1
  <2>4. Smaller' = Smaller
    BY <2>1 DEF Smaller
  <2>5. /\ StrictOrder(Smaller)
        /\ x = newState \/ <<x, state>> \in Smaller
    BY <2>1, SmallerLeads DEF Leading, Found, WalkInv, WalkTypeOK
  <2> HIDE DEF x
  <2>6. \A i \in 1 .. n : trail[i] # newState
    BY <2>1, <2>2 DEF TrailInv
  <2>7. \A i, j \in 1 .. n : i < j => <<trail[j], trail[i]>> \in Smaller
    BY <2>6 DEF TrailInv
  <2>8. \A i \in 1 .. n : x = newState \/ <<x, trail[i]>> \in Smaller
    <3> TAKE i \in 1 .. n
    <3>1. CASE i = n
      BY <2>2, <2>5, <3>1
    <3>2. CASE i # n
      <4>1. i < n /\ n \in 1 .. n
        BY <2>2, <3>2
      <4>2. <<state, trail[i]>> \in Smaller
        BY <2>2, <2>7, <4>1
      <4> QED BY <2>5, <4>2 DEF StrictOrder
    <3> QED BY <3>1, <3>2
  <2>9. ASSUME NEW i \in 1 .. n + 1, NEW j \in 1 .. n + 1, i < j
        PROVE  trail'[j] = newState \/ <<trail'[j], trail'[i]>> \in Smaller
    <3>1. i \in 1 .. n /\ (j = n + 1 \/ j \in 1 .. n)
      BY <2>2, <2>9
    <3> QED BY <2>3, <2>7, <2>8, <2>9, <3>1
  <2>10. (n + 1) - 1 = n
    BY <2>2
  <2> HIDE DEF n
  <2> QED BY <2>1, <2>2, <2>3, <2>4, <2>6, <2>9, <2>10 DEF TrailInv
<1>2. CASE GiveUp
  BY <1>2 DEF GiveUp, TrailInv
<1>3. CASE UNCHANGED walkVars
  BY <1>3 DEF walkVars, TrailInv, Smaller
<1> QED BY <1>1, <1>2, <1>3 DEF WalkNext

(* The task never comes back to a state it has left for the same request,    *)
(* although the search starts over after every transition, takes the first   *)
(* route it meets and may be cut off on a long one (power_graph_task, with   *)
(* find_first_transition_to_state).                                          *)
THEOREM WalkEnds == WalkSpec => []NeverRevisits
<1>1. WalkInit => TrailInv
  BY DEF WalkInit, TrailInv
<1>2. WalkInv /\ TrailInv => NeverRevisits
  <2> SUFFICES ASSUME WalkInv, TrailInv,
                      NEW i \in 1 .. Len(trail), NEW j \in 1 .. Len(trail), trail[i] = trail[j], i < j
               PROVE  FALSE
    <3>1. Len(trail) \in Nat
      BY DEF WalkInv, WalkTypeOK
    <3> QED BY <3>1 DEF NeverRevisits
  <2>1. i \in 1 .. Len(trail) - 1
    BY DEF WalkInv, WalkTypeOK
  <2>2. <<trail[j], trail[i]>> \in Smaller
    BY <2>1 DEF TrailInv
  <2> QED BY <2>2, SmallerLeads DEF Leading, StrictOrder
<1>3. TrailInv /\ WalkInv /\ [WalkNext]_walkVars => TrailInv'
  BY TrailInductive
<1> QED BY <1>1, <1>2, <1>3, WalkInvariant, PTL DEF WalkSpec

-----------------------------------------------------------------------------
(* The bits that tell the devices apart.                                     *)
LEMMA PowersNat == \A b \in 0 .. 15 : 2^b \in Nat \ {0}
<1> TAKE b \in 0 .. 15
<1>1. CASE b = 0  BY <1>1
<1>2. CASE b = 1  BY <1>2
<1>3. CASE b = 2  BY <1>3
<1>4. CASE b = 3  BY <1>4
<1>5. CASE b = 4  BY <1>5
<1>6. CASE b = 5  BY <1>6
<1>7. CASE b = 6  BY <1>7
<1>8. CASE b = 7  BY <1>8
<1>9. CASE b = 8  BY <1>9
<1>10. CASE b = 9  BY <1>10
<1>11. CASE b = 10  BY <1>11
<1>12. CASE b = 11  BY <1>12
<1>13. CASE b = 12  BY <1>13
<1>14. CASE b = 13  BY <1>14
<1>15. CASE b = 14  BY <1>15
<1>16. CASE b = 15  BY <1>16
<1> QED BY <1>1, <1>2, <1>3, <1>4, <1>5, <1>6, <1>7, <1>8,
          <1>9, <1>10, <1>11, <1>12, <1>13, <1>14, <1>15, <1>16

LEMMA DeviceBits ==
  DevIndexBits \in 0 .. 15 /\ NumDevices <= 2^DevIndexBits
<1> DEFINE Enough == {b \in 0 .. 15 : NumDevices <= 2^b}
           Is(b) == NumDevices <= 2^b /\ \A c \in 0 .. b - 1 : NumDevices > 2^c
<1>1. NumDevices \in 1 .. 2^15
  BY PackingAssumption DEF PackingAssumption
<1>2. 15 \in Enough /\ Enough \subseteq Nat
  BY <1>1
<1>3. PICK b \in Enough : \A c \in Enough : b <= c
  BY <1>2, SmallestOf
<1>4. ASSUME NEW c \in 0 .. b - 1
      PROVE  NumDevices > 2^c
  <2>1. c \in 0 .. 15 /\ c \notin Enough
    BY <1>2, <1>3
  <2>2. ~(NumDevices <= 2^c)
    BY <2>1, Zenon
  <2>3. 2^c \in Nat \ {0}
    BY <2>1, PowersNat, Zenon
  <2> QED BY <1>1, <2>2, <2>3
<1>5. b \in 0 .. 15 /\ Is(b)
  BY <1>3, <1>4
<1>6. DevIndexBits = CHOOSE k \in 0 .. 15 : Is(k)
  BY Zenon DEF DevIndexBits, BitsFor
<1> HIDE DEF Is
<1>7. DevIndexBits \in 0 .. 15 /\ Is(DevIndexBits)
  BY <1>5, <1>6, Zenon
<1> QED BY <1>7 DEF Is

LEMMA SizesNat ==
  /\ NumDevices \in Nat \ {0} /\ NumStates \in Nat \ {0}
  /\ 2^DevIndexBits \in Nat \ {0} /\ NumDevices <= 2^DevIndexBits
<1>1. NumDevices \in 1 .. 2^15 /\ NumStates \in 1 .. 2^15
  BY PackingAssumption DEF PackingAssumption
<1> QED BY <1>1, DeviceBits, PowersNat

(* A stage is read from the tables as it was declared, the device and the    *)
(* value, when the largest one fits the width they are read with: the        *)
(* packing itself loses nothing (STAGE_PACK, DEV_INDEX, DEV_STATE).          *)
THEOREM StagesKept ==
  \A d \in 0 .. NumDevices - 1, s \in 0 .. NumStates - 1 :
    Stored(d, s) = [dev |-> d, state |-> s]
<1> TAKE d \in 0 .. NumDevices - 1, s \in 0 .. NumStates - 1
<1> DEFINE B == 2^DevIndexBits
           W == 2^DeclaredBits
<1>1. /\ NumDevices \in Nat \ {0} /\ NumStates \in Nat \ {0}
      /\ B \in Nat \ {0} /\ NumDevices <= B
  BY SizesNat
<1>2. W \in Nat \ {0}
  BY PowersNat DEF DeclaredBits
<1>3. (NumDevices - 1) + (NumStates - 1) * B < W
  BY PackingAssumption DEF PackingAssumption, Pack
<1>4. Stored(d, s) = Unpack((d + s * B) % W)
  BY DEF Stored, Pack
<1>5. \A packed : Unpack(packed) = [dev |-> packed % B, state |-> packed \div B]
  BY DEF Unpack
<1> HIDE DEF B, W
<1>6. s * B <= (NumStates - 1) * B
  BY <1>1
<1>7. d + s * B \in 0 .. W - 1
  <2>1. s * B \in Nat /\ (NumStates - 1) * B \in Nat
    BY <1>1
  <2> QED BY <1>1, <1>2, <1>3, <1>6, <2>1
<1>8. (d + s * B) % W = d + s * B
  <2> DEFINE p == d + s * B
  <2> HIDE DEF p
  <2>1. p \in 0 .. W - 1
    BY <1>7 DEF p
  <2>2. p % W = p
    BY <1>2, <2>1
  <2> QED BY <2>2 DEF p
<1>9. d \in 0 .. B - 1
  BY <1>1
<1>10. (d + s * B) % B = d /\ (d + s * B) \div B = s
  BY <1>1, <1>9
<1> QED BY <1>4, <1>5, <1>8, <1>10
===============================================================================
