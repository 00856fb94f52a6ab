------------------------------ MODULE MCTuning ------------------------------
EXTENDS Tuning

OneAndNone == [i \in 0 .. 1 |-> IF i = 0 THEN 1 ELSE 0]

Desc(def, min, max, exists, nv) ==
  [def |-> def, min |-> min, max |-> max, exists |-> exists, nv |-> nv]

(* Of a value_t up to 63: -6 samples make the divisor zero, 63 wrap it.      *)
Values == {-6, 0, 1, 5, 26, 63}

(* Two non-volatile parameters, a volatile one, and an unused identifier.    *)
Descs ==
  [p \in 0 .. 3 |-> CASE p = 0 -> Desc(1, 0, 2, TRUE, TRUE)
                      [] p = 1 -> Desc(0, 0, 1, TRUE, FALSE)
                      [] p = 2 -> Desc(0, 0, 0, FALSE, FALSE)
                      [] p = 3 -> Desc(2, 1, 3, TRUE, TRUE)]

(* Nothing that is a parameter, the pair of one, or of two.                  *)
Garbage == { << >>, <<[id |-> 0, val |-> 7]>>,
             <<[id |-> 1, val |-> 1], [id |-> 3, val |-> -7]>> }
=============================================================================
