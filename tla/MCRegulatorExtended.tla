-------------------------- MODULE MCRegulatorExtended --------------------------
(* Delays and pins for TLC.                                                  *)
EXTENDS RegulatorExtended

OnWorkOffNone == [on \in BOOLEAN |-> IF on THEN "work" ELSE "none"]
OnWorkOffBusy == [on \in BOOLEAN |-> IF on THEN "work" ELSE "busy"]
OnOffWork == [on \in BOOLEAN |-> "work"]
NoDelay == [on \in BOOLEAN |-> "none"]
===============================================================================
