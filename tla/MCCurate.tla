------------------------------ MODULE MCCurate ------------------------------
(* Model-checking instance of Curate: a healthy sheep, a candidate, and the *)
(* tuple that leads from the one to the other.                              *)
EXTENDS Curate

CONSTANTS a, b, a2b

MCGrade == [s \in Sheep |-> IF s = b THEN "candidate" ELSE "ok"]

\* The tuple was made from its parents; or one of them was rendered again.
MCAges == {<<a, b, a2b>>, <<b, a2b, a>>}

MCFrom  == [s \in Sheep |-> IF s = a2b THEN a ELSE None]
MCTo    == [s \in Sheep |-> IF s = a2b THEN b ELSE None]
=============================================================================
