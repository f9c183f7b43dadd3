----------------------------- MODULE MCFurnace -----------------------------
(* Model-checking instance of Furnace: a sheep and its re-furnace.          *)
EXTENDS Furnace

CONSTANTS g1, g2, s1

OneFlock == [g \in Genomes |-> s1]
=============================================================================
