---------------------------- MODULE MCInboxFifo ----------------------------
(* Model-checking instance of InboxFifo.                                    *)
EXTENDS InboxFifo, TLC

Symmetry == Permutations(Names) \cup Permutations(Inodes) \cup Permutations(Stagers)
=============================================================================
