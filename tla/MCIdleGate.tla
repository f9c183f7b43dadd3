----------------------------- MODULE MCIdleGate -----------------------------
(* Model-checking instance of IdleGate.                                    *)
EXTENDS IdleGate

CONSTANTS once
=============================================================================
