---------------------------- MODULE GateContract ----------------------------
(* What readers of the idle gate are promised: it closes at any time, and   *)
(* opens only when idle_delay_sec have passed since the last blocking       *)
(* session was reported.                                                    *)
EXTENDS Naturals

CONSTANT Delay

VARIABLES
  open,   \* is_gate_open
  quiet   \* time since the last report of a blocking session, up to Delay

Init == open = FALSE /\ quiet = Delay

Block == open' = FALSE /\ quiet' = 0

Close == open /\ open' = FALSE /\ UNCHANGED quiet

Open == ~open /\ quiet = Delay /\ open' = TRUE /\ UNCHANGED quiet

\* Time passes; an open gate may grow stale.
Pass ==
  /\ quiet' = IF quiet < Delay THEN quiet + 1 ELSE Delay
  /\ open' = TRUE => open

Next == Block \/ Close \/ Open \/ Pass

Spec == Init /\ [][Next]_<<open, quiet>>
=============================================================================
