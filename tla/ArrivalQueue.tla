---------------------------- MODULE ArrivalQueue ----------------------------
(***************************************************************************)
(* What the inbox ledger promises (docs: "Render order is FIFO"): files are *)
(* admitted in batches behind everybody who waits, only the first is served,*)
(* a file may leave from any place, and losing the ledger forgets the whole *)
(* queue.  InboxFifo implements this specification.                         *)
(***************************************************************************)
CONSTANTS Files, None

VARIABLES
  waiting,   \* the files in the queue
  before,    \* the pairs <<x, y>> of waiting files where x is served before y
  serving    \* the file being served, or None

vars == <<waiting, before, serving>>

\* The strict total orders of a set of files.
Orders(S) ==
  {R \in SUBSET (S \X S) :
     /\ \A x \in S : <<x, x>> \notin R
     /\ \A x, y \in S : x # y => <<x, y>> \in R \/ <<y, x>> \in R
     /\ \A x, y, z \in S : <<x, y>> \in R /\ <<y, z>> \in R => <<x, z>> \in R}

\* The queue without x, everybody else in place.
Leave(x) ==
  /\ waiting' = waiting \ {x}
  /\ before' = {p \in before : p[1] # x /\ p[2] # x}

\* Newcomers go behind all who wait, in some order among themselves.
Admit ==
  /\ serving = None
  /\ \E S \in (SUBSET (Files \ waiting)) \ {{}} : \E R \in Orders(S) :
       /\ waiting' = waiting \cup S
       /\ before' = before \cup (waiting \X S) \cup R
  /\ UNCHANGED serving

First(x) == x \in waiting /\ \A y \in waiting \ {x} : <<x, y>> \in before

\* The first is served.  A queue that was forgotten serves what was picked from
\* it before.
Serve ==
  /\ serving = None
  /\ \/ \E x \in waiting : First(x) /\ serving' = x /\ Leave(x)
     \/ /\ waiting = {}
        /\ serving' \in Files
        /\ UNCHANGED <<waiting, before>>

Done ==
  /\ serving # None
  /\ serving' = None
  /\ UNCHANGED <<waiting, before>>

Withdraw ==
  /\ \E x \in waiting : Leave(x)
  /\ UNCHANGED serving

Forget ==
  /\ waiting # {}
  /\ waiting' = {}
  /\ before' = {}
  /\ UNCHANGED serving

Init == waiting = {} /\ before = {} /\ serving = None

Next == Admit \/ Serve \/ Done \/ Withdraw \/ Forget

Spec == Init /\ [][Next]_vars
=============================================================================
