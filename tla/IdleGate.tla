------------------------------ MODULE IdleGate ------------------------------
(***************************************************************************)
(* The idle gate (pipeline/idle_gate.py): supervisors poll Jellyfin's       *)
(* sessions and write a status file, the worker reads it.                   *)
(*                                                                         *)
(* The systemd unit polls for ever and is restarted when it dies; a CLI     *)
(* "--once" evaluates once, with a supervisor object of its own, and exits. *)
(* Times are ages: how long ago a time stamp was taken, capped where no     *)
(* comparison can tell the difference any more.  One tick is any fixed      *)
(* fraction of poll_interval_sec.                                           *)
(***************************************************************************)
EXTENDS Integers

CONSTANTS
  Unit,            \* the systemd unit's supervisor
  OnceRuns,        \* CLI runs with --once
  None,
  Delay,           \* idle_delay_sec
  Poll,            \* poll_interval_sec
  MaxFetch,        \* longest time from Jellyfin's answer to the decision
  MaxCrashes,      \* bound on crashes of the unit
  FreezeWorker,    \* freeze_worker
  SystemctlFails,  \* TRUE: systemctl may time out or be missing
  Hammer,          \* TRUE: an operator's Hammer may delete the status file
  ClockJumps       \* TRUE: the wall clock may be set forward

Supervisors == {Unit} \cup OnceRuns

\* stale_after_sec
Stale == 3 * Poll

Age(cap) == 0..cap

\* The status file.
Status == [gate : {"open", "closed"},
           reason : {"idle", "active", "idle_delay", "error"},
           since : Age(Delay) \cup {None},
           age : Age(Stale + 1)]

ASSUME IdleGateAssumption ==
  /\ Unit \notin OnceRuns
  /\ Delay \in Nat \ {0} /\ Poll \in Nat \ {0}
  /\ MaxFetch \in Nat /\ MaxFetch <= 2 * Poll
  /\ MaxCrashes \in Nat
  /\ None \notin Nat /\ None \notin Status /\ None \notin BOOLEAN
  /\ {FreezeWorker, SystemctlFails, Hammer, ClockJumps} \subseteq BOOLEAN

VARIABLES
  blocking,  \* Jellyfin has a session for which should_block_render says yes
  jellyfin,  \* Jellyfin answers
  status,    \* the status file: gate, reason, idle_clear_since, updated_at
  pc,        \* supervisor -> next step
  wake,      \* supervisor -> ticks it may still sleep or wait for the answer
  sample,    \* supervisor -> what the last fetch_sessions returned
  seen,      \* supervisor -> _seen_block
  clear,     \* supervisor -> _clear_since
  lastOpen,  \* supervisor -> _last_open
  frozen,    \* FreezerState of the worker unit
  quiet,     \* history: time since a blocking session was last reported
  watching,  \* history: how long a blocking session has lasted
  crashes

ramVars == <<pc, wake, sample, seen, clear, lastOpen>>
env == <<blocking, jellyfin>>
gateVars == <<env, status, ramVars, frozen, quiet, watching, crashes>>

\* Longest time a blocking session can go unnoticed.
Blind == Stale + MaxFetch

Older(a, n, cap) == IF a = None THEN None ELSE IF a + n > cap THEN cap ELSE a + n

-----------------------------------------------------------------------------
(* The supervisor.                                                         *)

\* Fault: the status file is not read at the start.
StartCold(p) ==
  /\ pc[p] = "down"
  /\ pc' = [pc EXCEPT ![p] = "poll"]
  /\ seen' = [seen EXCEPT ![p] = FALSE]
  /\ clear' = [clear EXCEPT ![p] = None]
  /\ lastOpen' = [lastOpen EXCEPT ![p] = None]
  /\ UNCHANGED <<env, status, wake, sample, frozen, quiet, watching, crashes>>

\* __init__ and _hydrate_from_status: a closed gate was blocked; its delay
\* goes on only if the file says idle_delay.
Start(p) ==
  /\ pc[p] = "down"
  /\ pc' = [pc EXCEPT ![p] = "poll"]
  /\ LET closed == status # None /\ status.gate = "closed" IN
     /\ seen' = [seen EXCEPT ![p] = closed]
     /\ clear' = [clear EXCEPT ![p] =
                   IF closed /\ status.reason = "idle_delay" THEN status.since
                                                             ELSE None]
  /\ lastOpen' = [lastOpen EXCEPT ![p] = None]
  /\ UNCHANGED <<env, status, wake, sample, frozen, quiet, watching, crashes>>

\* fetch_sessions and should_block_render.  An exception ends --once.
Fetch(p) ==
  /\ pc[p] = "poll"
  /\ sample' = [sample EXCEPT ![p] = IF ~jellyfin THEN "error"
                                     ELSE IF blocking THEN "active" ELSE "idle"]
  /\ pc' = [pc EXCEPT ![p] = IF ~jellyfin /\ p # Unit THEN "exit" ELSE "decide"]
  /\ wake' = [wake EXCEPT ![p] = MaxFetch]
  /\ UNCHANGED <<env, status, seen, clear, lastOpen, frozen, quiet, watching,
                 crashes>>

Write(gate, reason, since) ==
  status' = [gate |-> gate, reason |-> reason, since |-> since, age |-> 0]

\* evaluate, a blocking session.
DecideBlocked(p) ==
  /\ pc[p] = "decide" /\ sample[p] = "active"
  /\ clear' = [clear EXCEPT ![p] = None]
  /\ seen' = [seen EXCEPT ![p] = TRUE]
  /\ Write("closed", "active", None)
  /\ quiet' = 0
  /\ pc' = [pc EXCEPT ![p] = "freeze"]
  /\ UNCHANGED <<env, wake, sample, lastOpen, frozen, watching, crashes>>

\* evaluate, nothing blocks and nothing was ever seen to.
DecideCold(p) ==
  /\ pc[p] = "decide" /\ sample[p] = "idle" /\ ~seen[p]
  /\ Write("open", "idle", None)
  /\ pc' = [pc EXCEPT ![p] = "freeze"]
  /\ UNCHANGED <<env, wake, sample, seen, clear, lastOpen, frozen, quiet,
                 watching, crashes>>

\* Faults: the gate opens a tick early; the delay starts over at every poll.
DecideDelayShort(p) ==
  /\ pc[p] = "decide" /\ sample[p] = "idle" /\ seen[p]
  /\ LET elapsed == IF clear[p] = None THEN 0 ELSE clear[p] IN
     /\ clear' = [clear EXCEPT ![p] = elapsed]
     /\ IF Delay - elapsed > 1 THEN Write("closed", "idle_delay", elapsed)
                               ELSE Write("open", "idle", elapsed)
  /\ pc' = [pc EXCEPT ![p] = "freeze"]
  /\ UNCHANGED <<env, wake, sample, seen, lastOpen, frozen, quiet, watching,
                 crashes>>

DecideDelayAgain(p) ==
  /\ pc[p] = "decide" /\ sample[p] = "idle" /\ seen[p]
  /\ clear' = [clear EXCEPT ![p] = 0]
  /\ Write("closed", "idle_delay", 0)
  /\ pc' = [pc EXCEPT ![p] = "freeze"]
  /\ UNCHANGED <<env, wake, sample, seen, lastOpen, frozen, quiet, watching,
                 crashes>>

\* evaluate, nothing blocks any more: the delay runs from the first such poll.
DecideDelay(p) ==
  /\ pc[p] = "decide" /\ sample[p] = "idle" /\ seen[p]
  /\ LET elapsed == IF clear[p] = None THEN 0 ELSE clear[p] IN
     /\ clear' = [clear EXCEPT ![p] = elapsed]
     /\ IF Delay - elapsed > 0 THEN Write("closed", "idle_delay", elapsed)
                               ELSE Write("open", "idle", elapsed)
  /\ pc' = [pc EXCEPT ![p] = "freeze"]
  /\ UNCHANGED <<env, wake, sample, seen, lastOpen, frozen, quiet, watching,
                 crashes>>

Rest(p) ==
  /\ pc' = [pc EXCEPT ![p] = IF p = Unit THEN "sleep" ELSE "exit"]
  /\ wake' = [wake EXCEPT ![p] = Poll]

\* run_forever's handler: closed, without a clear time; the RAM state stays and
\* the worker is neither frozen nor thawed.
DecideError(p) ==
  /\ pc[p] = "decide" /\ sample[p] = "error"
  /\ Write("closed", "error", None)
  /\ Rest(p)
  /\ UNCHANGED <<env, sample, seen, clear, lastOpen, frozen, quiet, watching,
                 crashes>>

\* Fault: the first poll after a start only takes note of the gate.
FreezeOnChange(p) ==
  /\ pc[p] = "freeze"
  /\ LET open == status # None /\ status.gate = "open" IN
     /\ lastOpen' = [lastOpen EXCEPT ![p] = open]
     /\ frozen' = IF FreezeWorker /\ lastOpen[p] = ~open THEN ~open ELSE frozen
  /\ Rest(p)
  /\ UNCHANGED <<env, status, sample, seen, clear, quiet, watching, crashes>>

\* _maybe_freeze: once per change of the gate, and not again when it failed.
MaybeFreeze(p) ==
  /\ pc[p] = "freeze"
  /\ LET open == status # None /\ status.gate = "open" IN
     IF ~FreezeWorker \/ lastOpen[p] = open
     THEN UNCHANGED <<lastOpen, frozen>>
     ELSE /\ lastOpen' = [lastOpen EXCEPT ![p] = open]
          /\ frozen' = ~open \/ (SystemctlFails /\ UNCHANGED frozen)
  /\ Rest(p)
  /\ UNCHANGED <<env, status, sample, seen, clear, quiet, watching, crashes>>

Wake(p) ==
  /\ pc[p] = "sleep" /\ wake[p] = 0
  /\ pc' = [pc EXCEPT ![p] = "poll"]
  /\ UNCHANGED <<env, status, wake, sample, seen, clear, lastOpen, frozen,
                 quiet, watching, crashes>>

Decide(p) == DecideBlocked(p) \/ DecideCold(p) \/ DecideDelay(p) \/ DecideError(p)

Supervise(p) == Start(p) \/ Fetch(p) \/ Decide(p) \/ MaybeFreeze(p) \/ Wake(p)

-----------------------------------------------------------------------------
(* The world around it.                                                    *)

CrashSupervisor ==
  /\ crashes < MaxCrashes /\ pc[Unit] # "down"
  /\ pc' = [pc EXCEPT ![Unit] = "down"]
  /\ crashes' = crashes + 1
  /\ UNCHANGED <<env, status, wake, sample, seen, clear, lastOpen, frozen,
                 quiet, watching>>

\* hammer.apply_plan
Unlink ==
  /\ Hammer /\ status # None
  /\ status' = None
  /\ UNCHANGED <<env, ramVars, frozen, quiet, watching, crashes>>

Sessions ==
  /\ blocking' = ~blocking
  /\ watching' = 0
  /\ UNCHANGED <<jellyfin, status, ramVars, frozen, quiet, crashes>>

Reach ==
  /\ jellyfin' = ~jellyfin
  /\ UNCHANGED <<blocking, status, ramVars, frozen, quiet, watching, crashes>>

\* Stored time stamps age by n.
Pass(n) ==
  /\ status' = IF status = None THEN None
               ELSE [status EXCEPT !.age = Older(@, n, Stale + 1),
                                   !.since = Older(@, n, Delay)]
  /\ clear' = [p \in Supervisors |-> Older(clear[p], n, Delay)]

\* Time does not pass while a supervisor has something to do at once.
Tick ==
  /\ \A p \in Supervisors :
       /\ pc[p] \in {"down", "exit", "sleep", "decide"}
       /\ pc[p] \in {"sleep", "decide"} => wake[p] > 0
  /\ Pass(1)
  /\ wake' = [p \in Supervisors |->
               IF pc[p] \in {"sleep", "decide"} THEN wake[p] - 1 ELSE wake[p]]
  /\ quiet' = Older(quiet, 1, Delay)
  /\ watching' = IF blocking THEN Older(watching, 1, Blind + 1) ELSE 0
  /\ UNCHANGED <<env, pc, sample, seen, lastOpen, frozen, crashes>>

\* The clock is set forward past every delay; no time passes.
Jump ==
  /\ ClockJumps
  /\ Pass(Delay + Stale + 1)
  /\ UNCHANGED <<env, pc, wake, sample, seen, lastOpen, frozen, quiet, watching,
                 crashes>>

GateInit ==
  /\ blocking = FALSE /\ jellyfin = TRUE
  /\ status = None
  /\ pc = [p \in Supervisors |-> "down"]
  /\ wake = [p \in Supervisors |-> 0]
  /\ sample = [p \in Supervisors |-> "idle"]
  /\ seen = [p \in Supervisors |-> FALSE]
  /\ clear = [p \in Supervisors |-> None]
  /\ lastOpen = [p \in Supervisors |-> None]
  /\ frozen = FALSE
  /\ quiet = Delay /\ watching = 0 /\ crashes = 0

GateNext == (\E p \in Supervisors : Supervise(p))
            \/ CrashSupervisor \/ Unlink \/ Sessions \/ Reach \/ Tick \/ Jump

GateSpec == GateInit /\ [][GateNext]_gateVars

\* systemd keeps the unit running and time goes on.
GateFairSpec == GateSpec /\ WF_gateVars(Supervise(Unit)) /\ WF_gateVars(Tick)

-----------------------------------------------------------------------------
(* Properties.                                                             *)

GateTypeOK ==
  /\ blocking \in BOOLEAN /\ jellyfin \in BOOLEAN
  /\ status \in Status \cup {None}
  /\ pc \in [Supervisors -> {"down", "poll", "decide", "freeze", "sleep", "exit"}]
  /\ wake \in [Supervisors -> Nat]
  /\ sample \in [Supervisors -> {"idle", "active", "error"}]
  /\ seen \in [Supervisors -> BOOLEAN]
  /\ clear \in [Supervisors -> Age(Delay) \cup {None}]
  /\ lastOpen \in [Supervisors -> BOOLEAN \cup {None}]
  /\ frozen \in BOOLEAN
  /\ quiet \in Age(Delay) /\ watching \in Age(Blind + 1)
  /\ crashes \in 0..MaxCrashes

\* Faults: the age of the file does not matter; no file is an open gate.
OpenForEver == status # None /\ status.gate = "open"
OpenWithoutFile == status = None \/ (status.gate = "open" /\ status.age <= Stale)

\* is_gate_open
GateOpen == status # None /\ status.gate = "open" /\ status.age <= Stale

\* "Gate stays closed for idle_delay_sec after the last block (hydrated from
\* JSON across restart)": whatever sequence of blocks, errors, crashes and
\* restarts came before, an open file is idle_delay_sec away from the last
\* reported block.
DelayIsKept == status # None /\ status.gate = "open" => quiet = Delay

\* The gate fails closed: no reader finds it open when a blocking session has
\* lasted longer than three polls and one answer, with the supervisor dead,
\* Jellyfin unreachable or the file deleted ("dead supervisor").
FailsClosed == GateOpen => watching <= Blind

\* "freeze/thaw of worker unit while gate closed": between two polls the worker
\* is frozen only if the file says closed.
FrozenOnlyWhileClosed ==
  pc[Unit] = "sleep" /\ frozen => status = None \/ status.gate = "closed"

\* When Jellyfin answers and nothing blocks from some time on, the gate is open
\* again and again and a frozen worker is thawed for good, after any crash of
\* the supervisor.
WorksWhenQuiet ==
  <>[](~blocking /\ jellyfin) => []<>GateOpen /\ <>[]~frozen

Contract == INSTANCE GateContract WITH open <- GateOpen

\* The status file the supervisor writes is, to a reader, the contract's gate:
\* it opens only when idle_delay_sec has passed since the last reported block,
\* and a block closes it at once (is_gate_open).
ImplementsGateContract == Contract!Spec
=============================================================================
