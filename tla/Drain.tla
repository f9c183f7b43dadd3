-------------------------------- MODULE Drain --------------------------------
(***************************************************************************)
(* The worker's poll loop (poll_inbox) between its three controls: the      *)
(* drain flag (pipeline/worker_drain.py), the idle gate, and the freezer,   *)
(* with an operator who requests, waits for, trusts and cancels a drain.    *)
(*                                                                         *)
(* The gate here is any Boolean a supervisor switches; IdleGate says when   *)
(* it does.  What a job does is in Furnace; here it is the writes of its    *)
(* job.json, which is all that the drain CLI sees of it, and what comes     *)
(* after the last of them.                                                  *)
(*                                                                         *)
(* What Watchdog calls by the same name has the prefix drain here, for the  *)
(* proofs extend both modules.                                              *)
(***************************************************************************)
EXTENDS Naturals

CONSTANTS
  MaxInbox,      \* bound on genomes waiting at once
  Stages,        \* writes of job.json between the claim and the final one
  FreezeWorker,  \* freeze_worker
  TornReads,     \* TRUE: job.json may be read while it is being rewritten
  WriteErrors,   \* TRUE: a write of job.json may fail
  SystemctlFails \* TRUE: systemctl freeze and thaw may fail

ASSUME DrainAssumption ==
  /\ MaxInbox \in Nat \ {0} /\ Stages \in Nat
  /\ {FreezeWorker, TornReads, WriteErrors, SystemctlFails} \subseteq BOOLEAN

VARIABLES
  flag,     \* the drain file says drain
  gate,     \* is_gate_open
  frozen,   \* FreezerState of the worker unit
  inbox,    \* number of genomes waiting
  pc,       \* the worker's next step
  rec,      \* job.json of its latest job, as another process reads it
  left,     \* stages its job still has
  ghost,    \* a job.json was left in flight, for its last write failed
  waiter,   \* wait_until_idle: next step or result
  saw,      \* history: this wait has seen a job in flight
  steady,   \* history: no cancel since this wait began
  taken,    \* history: genomes claimed since the drain was requested, up to 2
  torn,     \* history: this wait read a half-written job.json last
  orphaned  \* history: a restart after "idle" killed a job

cli == <<waiter, saw, steady, torn>>
job == <<rec, left, ghost>>
drainVars == <<flag, gate, frozen, inbox, pc, job, cli, taken, orphaned>>

\* process_genome is at work on a genome and has not written the job's end.
Busy == {"process", "queue", "claim", "stage", "finish"}

\* Fault: the drain file is never found.
DrainUnread == FALSE

\* is_drain_requested
DrainRequested == flag

-----------------------------------------------------------------------------
(* The worker.  A frozen worker does nothing.                              *)

Step(from, to) == ~frozen /\ pc = from /\ pc' = to

\* Top of the loop; drained, it looks again in 10 s.
Top ==
  /\ Step("top", IF DrainRequested THEN "top" ELSE "gate")
  /\ UNCHANGED <<flag, gate, frozen, inbox, job, cli, taken, orphaned>>

\* wait_for_gate(abort_if_drain=True)
WaitForGate ==
  /\ gate \/ DrainRequested
  /\ Step("gate", "recheck")
  /\ UNCHANGED <<flag, gate, frozen, inbox, job, cli, taken, orphaned>>

RecheckFlag ==
  /\ Step("recheck", IF DrainRequested THEN "top" ELSE "sync")
  /\ UNCHANGED <<flag, gate, frozen, inbox, job, cli, taken, orphaned>>

\* sync_inbox_fifo
SyncInbox ==
  /\ Step("sync", IF inbox = 0 THEN "top" ELSE "last")
  /\ UNCHANGED <<flag, gate, frozen, inbox, job, cli, taken, orphaned>>

\* The last look at the flag, then process_genome.
LastCheck ==
  /\ Step("last", IF DrainRequested THEN "top" ELSE "process")
  /\ UNCHANGED <<flag, gate, frozen, inbox, job, cli, taken, orphaned>>

\* Preflight: the sheep mount or the free space refuses, or the first write of
\* job.json fails; poll_inbox quarantines the genome.
Refuse ==
  /\ \/ Step("process", "top")
     \/ WriteErrors /\ Step("queue", "top")
  /\ inbox' = IF inbox = 0 THEN 0 ELSE inbox - 1
  /\ UNCHANGED <<flag, gate, frozen, job, cli, taken, orphaned>>

\* Preflight: wait_for_gate(cfg), which no drain aborts.
Preflight ==
  /\ gate
  /\ Step("process", "queue")
  /\ rec' = "none"
  /\ UNCHANGED <<flag, gate, frozen, inbox, left, ghost, cli, taken, orphaned>>

\* write_text truncates job.json before it writes.
Truncate ==
  /\ TornReads /\ ~frozen
  /\ pc \in {"queue", "stage", "finish"} /\ rec # "torn"
  /\ rec' = "torn"
  /\ UNCHANGED <<flag, gate, frozen, inbox, pc, left, ghost, cli, taken, orphaned>>

WriteQueued ==
  /\ Step("queue", "claim")
  /\ rec' = "inFlight"
  /\ UNCHANGED <<flag, gate, frozen, inbox, left, ghost, cli, taken, orphaned>>

\* claim_inbox_genome; the name may be gone.
Claim ==
  /\ Step("claim", IF inbox = 0 THEN "finish" ELSE "stage")
  /\ inbox' = IF inbox = 0 THEN 0 ELSE inbox - 1
  /\ left' = Stages
  /\ taken' = IF inbox > 0 /\ taken < 2 THEN taken + 1 ELSE taken
  /\ UNCHANGED <<flag, gate, frozen, rec, ghost, cli, orphaned>>

\* rendering, encoding, gating: each waits for the gate, and may fail.
Stage ==
  /\ gate /\ left > 0 /\ Step("stage", "stage")
  /\ left' = left - 1
  /\ rec' = "inFlight"
  /\ UNCHANGED <<flag, gate, frozen, inbox, ghost, cli, taken, orphaned>>

LastStage ==
  /\ Step("stage", "finish")
  /\ rec' = "inFlight" \/ (WriteErrors /\ UNCHANGED rec)
  /\ UNCHANGED <<flag, gate, frozen, inbox, left, ghost, cli, taken, orphaned>>

\* Fault: the record keeps its state.
FinishUnwritten ==
  /\ Step("finish", "tail")
  /\ UNCHANGED <<flag, gate, frozen, inbox, job, cli, taken, orphaned>>

\* State ingested or failed.
Finish ==
  /\ Step("finish", "tail")
  /\ rec' = "over"
  /\ UNCHANGED <<flag, gate, frozen, inbox, left, ghost, cli, taken, orphaned>>

\* The write of the end fails: the record stays as it was.
FinishFails ==
  /\ WriteErrors /\ Step("finish", "tail")
  /\ ghost' = (ghost \/ rec = "inFlight")
  /\ UNCHANGED <<flag, gate, frozen, inbox, rec, left, cli, taken, orphaned>>

\* Fault: the next genome of the queue follows without a look at the flag.
TailBatch ==
  /\ Step("tail", IF inbox = 0 THEN "top" ELSE "process")
  /\ UNCHANGED <<flag, gate, frozen, inbox, job, cli, taken, orphaned>>

\* After the record's end: the frames go, the genome is archived or quarantined
\* (process_genome, then poll_inbox), and the loop begins again.
Tail ==
  /\ Step("tail", "top")
  /\ UNCHANGED <<flag, gate, frozen, inbox, job, cli, taken, orphaned>>

Worker == Top \/ WaitForGate \/ RecheckFlag \/ SyncInbox \/ LastCheck \/ Refuse
          \/ Preflight \/ WriteQueued \/ Claim \/ Stage \/ LastStage \/ Finish
          \/ FinishFails \/ Tail

-----------------------------------------------------------------------------
(* The drain CLI and its operator.                                         *)

\* request_drain
Request ==
  /\ flag' = TRUE
  /\ taken' = IF flag THEN taken ELSE 0
  /\ UNCHANGED <<gate, frozen, inbox, pc, job, cli, orphaned>>

\* cancel_drain
Cancel ==
  /\ flag' = FALSE /\ steady' = FALSE
  /\ UNCHANGED <<gate, frozen, inbox, pc, job, waiter, saw, torn, taken,
                 orphaned>>

\* wait_until_idle, its one look at the freezer.
BeginWait ==
  /\ waiter \notin {"flag", "jobs"}
  /\ waiter' = IF frozen THEN "frozen" ELSE "flag"
  /\ saw' = FALSE /\ steady' = TRUE /\ torn' = FALSE
  /\ UNCHANGED <<flag, gate, frozen, inbox, pc, job, taken, orphaned>>

\* status_payload reads the flag, then in_flight_jobs.
ReadFlag ==
  /\ waiter = "flag"
  /\ waiter' = IF flag THEN "jobs" ELSE "off"
  /\ UNCHANGED <<flag, gate, frozen, inbox, pc, job, saw, steady, torn,
                 taken, orphaned>>

\* in_flight_jobs skips what list_jobs cannot read.  Draining: look again, or
\* time out.
ReadJobs ==
  /\ waiter = "jobs"
  /\ IF rec = "inFlight" \/ ghost THEN waiter' \in {"flag", "timeout"} /\ saw' = TRUE
                                  ELSE waiter' = "idle" /\ UNCHANGED saw
  /\ torn' = (rec = "torn")
  /\ UNCHANGED <<flag, gate, frozen, inbox, pc, job, steady, taken,
                 orphaned>>

Wait == ReadFlag \/ ReadJobs

\* "Safe restart recipe: request --wait (wait for idle) then restart".
Restart ==
  /\ waiter = "idle" /\ steady
  /\ waiter' = "none"
  /\ pc' = "top" /\ rec' = "over" /\ ghost' = FALSE
  /\ orphaned' = (orphaned \/ pc \in {"queue", "claim", "stage", "finish", "tail"})
  /\ UNCHANGED <<flag, gate, frozen, inbox, left, saw, steady, torn, taken>>

\* The supervisor, and the freezer it drives: one systemctl per change of the
\* gate, for _last_open is set before it runs and a failure is not retried.
Switch ==
  /\ gate' = ~gate
  /\ \/ frozen' = (FreezeWorker /\ gate)
     \/ SystemctlFails /\ UNCHANGED frozen
  /\ UNCHANGED <<flag, inbox, pc, job, cli, taken, orphaned>>

OpenGate == ~gate /\ Switch

Arrive ==
  /\ inbox < MaxInbox
  /\ inbox' = inbox + 1
  /\ UNCHANGED <<flag, gate, frozen, pc, job, cli, taken, orphaned>>

\* shears delete and hammer take waiting genomes away.
Withdraw ==
  /\ inbox > 0
  /\ inbox' = inbox - 1
  /\ UNCHANGED <<flag, gate, frozen, pc, job, cli, taken, orphaned>>

DrainInit ==
  /\ flag = FALSE /\ gate = FALSE /\ frozen = FALSE /\ inbox = 0
  /\ pc = "top" /\ rec = "none" /\ left = 0 /\ ghost = FALSE
  /\ waiter = "none" /\ saw = FALSE /\ steady = FALSE /\ torn = FALSE
  /\ taken = 0 /\ orphaned = FALSE

DrainNext == Worker \/ Truncate \/ Request \/ Cancel \/ BeginWait \/ Wait \/ Restart
             \/ Switch \/ Arrive \/ Withdraw

DrainSpec == DrainInit /\ [][DrainNext]_drainVars

\* The worker looks at the gate at least every 15 s and an open status lasts a
\* poll of 20 s, so it does not miss the gate for ever; the TV is not watched
\* for ever; the CLI keeps polling.
DrainFairSpec ==
  /\ DrainSpec
  /\ SF_drainVars(Worker) /\ WF_drainVars(Wait) /\ WF_drainVars(OpenGate)

-----------------------------------------------------------------------------
(* Properties.                                                             *)

DrainTypeOK ==
  /\ flag \in BOOLEAN /\ gate \in BOOLEAN /\ frozen \in BOOLEAN
  /\ inbox \in 0..MaxInbox
  /\ pc \in {"top", "gate", "recheck", "sync", "last", "tail"} \cup Busy
  /\ rec \in {"none", "torn", "inFlight", "over"}
  /\ left \in 0..Stages /\ ghost \in BOOLEAN
  /\ waiter \in {"none", "flag", "jobs", "idle", "off", "timeout", "frozen"}
  /\ saw \in BOOLEAN /\ steady \in BOOLEAN
  /\ torn \in BOOLEAN /\ orphaned \in BOOLEAN
  /\ taken \in 0..2

\* "Finish the in-flight inbox job, then stop claiming": wherever the request
\* finds the worker, it claims at most one more genome before the cancel.
AtMostOneMore == flag => taken <= 1

\* A wait that saw the job it waited for reports "idle" only when the worker has
\* written that job's end and takes no other genome until the drain is cancelled,
\* unless its last read fell into a rewrite of job.json ("request --wait blocks
\* until no in-flight job.json", docs/phase4/00_OVERVIEW.md).  The worker may
\* still archive or quarantine the genome of the job.
IdleAfterDrainingIsSafe ==
  waiter = "idle" /\ saw /\ steady => pc \notin Busy \/ torn

\* The gate is open and the worker frozen: its thaw failed.
Stuck == frozen /\ gate

\* If thaws do not keep failing: a wait ends, through closed gates, freezes and a
\* job that runs on, unless someone cancels the drain under it or a job.json could
\* not be ended ("Block until phase is idle"); and after a cancel the running
\* worker claims again, without a restart ("Clear the flag so the running worker
\* resumes claiming").
NothingHangs ==
  \/ []<>Stuck
  \/ /\ waiter \in {"flag", "jobs"} ~>
          waiter \in {"idle", "off", "timeout"} \/ ~steady \/ ghost
     /\ ~flag /\ inbox > 0 ~> flag \/ inbox = 0 \/ pc \in Busy

\* docs/USER_GUIDE_AND_RUNBOOK.md: phase "idle (safe to restart or leave
\* quiet)": a restart after it kills no job.
IdleIsSafeToRestart == ~orphaned
=============================================================================
