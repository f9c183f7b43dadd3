------------------------------ MODULE Furnace ------------------------------
(***************************************************************************)
(* One genome's way through the furnace worker, one file operation at a     *)
(* time (pipeline/worker.py), and what startup recovery makes of the files  *)
(* a dead worker left behind (pipeline/job_recovery.py).                    *)
(*                                                                         *)
(* A genome is a file content; BaseOf gives the catalog id in its name, so  *)
(* two genomes with one base are a sheep and its re-furnace.  A job is a    *)
(* directory under jobs_dir with job.json, the claimed genome and           *)
(* tv_optimized.flam3, and a frames directory.  A step of the worker is one *)
(* write, rename, copy or unlink, or one external tool; the process may die *)
(* between any two of them, or inside a write of job.json.                  *)
(***************************************************************************)
EXTENDS Integers, FiniteSets

CONSTANTS
  Genomes, Bases, Jobs,
  BaseOf,        \* [Genomes -> Bases]
  None,
  Torn,          \* an MP4 that is only partly copied
  MaxCrashes,    \* bound on worker crashes in a run
  CrossDevice,   \* TRUE: inbox, jobs and media are on different file systems
  Restage,       \* TRUE: a name may be staged again while its job runs
  DiskErrors,    \* TRUE: a write, copy, rename or unlink of the worker may fail
  RecoveryCli    \* TRUE: the job_recovery CLI may run beside the worker

ASSUME FurnaceAssumption ==
  /\ BaseOf \in [Genomes -> Bases]
  /\ None \notin Genomes \cup Bases \cup Jobs
  /\ Torn \notin Genomes \cup {None}
  /\ MaxCrashes \in Nat
  /\ {CrossDevice, Restage, DiskErrors, RecoveryCli} \subseteq BOOLEAN

VARIABLES
  inbox,      \* base -> genome waiting under that name, or None
  rec,        \* job -> state in job.json; "none" before it is written, "torn"
  src,        \* job -> where job.json's src points: "inbox" or the "job" dir
  base,       \* job -> base in job.json's src
  file,       \* job -> genome file in the job directory
  tv,         \* job -> genome tv_optimized.flam3 was made from
  frames,     \* job -> does its frames directory exist
  catalog,    \* base -> genome of the catalog MP4, Torn or None
  prev,       \* base -> genome of the rotated *.mp4.prev
  sidecar,    \* base -> genome the catalog sidecar describes
  done,       \* genomes in genomes_done
  quar,       \* genomes in genomes_quarantine
  pc,         \* next step of the worker
  pick,       \* base poll_inbox took from the head of the queue
  job,        \* the worker's current job
  at,         \* where the worker's own src points, "inbox" or the "job" dir
  rstep, rjob, rby, rcat,  \* the recovery in progress: step, job, by whom,
              \* and whether reclaim_job found a catalog MP4
  landed,     \* history: genomes that ever landed in the inbox
  replaced,   \* history: waiting genomes a forced re-stage overwrote
  tried,      \* history: genomes the worker itself took up
  rendered,   \* history: genomes whose MP4 reached the catalog
  usurped,    \* history: jobs recovery took from a worker that still ran them
  unwritten,  \* history: jobs with a write of job.json that failed
  crashes     \* worker crashes so far

jobVars == <<rec, src, base, file, tv, frames>>
catVars == <<catalog, prev, sidecar>>
recVars == <<rstep, rjob, rby, rcat>>
workVars == <<pick, job, at>>
history == <<landed, replaced, tried, rendered, usurped, unwritten, crashes>>
vars == <<inbox, jobVars, catVars, done, quar, pc, workVars, recVars, history>>

InFlight == {"queued", "rendering", "encoding", "gating"}
Terminal == {"ingested", "failed", "orphaned", "superseded"}

InFlightJobs == {j \in Jobs : rec[j] \in InFlight}

\* The worker has a base or a job record in hand, or recovery will.
Busy(b) == pick = b \/ \E j \in InFlightJobs : base[j] = b

Goto(from, to) == pc = from /\ pc' = to

\* The worker goes back to its loop, or dies.
FreeHands == pick' = None /\ job' = None /\ at' = "inbox"

MaybeGenome == Genomes \cup {None}

-----------------------------------------------------------------------------
(* Staging.                                                                *)

\* stage_file: skip when the name waits already, unless forced (shears modify,
\* refactor apply), which overwrites the waiting genome.
Land(g) ==
  LET b == BaseOf[g] IN
  /\ g \notin landed
  /\ Restage \/ ~Busy(b)
  /\ inbox' = [inbox EXCEPT ![b] = g]
  /\ landed' = landed \cup {g}
  /\ replaced' = IF inbox[b] = None THEN replaced ELSE replaced \cup {inbox[b]}
  /\ UNCHANGED <<jobVars, catVars, done, quar, pc, workVars, recVars,
                 tried, rendered, usurped, unwritten, crashes>>

-----------------------------------------------------------------------------
(* poll_inbox and process_genome up to the claim.                           *)

Pick ==
  /\ Goto("poll", "preflight")
  /\ \E b \in Bases : inbox[b] # None /\ pick' = b
  /\ tried' = tried \cup {inbox[pick']}
  /\ UNCHANGED <<inbox, jobVars, catVars, done, quar, job, at, recVars,
                 landed, replaced, rendered, usurped, unwritten, crashes>>

\* Fault: the genome stays at the head and is tried again.
PreflightRetry ==
  /\ Goto("preflight", "poll")
  /\ pick' = None
  /\ UNCHANGED <<inbox, jobVars, catVars, done, quar, job, at, recVars, history>>

\* Free space below the minimum, or the sheep mount is BAD: RuntimeError before
\* there is a job.
PreflightFail ==
  /\ Goto("preflight", "postFail")
  /\ UNCHANGED <<inbox, jobVars, catVars, done, quar, workVars, recVars, history>>

\* A job's id is random and tells nothing: the model draws them in one order.
NextId == CHOOSE j \in Jobs : rec[j] = "none" /\ base[j] = None

\* wait_for_gate, then the job and frames directories of a new id.
MakeJob ==
  /\ Goto("preflight", "wQueued")
  /\ \E j \in Jobs :
       /\ rec[j] = "none" /\ base[j] = None /\ j = NextId
       /\ job' = j /\ at' = "inbox"
       /\ base' = [base EXCEPT ![j] = pick]
       /\ frames' = [frames EXCEPT ![j] = TRUE]
  /\ UNCHANGED <<inbox, rec, src, file, tv, catVars, done, quar, pick, recVars,
                 history>>

\* _write_job_state with the given state and the worker's src.  write_text
\* empties the file before it writes: a write that fails leaves the old record
\* or a torn one, and raises.
WriteJob(st) ==
  /\ rec' = [rec EXCEPT ![job] = st]
  /\ src' = [src EXCEPT ![job] = at]
  /\ UNCHANGED unwritten

WriteJobFails ==
  /\ DiskErrors
  /\ rec' \in {rec, [rec EXCEPT ![job] = "torn"]}
  /\ unwritten' = unwritten \cup {job}
  /\ UNCHANGED src

WriteState(from, to, st, error) ==
  /\ \/ Goto(from, to) /\ WriteJob(st)
     \/ Goto(from, error) /\ WriteJobFails
  /\ UNCHANGED <<inbox, base, file, tv, frames, catVars, done, quar, workVars,
                 recVars, landed, replaced, tried, rendered, usurped, crashes>>

\* Not yet in the try block: poll_inbox's handler is next.
WriteQueued == WriteState("wQueued", "claim", "queued", "postFail")

\* claim_inbox_genome: os.replace, or copy and later unlink across devices.
Claim ==
  /\ pc = "claim" /\ inbox[pick] # None
  /\ file' = [file EXCEPT ![job] = inbox[pick]]
  /\ tried' = tried \cup {inbox[pick]}
  /\ IF CrossDevice
     THEN pc' = "claimUnlink" /\ UNCHANGED <<inbox, at>>
     ELSE pc' = "wClaimed" /\ at' = "job" /\ inbox' = [inbox EXCEPT ![pick] = None]
  /\ UNCHANGED <<rec, src, base, tv, frames, catVars, done, quar, pick, job,
                 recVars, landed, replaced, rendered, usurped, unwritten, crashes>>

ClaimUnlink ==
  /\ Goto("claimUnlink", "wClaimed")
  /\ inbox' = [inbox EXCEPT ![pick] = None]
  /\ at' = "job"
  /\ UNCHANGED <<jobVars, catVars, done, quar, pick, job, recVars, history>>

\* The file is gone, or the rename, copy or unlink fails.
ClaimFail ==
  /\ pc \in {"claim", "claimUnlink"} /\ Goto(pc, "wFailed")
  /\ DiskErrors \/ (pc = "claim" /\ inbox[pick] = None)
  /\ UNCHANGED <<inbox, jobVars, catVars, done, quar, workVars, recVars, history>>

\* job.json again, now with the claimed path as src.
WriteClaimed == WriteState("wClaimed", "tax", "queued", "wFailed")

-----------------------------------------------------------------------------
(* Tax, TV-port, quality gates, render and encode.                          *)

\* A stage that only computes: it goes on, or raises.
Stage(from, to) ==
  /\ pc = from /\ pc' \in {to, "wFailed"}
  /\ UNCHANGED <<inbox, jobVars, catVars, done, quar, workVars, recVars,
                 history>>

\* Sheep tax: a genome it rejects is quarantined at once.
Tax ==
  /\ pc = "tax" /\ pc' \in {"optimize", "taxQuar", "wFailed"}
  /\ UNCHANGED <<inbox, jobVars, catVars, done, quar, workVars, recVars,
                 history>>

Optimize ==
  /\ Goto("optimize", "assess")
  /\ tv' = [tv EXCEPT ![job] = file[job]]
  /\ UNCHANGED <<inbox, rec, src, base, file, frames, catVars, done, quar, workVars,
                 recVars, history>>

OptimizeFail == Stage("optimize", "wFailed")

\* Genome and preview gates: record_quality_check writes job.json before a
\* decision can reject the job.
Judge(from, to, st) ==
  \/ WriteState(from, to, st, "wFailed")
  \/ WriteState(from, "wFailed", st, "wFailed")

Assess == Judge("assess", "wRendering", "queued")

WriteRendering == WriteState("wRendering", "sequence", "rendering", "wFailed")

\* flam3-genome, or one still for an orbit that is frozen; the gate.
Sequence == Stage("sequence", "animate") \/ Stage("sequence", "wEncoding")

Animate == Stage("animate", "wEncoding")

WriteEncoding == WriteState("wEncoding", "collect", "encoding", "wFailed")

\* The gate; then "no frames produced" when the directory is gone, or the still
\* is looped.
Collect ==
  \/ Stage("collect", "ffmpeg") /\ (frames[job] \/ pc' = "wFailed")
  \/ Stage("collect", "wGating")

Encode == Stage("ffmpeg", "wGating")

WriteGating == WriteState("wGating", "gate", "gating", "wFailed")

\* ffprobe, duration band, output saturation.
Gate == Judge("gate", "rotate", "gating")

-----------------------------------------------------------------------------
(* install_catalog_mp4, sidecar, ingest and archive.                        *)

\* A previous MP4 is moved aside: first the older .prev goes, then the rename.
RotateDropPrev ==
  /\ Goto("rotate", "rotateMove")
  /\ catalog[base[job]] # None
  /\ prev' = [prev EXCEPT ![base[job]] = None]
  /\ UNCHANGED <<inbox, jobVars, catalog, sidecar, done, quar, workVars,
                 recVars, history>>

\* Fault: the old MP4 is removed instead of renamed.
RotateDelete ==
  /\ Goto("rotateMove", "install")
  /\ catalog' = [catalog EXCEPT ![base[job]] = None]
  /\ UNCHANGED <<inbox, jobVars, prev, sidecar, done, quar, workVars, recVars,
                 history>>

RotateMove ==
  /\ Goto("rotateMove", "install")
  /\ prev' = [prev EXCEPT ![base[job]] = catalog[base[job]]]
  /\ catalog' = [catalog EXCEPT ![base[job]] = None]
  /\ UNCHANGED <<inbox, jobVars, sidecar, done, quar, workVars, recVars,
                 history>>

RotateNothing ==
  /\ Goto("rotate", "install")
  /\ catalog[base[job]] = None
  /\ UNCHANGED <<inbox, jobVars, catVars, done, quar, workVars, recVars,
                 history>>

\* shutil.move of the encode: a rename, or a copy that is torn until complete.
Install ==
  /\ pc = "install"
  /\ IF CrossDevice /\ catalog[base[job]] # Torn
     THEN /\ Goto("install", "install")
          /\ catalog' = [catalog EXCEPT ![base[job]] = Torn]
          /\ UNCHANGED rendered
     ELSE /\ Goto("install", "wSidecar")
          /\ catalog' = [catalog EXCEPT ![base[job]] = file[job]]
          /\ rendered' = rendered \cup {file[job]}
  /\ UNCHANGED <<inbox, jobVars, prev, sidecar, done, quar, workVars, recVars,
                 landed, replaced, tried, usurped, unwritten, crashes>>

\* Fault: a failed rotation or install is only logged.
PublishFailIgnored ==
  /\ DiskErrors
  /\ pc \in {"rotateMove", "install"} /\ Goto(pc, "wSidecar")
  /\ UNCHANGED <<inbox, jobVars, catVars, done, quar, workVars, recVars,
                 history>>

\* The unlink, the rename, the copy, the sidecar or the archive fails.
PublishFail ==
  /\ DiskErrors
  /\ pc \in {"rotate", "rotateMove", "install", "wSidecar", "archive"}
  /\ Goto(pc, "wFailed")
  /\ UNCHANGED <<inbox, jobVars, catVars, done, quar, workVars, recVars,
                 history>>

\* Fault: a sidecar that exists is kept.
KeepSidecar ==
  /\ Goto("wSidecar", "wIngested")
  /\ sidecar' = [sidecar EXCEPT ![base[job]] = IF @ = None THEN file[job] ELSE @]
  /\ UNCHANGED <<inbox, jobVars, catalog, prev, done, quar, workVars, recVars,
                 history>>

\* Merge what the old sidecar reserves and write the new one.
WriteSidecar ==
  /\ Goto("wSidecar", "wIngested")
  /\ sidecar' = [sidecar EXCEPT ![base[job]] = file[job]]
  /\ UNCHANGED <<inbox, jobVars, catalog, prev, done, quar, workVars, recVars,
                 history>>

\* Fault: the record keeps its state.
IngestedUnwritten == WriteState("wIngested", "dropFrames", rec[job], "wFailed")

WriteIngested == WriteState("wIngested", "dropFrames", "ingested", "wFailed")

DropFrames(from, to) ==
  /\ Goto(from, to)
  /\ frames' = [frames EXCEPT ![job] = FALSE]
  /\ UNCHANGED <<inbox, rec, src, base, file, tv, catVars, done, quar, workVars,
                 recVars, history>>

\* Fault: a genome of the same name in genomes_done is overwritten.
ArchiveOver ==
  /\ Goto("archive", "leftover")
  /\ done' = {g \in done : BaseOf[g] # base[job]} \cup ({file[job]} \ {None})
  /\ file' = [file EXCEPT ![job] = None]
  /\ UNCHANGED <<inbox, rec, src, base, tv, frames, catVars, quar, workVars,
                 recVars, history>>

\* archive_rendered_genome on the claimed file.
Archive ==
  /\ Goto("archive", "leftover")
  /\ done' = done \cup ({file[job]} \ {None})
  /\ file' = [file EXCEPT ![job] = None]
  /\ UNCHANGED <<inbox, rec, src, base, tv, frames, catVars, quar, workVars,
                 recVars, history>>

\* Back in poll_inbox, whose src is still the INBOX path: if a file has that
\* name it is archived too.
Leftover ==
  /\ Goto("leftover", "poll")
  /\ done' = done \cup ({inbox[pick]} \ {None})
  /\ inbox' = [inbox EXCEPT ![pick] = None]
  /\ FreeHands
  /\ UNCHANGED <<jobVars, catVars, quar, recVars, history>>

-----------------------------------------------------------------------------
(* The failure path.                                                       *)

\* The claim succeeded; the handler's src is the claimed genome.
Claimed == at = "job"

\* The file the handler's src names.
Held == IF Claimed THEN file[job] ELSE inbox[pick]

\* Fault: the record keeps its state.
FailedUnwritten == WriteState("wFailed", "failQuar", rec[job], "postFail")

\* The except block writes state "failed" before it quarantines.  When that write
\* fails too, nothing is quarantined, and the worker goes on with the next genome.
WriteFailed == WriteState("wFailed", "failQuar", "failed", "postFail")

\* Fault: a failed copy is only logged.
QuarantineCopyIgnored(g, from, copied, error) ==
  /\ Goto(from, copied)
  /\ quar' = quar \cup {g} \/ (DiskErrors /\ UNCHANGED quar)
  /\ UNCHANGED <<inbox, jobVars, catVars, done, recVars, history>>

\* quarantine_genome, first half: copy g, or RuntimeError.
QuarantineCopy(g, from, copied, error) ==
  /\ \/ Goto(from, copied) /\ quar' = quar \cup {g}
     \/ DiskErrors /\ Goto(from, error) /\ UNCHANGED quar
  /\ UNCHANGED <<inbox, jobVars, catVars, done, recVars, history>>

TaxQuarantine ==
  /\ QuarantineCopy(file[job], "taxQuar", "taxUnlink", "wFailed")
  /\ UNCHANGED workVars

\* The claimed genome is removed from the job, an unclaimed one stays.
FailQuarantine ==
  /\ pc = "failQuar" /\ Held # None
  /\ QuarantineCopy(Held, "failQuar",
                    IF Claimed THEN "failUnlink" ELSE "failFrames",
                    "wQuarError")
  /\ UNCHANGED workVars

FailNothing ==
  /\ Goto("failQuar", "failFrames")
  /\ Held = None
  /\ UNCHANGED <<inbox, jobVars, catVars, done, quar, workVars, recVars,
                 history>>

\* Second half, remove_src on the claimed genome.
UnlinkClaimed(from, to, error) ==
  /\ \/ Goto(from, to) /\ file' = [file EXCEPT ![job] = None]
     \/ DiskErrors /\ Goto(from, error) /\ UNCHANGED file
  /\ UNCHANGED <<inbox, rec, src, base, tv, frames, catVars, done, quar, workVars,
                 recVars, history>>

\* job.json once more, with the error of the quarantine.
WriteQuarError == WriteState("wQuarError", "failFrames", "failed", "postFail")

\* poll_inbox's handler: whatever has the INBOX path now is quarantined.
PostQuarantine ==
  /\ pc = "postFail" /\ inbox[pick] # None
  /\ QuarantineCopy(inbox[pick], "postFail", "postUnlink", "poll")
  /\ IF pc' = "poll" THEN FreeHands ELSE UNCHANGED workVars

PostUnlink ==
  /\ Goto("postUnlink", "poll")
  /\ \/ inbox' = [inbox EXCEPT ![pick] = None]
     \/ DiskErrors /\ UNCHANGED inbox
  /\ FreeHands
  /\ UNCHANGED <<jobVars, catVars, done, quar, recVars, history>>

PostNothing ==
  /\ Goto("postFail", "poll")
  /\ inbox[pick] = None
  /\ FreeHands
  /\ UNCHANGED <<inbox, jobVars, catVars, done, quar, recVars, history>>

-----------------------------------------------------------------------------
(* Crash, restart and job_recovery.                                        *)

WriteSteps == {"wQueued", "wClaimed", "assess", "wRendering", "wEncoding",
               "wGating", "gate", "wIngested", "wFailed", "wQuarError"}

\* The worker process dies.  job.json is rewritten in place, so a record being
\* written may be left torn.  systemd starts the worker again.
Crash ==
  /\ crashes < MaxCrashes
  /\ pc # "start" \/ (rstep # "idle" /\ rby = "worker")
  /\ crashes' = crashes + 1
  /\ pc' = "start" /\ FreeHands
  /\ \/ UNCHANGED rec
     \/ pc \in WriteSteps /\ rec' = [rec EXCEPT ![job] = "torn"]
     \/ pc = "start" /\ rstep = "write" /\ rec' = [rec EXCEPT ![rjob] = "torn"]
  /\ IF rby = "worker" THEN rstep' = "idle" /\ rjob' = None
     ELSE UNCHANGED <<rstep, rjob>>
  /\ UNCHANGED <<inbox, src, base, file, tv, frames, catVars, done, quar, rby,
                 rcat, landed, replaced, tried, rendered, usurped, unwritten>>

\* live_job_ids_from_proc finds a job only through a child process with its
\* frames directory in the environment or the command line.
LiveInProc(j) == job = j /\ pc \in {"animate", "ffmpeg"}

\* reclaim_orphans takes the next in-flight record it finds no child for;
\* reclaim_job looks for a catalog MP4 and removes the frames.
ReclaimBegin(by) ==
  /\ rstep = "idle"
  /\ IF by = "worker" THEN pc = "start" ELSE RecoveryCli /\ pc # "start"
  /\ \E j \in InFlightJobs :
       /\ ~LiveInProc(j)
       /\ rjob' = j
       /\ rcat' = (catalog[base[j]] # None)
       /\ frames' = [frames EXCEPT ![j] = FALSE]
       /\ usurped' = IF j = job THEN usurped \cup {j} ELSE usurped
  /\ rstep' = "stage" /\ rby' = by
  /\ UNCHANGED <<inbox, rec, src, base, file, tv, catVars, done, quar, pc,
                 workVars, landed, replaced, tried, rendered, unwritten, crashes>>

\* Fault: a job with a TV copy is not looked at.
RequeueUnclaimed(j) == src[j] = "inbox" \/ file[j] = None

\* reclaim_job's should_requeue: from the inbox, or its src is gone, or there
\* is a tv_optimized.flam3.
ShouldRequeue(j) == src[j] = "inbox" \/ file[j] = None \/ tv[j] # None

\* _ensure_inbox: the first candidate, the claimed genome before the TV copy.
Candidate(j) == IF src[j] = "job" /\ file[j] # None THEN file[j] ELSE tv[j]

\* Copy the genome back unless the catalog has the id or the name waits.
ReclaimStage ==
  /\ rstep = "stage"
  /\ rstep' = "write"
  /\ IF ~rcat /\ ShouldRequeue(rjob) /\ inbox[base[rjob]] = None
     THEN inbox' = [inbox EXCEPT ![base[rjob]] = Candidate(rjob)]
     ELSE UNCHANGED inbox
  /\ UNCHANGED <<jobVars, catVars, done, quar, pc, workVars, rjob, rby, rcat,
                 history>>

ReclaimWrite ==
  /\ rstep = "write"
  /\ rec' = [rec EXCEPT ![rjob] = IF rcat THEN "superseded" ELSE "orphaned"]
  /\ rstep' = "idle" /\ rjob' = None
  /\ UNCHANGED <<inbox, src, base, file, tv, frames, catVars, done, quar, pc,
                 workVars, rby, rcat, history>>

\* No in-flight record is left: the worker starts to watch the inbox.
Ready ==
  /\ rstep = "idle" /\ InFlightJobs = {}
  /\ Goto("start", "poll")
  /\ UNCHANGED <<inbox, jobVars, catVars, done, quar, workVars, recVars,
                 history>>

-----------------------------------------------------------------------------
Init ==
  /\ inbox = [b \in Bases |-> None]
  /\ rec = [j \in Jobs |-> "none"] /\ src = [j \in Jobs |-> "inbox"]
  /\ base = [j \in Jobs |-> None] /\ file = [j \in Jobs |-> None]
  /\ tv = [j \in Jobs |-> None] /\ frames = [j \in Jobs |-> FALSE]
  /\ catalog = [b \in Bases |-> None] /\ prev = [b \in Bases |-> None]
  /\ sidecar = [b \in Bases |-> None]
  /\ done = {} /\ quar = {}
  /\ pc = "start" /\ pick = None /\ job = None /\ at = "inbox"
  /\ rstep = "idle" /\ rjob = None /\ rby = "worker" /\ rcat = FALSE
  /\ landed = {} /\ replaced = {} /\ tried = {} /\ rendered = {}
  /\ usurped = {} /\ unwritten = {} /\ crashes = 0

Begin == Pick \/ PreflightFail \/ MakeJob \/ WriteQueued
         \/ Claim \/ ClaimUnlink \/ ClaimFail \/ WriteClaimed

Produce == Tax \/ Optimize \/ OptimizeFail \/ Assess \/ WriteRendering
           \/ Sequence \/ Animate \/ WriteEncoding \/ Collect \/ Encode
           \/ WriteGating \/ Gate

Publish == RotateDropPrev \/ RotateMove \/ RotateNothing \/ Install
           \/ PublishFail \/ WriteSidecar \/ WriteIngested
           \/ DropFrames("dropFrames", "archive") \/ Archive \/ Leftover

Fail == WriteFailed \/ TaxQuarantine
        \/ UnlinkClaimed("taxUnlink", "wFailed", "wFailed")
        \/ FailQuarantine \/ FailNothing
        \/ UnlinkClaimed("failUnlink", "failFrames", "wQuarError")
        \/ WriteQuarError
        \/ DropFrames("failFrames", "postFail") \/ PostQuarantine \/ PostUnlink
        \/ PostNothing

Worker == Begin \/ Produce \/ Publish \/ Fail \/ Ready

Recover == ReclaimBegin("worker") \/ ReclaimStage \/ ReclaimWrite

Next == Worker \/ Recover \/ ReclaimBegin("cli") \/ Crash
        \/ \E g \in Genomes : Land(g)

Spec == Init /\ [][Next]_vars

\* The worker loop, systemd's restart and a started recovery go on; the gate
\* opens again.  Nothing else is owed.
FairSpec == Spec /\ WF_vars(Worker \/ Recover)

-----------------------------------------------------------------------------
(* Properties.                                                             *)

TypeOK ==
  /\ inbox \in [Bases -> MaybeGenome]
  /\ rec \in [Jobs -> {"none", "torn"} \cup InFlight \cup Terminal]
  /\ src \in [Jobs -> {"inbox", "job"}]
  /\ base \in [Jobs -> Bases \cup {None}]
  /\ file \in [Jobs -> MaybeGenome]
  /\ tv \in [Jobs -> MaybeGenome]
  /\ frames \in [Jobs -> BOOLEAN]
  /\ catalog \in [Bases -> MaybeGenome \cup {Torn}]
  /\ prev \in [Bases -> MaybeGenome \cup {Torn}]
  /\ sidecar \in [Bases -> MaybeGenome]
  /\ done \subseteq Genomes /\ quar \subseteq Genomes
  /\ pick \in Bases \cup {None} /\ job \in Jobs \cup {None}
  /\ at \in {"inbox", "job"}
  /\ rstep \in {"idle", "stage", "write"} /\ rjob \in Jobs \cup {None}
  /\ rby \in {"worker", "cli"} /\ rcat \in BOOLEAN
  /\ landed \subseteq Genomes /\ replaced \subseteq Genomes
  /\ tried \subseteq Genomes /\ rendered \subseteq Genomes
  /\ usurped \subseteq Jobs /\ unwritten \subseteq Jobs /\ crashes \in 0..MaxCrashes

\* The worker is between two genomes and nothing is being recovered.
AtRest == pc = "poll" /\ rstep = "idle"

Waits(g) == \E b \in Bases : inbox[b] = g

InJobDir(g) == \E j \in Jobs : file[j] = g

\* Where the operator and the docs look for a genome.
Settled(g) == Waits(g) \/ g \in done \/ g \in quar

\* No step of the pipeline, and no crash between two steps, erases the last
\* copy of a genome that landed; only a forced re-stage over a waiting file
\* does (claim, quarantine_genome, archive_rendered_genome, _ensure_inbox).
NoGenomeErased ==
  \A g \in landed \ replaced : Settled(g) \/ InJobDir(g)

\* A genome that is at rest only in a job directory, where no later step of the
\* pipeline looks for it.
Stranded(g) == g \in landed \ replaced /\ ~Settled(g)

\* Why recovery left the genome of job j where it was: the record is torn or
\* terminal, or superseded by an MP4 of that id, or the claim was never
\* recorded, or the crash came before the TV copy existed; or why the worker
\* did: a write of the record failed, and with it the rest of its failure path.
LeftBehind(j) ==
  \/ rec[j] \in {"torn", "failed", "ingested", "superseded"}
  \/ j \in unwritten /\ rec[j] \in InFlight
  \/ rec[j] = "orphaned" /\ (src[j] = "inbox" \/ tv[j] = None)

\* Crash recovery is complete but for these cases: at rest every genome that
\* landed waits, is done or is in quarantine, or sits in a job for one of the
\* reasons above after a crash or a disk error (reclaim_job, process_genome).
StrandedOnlyIfLeftBehind ==
  AtRest => \A g \in Genomes :
    Stranded(g) => /\ \E j \in Jobs : file[j] = g /\ LeftBehind(j)
                   /\ crashes > 0 \/ DiskErrors

\* At rest a job record is in flight only if a write of it failed: recovery
\* turned every one of a dead worker into a terminal state and every other
\* failure path ended in one, so a drain waits only for live work and for
\* records no write could end (IN_FLIGHT, reclaim_orphans, process_genome).
NoGhostJob == AtRest => InFlightJobs \subseteq unwritten

\* Once an id was in the catalog there is a complete MP4 of it, as catalog file
\* or as .prev, through every re-furnace, failure and crash: "one prior
\* generation is kept so a bad encode does not silently erase the flock copy"
\* (install_catalog_mp4).
FlockCopySurvives ==
  \A g \in rendered : \/ catalog[BaseOf[g]] \in Genomes
                      \/ prev[BaseOf[g]] \in Genomes

\* At rest the sidecar describes the MP4 beside it, unless a crash between the
\* two left a job that recovery called superseded, or could not read, or an
\* error there put the genome of the new MP4 into quarantine or, when the
\* record could not be written either, left it in the job.
SidecarMatchesMp4 ==
  AtRest => \A b \in Bases :
    catalog[b] \in Genomes /\ sidecar[b] # catalog[b]
      => \E j \in Jobs : /\ base[j] = b
                         /\ \/ rec[j] \in {"superseded", "torn", "failed"}
                            \/ rec[j] \in InFlight /\ j \in unwritten
                         /\ file[j] = catalog[b] \/ catalog[b] \in quar

\* genomes_done holds only genomes whose own MP4 reached the catalog ("Move a
\* successfully rendered inbox genome to genomes_done").
DoneWasRendered == done \subseteq rendered

\* Only a genome the worker itself took up is quarantined ("If claim never ran,
\* best-effort quarantine any leftover inbox file").
QuarantinedWasTried == quar \subseteq tried

\* Every genome that lands is settled in the end: rendered, quarantined,
\* overwritten by its curator, or left behind by a crash.
EveryGenomeSettles ==
  \A g \in Genomes :
    g \in landed ~> \/ g \in done \cup quar \cup replaced
                    \/ AtRest /\ Stranded(g)

\* docs/glossary.md: job_recovery "reclaims crashed mid-render jobs [...],
\* re-queues inbox genomes when needed": the genome of an orphaned job waits
\* again, or is settled.
OrphanedIsRequeued ==
  AtRest => \A j \in Jobs : rec[j] = "orphaned" /\ file[j] # None
                              => ~Stranded(file[j])

\* docs/phase1/05: "Any rejection or later failure [...] copies the claimed
\* genome to paths.genomes_quarantine".
FailedIsQuarantined ==
  AtRest => \A j \in Jobs : rec[j] = "failed" /\ file[j] # None
                              => ~Stranded(file[j])

\* worker.py: "Successful genomes archive to genomes_done".
IngestedIsArchived ==
  AtRest => \A j \in Jobs : rec[j] = "ingested" /\ file[j] # None
                              => ~Stranded(file[j])

\* job_recovery.py: "mark orphaned/superseded, re-queue when still needed": a
\* job is superseded only when its own genome reached the catalog.
SupersededWasRendered ==
  AtRest => \A j \in Jobs : rec[j] = "superseded" /\ file[j] # None
                              => file[j] \in rendered

\* is_orphan: "True for in-flight jobs with no live owner".
ReclaimsOnlyOwnerless == usurped = {}
=============================================================================
