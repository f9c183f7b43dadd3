------------------------------- MODULE Curate -------------------------------
(***************************************************************************)
(* The commands that take sheep away, beside the worker that publishes      *)
(* them.  Shears deletes and sweeps (pipeline/shears.py), refactor          *)
(* quarantines, applies and batches (pipeline/refactor_actions.py), Hammer  *)
(* wipes whole tiers (pipeline/hammer.py), and a nightly rotation retires   *)
(* the oldest sheep of a full library (pipeline/library_rotate.py).  Each   *)
(* looks first and removes later, file by file, and none takes a lock the   *)
(* worker honours.                                                          *)
(*                                                                         *)
(* A pool holds a sheep's genome under the name the sheep gives it; the     *)
(* worker adds a uuid to the name when the name is taken.  The sidecar      *)
(* stands for the poster and the stills too.                                *)
(***************************************************************************)
EXTENDS Naturals, FiniteSets, SequencesExt

CONSTANTS
  Sheep,       \* sheep ids
  None,        \* no sheep
  Grade,       \* verdict of score_sheep on the genome of each sheep
  Tracked,     \* sheep with a genome in git
  From, To,    \* the sheep a tuple leads from and to, or None
  Ages,        \* the orders of mtime the published flock may have
  Floor,       \* rotate_floor
  Budget,      \* rotate_max_per_run
  Commands,    \* the operator's commands that may run
  MaxCommands, \* bound on them
  MaxRotations,\* bound on rotations
  MaxLandings  \* bound on genomes that arrive

ASSUME CurateAssumption ==
  /\ None \notin Sheep /\ Tracked \subseteq Sheep /\ IsFiniteSet(Sheep)
  /\ Grade \in [Sheep -> {"ok", "candidate", "quarantine"}]
  /\ {From, To} \subseteq [Sheep -> Sheep \cup {None}]
  /\ Ages \subseteq SetToSeqs(Sheep)
  /\ {Floor, Budget} \subseteq Nat \ {0}
  /\ {MaxCommands, MaxRotations, MaxLandings} \subseteq Nat

VARIABLES
  at,      \* the pools that hold each sheep's genome
  spare,   \* the pools that hold one under a name with a uuid
  flock,   \* sheep with an MP4 in the catalog, oldest mtime first
  side,    \* sheep with a sidecar in the catalog
  prev,    \* sheep with an .mp4.prev
  parked,  \* sheep with an MP4 under _refactor-quarantine
  wk,      \* next step of the worker
  cur,     \* the sheep it works on
  job,     \* its job directory, with the claimed genome in it, exists
  pc,      \* next step of each process
  kind,    \* the operator's command
  todo,    \* sheep it has still to take
  aim,     \* the sheep each process has in hand
  list,    \* the files of it that each process is still to remove
  kin,     \* and those of the tuples that name it
  cands,   \* the rotation's candidates
  planned, \* how many of them it has taken
  ran,     \* bound: commands, rotations and landings so far
  crossed, \* history: sheep that something else touched during a command
  thin,    \* history: another process took an MP4 during this rotation
  along,   \* history: MP4s of tuples that went with a parent during this rotation
  gone     \* history: sheep deleted, and neither in work nor landed meanwhile

flockVars   == <<flock, side, prev, parked>>
worker      == <<wk, cur, job>>
rotation    == <<cands, planned>>
cascade     == <<pc, aim, list, kin>>
history     == <<crossed, thin, along, gone>>
vars == <<at, spare, flockVars, worker, cascade, kind, todo, rotation, ran, history>>

Procs    == {"op", "rot"}
Pools    == {"inbox", "done", "quarantine", "git"}
Files    == <<"inbox", "quarantine", "done", "git", "mp4", "side", "job">>
Live     == ToSet(flock)
Tiers    == {"worker", "inputs", "outputs", "all"}
InWork   == IF wk \in {"off", "idle"} THEN {} ELSE {cur}
InRotation == {aim["rot"]} \ {None}
Without(s) == RemoveFirst(flock, s)
Parents(s) == {From[s], To[s]} \ {None}

Put(s, p)  == at' = [at EXCEPT ![s] = @ \cup {p}]
Drop(s, p) == at' = [at EXCEPT ![s] = @ \ {p}]

\* The worker or a landing touches s, which a command under way does not see.
Touch(s) == crossed' = crossed \cup {s} /\ gone' = gone \ {s}

-----------------------------------------------------------------------------
(* Genomes arrive and the worker renders them.                             *)

Goto(from, to) == wk = from /\ wk' = to

\* shears add and modify, a seeder, a promotion: all end in stage_file.
Land(s) ==
  /\ ran.land < MaxLandings
  /\ Put(s, "inbox") /\ Touch(s)
  /\ ran' = [ran EXCEPT !.land = @ + 1]
  /\ UNCHANGED <<spare, flockVars, worker, cascade, kind, todo, rotation, thin, along>>

(* The directory of an earlier job may still be on a list; removing it      *)
(* disturbs nobody any more.                                                *)
Claim(s) ==
  /\ "inbox" \in at[s]
  /\ Goto("idle", "render")
  /\ Drop(s, "inbox")
  /\ crossed' = IF kind \in Tiers THEN crossed ELSE crossed \cup {s}   \* Hammer must see to it
  /\ gone' = gone \ {s}
  /\ cur' = s /\ job' = TRUE
  /\ list' = [p \in Procs |-> list[p] \ {"job"}]
  /\ UNCHANGED <<spare, flockVars, pc, aim, kin, kind, todo, rotation, ran, thin, along>>

\* quarantine_genome and archive_rendered_genome: a taken name gets a uuid.
Shelve(p) == IF p \in at[cur] THEN spare' = [spare EXCEPT ![cur] = @ \cup {p}] /\ UNCHANGED at
                              ELSE Put(cur, p) /\ UNCHANGED spare

\* Fault: the record of the job stays.
RestInJob == wk' = "idle" /\ cur' = None /\ UNCHANGED job

Rest == wk' = "idle" /\ cur' = None /\ job' = FALSE

(* A step fails.  With its directory gone the worker cannot even write that *)
(* the job failed, and keeps nothing.                                       *)
Fail ==
  /\ wk \notin {"off", "idle"}
  /\ IF job THEN Shelve("quarantine") ELSE UNCHANGED <<at, spare>>
  /\ Rest
  /\ UNCHANGED <<flockVars, cascade, kind, todo, rotation, ran, history>>

Render ==
  /\ job /\ Goto("render", "aside")
  /\ UNCHANGED <<at, spare, flockVars, cur, job, cascade, kind, todo, rotation, ran, history>>

\* Fault: the earlier MP4 is removed.
MoveAsideNoPrev ==
  /\ Goto("aside", "install")
  /\ flock' = Without(cur) /\ thin' = TRUE
  /\ UNCHANGED <<at, spare, side, prev, parked, cur, job, cascade, kind, todo, rotation, ran, crossed, along, gone>>

\* install_catalog_mp4 keeps one earlier generation,
MoveAside ==
  /\ Goto("aside", "install")
  /\ IF cur \in Live THEN flock' = Without(cur) /\ prev' = prev \cup {cur} /\ thin' = TRUE
                     ELSE UNCHANGED <<flock, prev, thin>>
  /\ UNCHANGED <<at, spare, side, parked, cur, job, cascade, kind, todo, rotation, ran, crossed, along, gone>>

\* and then moves the encode in.
Install ==
  /\ job /\ Goto("install", "tags")
  /\ flock' = Append(Without(cur), cur)
  /\ UNCHANGED <<at, spare, side, prev, parked, cur, job, cascade, kind, todo, rotation, ran, history>>

\* infer_tags_from_genome reads the claimed genome.
ReadTags ==
  /\ job /\ Goto("tags", "sidecar")
  /\ UNCHANGED <<at, spare, flockVars, cur, job, cascade, kind, todo, rotation, ran, history>>

WriteSidecar ==
  /\ Goto("sidecar", "archive")
  /\ side' = side \cup {cur}
  /\ UNCHANGED <<at, spare, flock, prev, parked, cur, job, cascade, kind, todo, rotation, ran, history>>

Archive ==
  /\ job /\ wk = "archive"
  /\ Shelve("done") /\ Rest
  /\ UNCHANGED <<flockVars, cascade, kind, todo, rotation, ran, history>>

\* An operator starts the worker again after Hammer.
StartWorker ==
  /\ wk = "off" /\ kind = "none" /\ Rest
  /\ UNCHANGED <<at, spare, flockVars, cascade, kind, todo, rotation, ran, history>>

-----------------------------------------------------------------------------
(* The delete cascade of process p: discover_cascade lists the pools, then  *)
(* the catalog and the jobs; apply_delete removes what is on the list, in   *)
(* the order of the list, and skips what is missing.                        *)

Step(p, from, to) == pc[p] = from /\ pc' = [pc EXCEPT ![p] = to]

\* Fault: the genomes in quarantine are forgotten.
ListPoolsKept(p) ==
  /\ Step(p, "pools", "rest")
  /\ list' = [list EXCEPT ![p] = at[aim[p]] \ {"quarantine"}]
  /\ UNCHANGED <<at, spare, flockVars, worker, aim, kin, kind, todo, rotation, ran, history>>

ListPools(p) ==
  /\ Step(p, "pools", "rest")
  /\ list' = [list EXCEPT ![p] = at[aim[p]]]
  /\ UNCHANGED <<at, spare, flockVars, worker, aim, kin, kind, todo, rotation, ran, history>>

\* _tuple_related_paths: the genomes and the publications of the tuples from or
\* to sheep s.  A uuid spoils the name's second half, not its first.
KinFiles(s) ==
  {k \in {t \in Sheep : s \in Parents(t)} \X ToSet(Files) \X BOOLEAN :
     LET t == k[1]  f == k[2] IN
     IF k[3] THEN f \in (at[t] \ {"git"}) \cup {g \in {"mp4"} : t \in Live} \cup {g \in {"side"} : t \in side}
             ELSE From[t] = s /\ f \in spare[t]}

\* Fault: the catalog's sidecar is forgotten.
ListRestNoSide(p) ==
  /\ Step(p, "rest", IF p = "rot" THEN "stat" ELSE "cut")
  /\ LET s == aim[p] IN
     list' = [list EXCEPT ![p] = @ \cup {f \in {"mp4"} : s \in Live}
                                   \cup {f \in {"job"} : cur = s /\ job}]
  /\ kin' = [kin EXCEPT ![p] = KinFiles(aim[p])]
  /\ UNCHANGED <<at, spare, flockVars, worker, aim, kind, todo, rotation, ran, history>>

ListRest(p) ==
  /\ Step(p, "rest", IF p = "rot" THEN "stat" ELSE "cut")
  /\ LET s == aim[p] IN
     list' = [list EXCEPT ![p] = @ \cup {f \in {"mp4"} : s \in Live} \cup {f \in {"side"} : s \in side}
                                   \cup {f \in {"job"} : cur = s /\ job}]
  /\ kin' = [kin EXCEPT ![p] = KinFiles(aim[p])]
  /\ UNCHANGED <<at, spare, flockVars, worker, aim, kind, todo, rotation, ran, history>>

KinGenomes(p) == {k \in kin[p] : k[2] \in Pools}

\* Genomes go first, the tuples' after the sheep's own,
Cut(p) ==
  /\ pc[p] = "cut" /\ list[p] # {}
  /\ LET f == Files[SelectInSeq(Files, LAMBDA g : g \in list[p])]
         s == aim[p] IN
     /\ f \in Pools \/ KinGenomes(p) = {}
     /\ list' = [list EXCEPT ![p] = @ \ {f}]
     /\ IF f \in Pools THEN Drop(s, f) ELSE UNCHANGED at
     /\ flock' = IF f = "mp4" THEN Without(s) ELSE flock
     /\ side' = IF f = "side" THEN side \ {s} ELSE side
     /\ job' = (job /\ ~(f = "job" /\ cur = s))
     /\ thin' = (thin \/ (p = "op" /\ f = "mp4"))
     /\ crossed' = IF p = "rot" THEN crossed \cup {s} ELSE crossed
  /\ UNCHANGED <<spare, prev, parked, wk, cur, pc, aim, kin, kind, todo, rotation, ran, along, gone>>

\* and the tuples' publications last.
CutKin(p, k) ==
  /\ pc[p] = "cut" /\ k \in kin[p]
  /\ list[p] \cap Pools = {} /\ (k[2] \in Pools \/ list[p] \cup KinGenomes(p) = {})
  /\ kin' = [kin EXCEPT ![p] = @ \ {k}]
  /\ LET t == k[1]  f == k[2]  film == f = "mp4" /\ t \in Live IN
     /\ at' = IF k[3] THEN [at EXCEPT ![t] = @ \ {f}] ELSE at
     /\ spare' = IF k[3] THEN spare ELSE [spare EXCEPT ![t] = @ \ {f}]
     /\ flock' = IF f = "mp4" THEN Without(t) ELSE flock
     /\ side' = IF f = "side" THEN side \ {t} ELSE side
     /\ thin' = (thin \/ (p = "op" /\ film))
     /\ along' = IF p = "rot" /\ film THEN along + 1 ELSE along
     /\ crossed' = IF p = "rot" THEN crossed \cup {t} ELSE crossed
  /\ UNCHANGED <<prev, parked, worker, pc, aim, list, kind, todo, rotation, ran, gone>>

Emptied(p) == pc[p] = "cut" /\ list[p] \cup kin[p] = {}

-----------------------------------------------------------------------------
(* The operator's commands.                                                *)

Begin(c, next) ==
  /\ kind = "none" /\ pc["op"] = "idle"
  /\ c \in Commands /\ ran.op < MaxCommands
  /\ ran' = [ran EXCEPT !.op = @ + 1]
  /\ kind' = c /\ pc' = [pc EXCEPT !["op"] = next]
  /\ crossed' = IF c \in Tiers THEN {} ELSE InWork \cup InRotation

Quit == pc' = [pc EXCEPT !["op"] = "idle"] /\ kind' = "none" /\ aim' = [aim EXCEPT !["op"] = None]
        /\ todo' = {}

\* On to the next sheep of a sweep or a batch, or the end of the command.
Onward == IF todo = {} THEN Quit
          ELSE /\ pc' = [pc EXCEPT !["op"] = "next"] /\ aim' = [aim EXCEPT !["op"] = None]
               /\ UNCHANGED <<kind, todo>>

\* shears delete
Delete(s) ==
  /\ Begin("delete", "pools")
  /\ aim' = [aim EXCEPT !["op"] = s]
  /\ UNCHANGED <<at, spare, flockVars, worker, list, kin, todo, rotation, thin, along, gone>>

\* audit_flock and FlockAudit.orphan_bases
Known   == {s \in Sheep : at[s] # {}}
Filmed  == Live \cup parked
Orphans == (Filmed \ Known) \cup (side \ Filmed)

Sweep ==
  /\ Begin("sweep", "next")
  /\ todo' = Orphans
  /\ UNCHANGED <<at, spare, flockVars, worker, aim, list, kin, rotation, thin, along, gone>>

CutDone ==
  /\ Emptied("op") /\ Onward
  /\ gone' = IF aim["op"] \in crossed THEN gone ELSE gone \cup {aim["op"]}
  /\ UNCHANGED <<at, spare, flockVars, worker, list, kin, rotation, ran, crossed, thin, along>>

\* score_sheep: a genome in no pool is a hard reason to quarantine.
Verdict(s) == IF at[s] = {} THEN "quarantine" ELSE Grade[s]

\* run_batch scans first.
Batch ==
  /\ Begin("batch", "next")
  /\ todo' = {s \in Live : Verdict(s) # "ok"}
  /\ UNCHANGED <<at, spare, flockVars, worker, aim, list, kin, rotation, thin, along, gone>>

TakeNext(s) ==
  /\ s \in todo
  /\ Step("op", "next", IF kind = "sweep" THEN "pools" ELSE "score")
  /\ todo' = todo \ {s} /\ aim' = [aim EXCEPT !["op"] = s]
  /\ UNCHANGED <<at, spare, flockVars, worker, list, kin, kind, rotation, ran, history>>

NoneLeft ==
  /\ pc["op"] = "next" /\ todo = {} /\ Quit
  /\ UNCHANGED <<at, spare, flockVars, worker, list, kin, rotation, ran, history>>

\* refactor quarantine --force and refactor apply of one sheep
Refactor(c, s) ==
  /\ Begin(c, "score")
  /\ aim' = [aim EXCEPT !["op"] = s]
  /\ UNCHANGED <<at, spare, flockVars, worker, list, kin, todo, rotation, thin, along, gone>>

\* find_genome_for_stem
Finds(s, p) == /\ p \in at[s]
               /\ p = "inbox" => "done" \notin at[s]
               /\ p = "quarantine" => at[s] \cap {"done", "inbox"} = {}
               /\ p = "git" => at[s] = {"git"}

(* run_quarantine looks for the MP4 and the genome, scores the sheep, and   *)
(* remembers both.                                                          *)
Score ==
  /\ Step("op", "score", "move")
  /\ LET s == aim["op"] IN
     /\ kind = "quarantine" \/ (kind = "batch" /\ Verdict(s) = "quarantine")
     /\ s \in Live \/ at[s] # {}
     /\ list' = [list EXCEPT !["op"] = {p \in Pools : Finds(s, p)} \cup {f \in {"mp4"} : s \in Live}]
  /\ UNCHANGED <<at, spare, flockVars, worker, aim, kin, kind, todo, rotation, ran, history>>

\* run_apply stages a genome it finds; the catalog keeps the MP4.
Apply ==
  /\ pc["op"] = "score"
  /\ LET s == aim["op"] IN
     /\ kind = "apply" \/ (kind = "batch" /\ Verdict(s) = "candidate")
     /\ at[s] # {}
     /\ Put(s, "inbox")
     /\ Touch(s)
  /\ Onward
  /\ UNCHANGED <<spare, flockVars, worker, list, kin, rotation, ran, thin, along>>

\* Nothing found, or the verdict changed since the scan.
GiveUp ==
  /\ pc["op"] = "score"
  /\ LET s == aim["op"] IN
     \/ kind = "quarantine" /\ s \notin Live /\ at[s] = {}
     \/ kind = "apply" /\ at[s] = {}
     \/ kind = "batch" /\ Verdict(s) = "ok"
     \/ kind = "batch" /\ s \notin Live /\ at[s] = {}
  /\ Onward
  /\ UNCHANGED <<at, spare, flockVars, worker, list, kin, rotation, ran, history>>

\* The genome a quarantine chose when it looked.
Looked == list["op"] \cap Pools

(* _move_file removes a file of that name in quarantine before it moves; a  *)
(* genome that has gone meanwhile makes the move, and the command, fail.    *)
MoveGenome ==
  /\ pc["op"] = "move"
  /\ LET s == aim["op"]
         from == Looked \ {"quarantine"} IN
     IF from \subseteq at[s]
       THEN /\ at' = [at EXCEPT ![s] = (@ \ from) \cup {p \in {"quarantine"} : from # {}}]
            /\ IF "mp4" \in list["op"] /\ s \in Live
                 THEN Step("op", "move", "park") /\ UNCHANGED <<aim, kind, todo>>
                 ELSE Onward
       ELSE Drop(s, "quarantine") /\ Onward
  /\ list' = [list EXCEPT !["op"] = {}]
  /\ UNCHANGED <<spare, flockVars, worker, kin, rotation, ran, history>>

\* Unless --no-unpublish, the catalog's files follow, overwriting parked ones.
ParkMp4 ==
  /\ Step("op", "park", "parkSide")
  /\ LET s == aim["op"] IN
     /\ s \in Live
     /\ flock' = Without(s) /\ parked' = parked \cup {s}
  /\ thin' = TRUE
  /\ UNCHANGED <<at, spare, side, prev, worker, aim, list, kin, kind, todo, rotation, ran, crossed, along, gone>>

ParkSide ==
  /\ pc["op"] = "parkSide" /\ Onward
  /\ side' = side \ {aim["op"]}
  /\ UNCHANGED <<at, spare, flock, prev, parked, worker, list, kin, rotation, ran, history>>

\* The MP4 is gone by now, or --no-unpublish was given.
ParkNothing ==
  /\ pc["op"] = "park" /\ Onward
  /\ UNCHANGED <<at, spare, flockVars, worker, list, kin, rotation, ran, history>>

-----------------------------------------------------------------------------
(* Hammer --force-stop.                                                    *)

Wipes(tier) == CASE tier = "worker"  -> <<"jobs">>
                 [] tier = "inputs"  -> <<"jobs", "inbox", "quarantine">>
                 [] tier = "outputs" -> <<"jobs", "done", "media">>
                 [] tier = "all"     -> <<"jobs", "inbox", "quarantine", "done", "media">>

StopWorker == wk' = "off" /\ UNCHANGED <<cur, job>>

Hammer(tier) ==
  /\ Begin(tier, "jobs") /\ StopWorker
  /\ UNCHANGED <<at, spare, flockVars, aim, list, kin, todo, rotation, thin, along, gone>>

Empty(p) == /\ at' = [s \in Sheep |-> at[s] \ {p}]
            /\ spare' = [s \in Sheep |-> spare[s] \ {p}]
            /\ UNCHANGED <<flockVars, thin, along>>

\* The parked MP4s are not under by-generation.
EmptyMedia == /\ flock' = <<>> /\ side' = {} /\ prev' = {} /\ thin' = TRUE
              /\ UNCHANGED <<at, spare, parked, along>>

Wipe(class) ==
  /\ kind \in Tiers /\ pc["op"] = class
  /\ LET after == SelectInSeq(Wipes(kind), LAMBDA c : c = class) + 1 IN
     IF after > Len(Wipes(kind)) THEN Quit
     ELSE pc' = [pc EXCEPT !["op"] = Wipes(kind)[after]] /\ UNCHANGED <<aim, kind, todo>>
  /\ CASE class = "jobs"  -> job' = FALSE /\ UNCHANGED <<at, spare, flockVars, thin, along>>
       [] class = "media" -> EmptyMedia /\ UNCHANGED job
       [] OTHER           -> Empty(class) /\ UNCHANGED job
  /\ UNCHANGED <<wk, cur, list, kin, rotation, ran, crossed, gone>>

-----------------------------------------------------------------------------
(* Rotation: cron's flock admits one.  How full the disk is, is read anew   *)
(* before each sheep.                                                       *)

RotStart ==
  /\ ran.rot < MaxRotations /\ Len(flock) > Floor
  /\ Step("rot", "idle", "pick")
  /\ cands' = flock /\ planned' = 0 /\ thin' = FALSE /\ along' = 0
  /\ ran' = [ran EXCEPT !.rot = @ + 1]
  /\ UNCHANGED <<at, spare, flockVars, worker, aim, list, kin, kind, todo, crossed, gone>>

\* Fault: the floor is not counted.
MayTakeOneMore == Len(cands) - planned >= Floor /\ planned < Budget

MayTake == Len(cands) - planned > Floor /\ planned < Budget

RotPick ==
  /\ MayTake
  /\ Step("rot", "pick", "pools")
  /\ aim' = [aim EXCEPT !["rot"] = cands[planned + 1]]
  /\ UNCHANGED <<at, spare, flockVars, worker, list, kin, kind, todo, rotation, ran, history>>

\* Git feedstock is dropped from the list; stat of an MP4 that has gone raises.
RotStat ==
  /\ aim["rot"] \in Live
  /\ Step("rot", "stat", "cut")
  /\ planned' = planned + 1
  /\ list' = [list EXCEPT !["rot"] = @ \ {"git"}]
  /\ UNCHANGED <<at, spare, flockVars, worker, aim, kin, kind, todo, cands, ran, history>>

RotNext ==
  /\ Emptied("rot") /\ Step("rot", "cut", "pick")
  /\ aim' = [aim EXCEPT !["rot"] = None]
  /\ UNCHANGED <<at, spare, flockVars, worker, list, kin, kind, todo, rotation, ran, history>>

RotStop ==
  /\ \/ pc["rot"] = "pick" /\ (planned > 0 \/ ~MayTake)
     \/ pc["rot"] = "stat" /\ aim["rot"] \notin Live
  /\ pc' = [pc EXCEPT !["rot"] = "idle"]
  /\ aim' = [aim EXCEPT !["rot"] = None] /\ list' = [list EXCEPT !["rot"] = {}]
  /\ kin' = [kin EXCEPT !["rot"] = {}]
  /\ UNCHANGED <<at, spare, flockVars, worker, kind, todo, rotation, ran, history>>

-----------------------------------------------------------------------------
Init ==
  /\ at = [s \in Sheep |-> {"done"} \cup {p \in {"git"} : s \in Tracked}]
  /\ spare = [s \in Sheep |-> {}]
  /\ flock \in Ages /\ Live = Sheep
  /\ side = Sheep /\ prev = {} /\ parked = {}
  /\ wk = "idle" /\ cur = None /\ job = FALSE
  /\ pc = [p \in Procs |-> "idle"]
  /\ aim = [p \in Procs |-> None] /\ list = [p \in Procs |-> {}] /\ kin = [p \in Procs |-> {}]
  /\ kind = "none" /\ todo = {} /\ cands = <<>> /\ planned = 0
  /\ ran = [op |-> 0, rot |-> 0, land |-> 0]
  /\ crossed = {} /\ thin = FALSE /\ along = 0 /\ gone = {}

Work ==
  \/ \E s \in Sheep : Land(s) \/ Claim(s)
  \/ Fail \/ Render \/ MoveAside \/ Install \/ ReadTags \/ WriteSidecar \/ Archive \/ StartWorker

Operate ==
  \/ \E s \in Sheep : Delete(s) \/ TakeNext(s) \/ \E c \in {"quarantine", "apply"} : Refactor(c, s)
  \/ Sweep \/ CutDone \/ NoneLeft
  \/ Batch \/ Score \/ Apply \/ GiveUp \/ MoveGenome \/ ParkMp4 \/ ParkSide \/ ParkNothing
  \/ \E tier \in Tiers : Hammer(tier)
  \/ \E class \in ToSet(Wipes("all")) : Wipe(class)

Rotate == RotStart \/ RotPick \/ RotStat \/ RotNext \/ RotStop

Cascade(p) == ListPools(p) \/ ListRest(p) \/ Cut(p) \/ \E k \in kin[p] : CutKin(p, k)

Next == Work \/ Operate \/ Rotate \/ \E p \in Procs : Cascade(p)

Spec == Init /\ [][Next]_vars

-----------------------------------------------------------------------------
TypeOK ==
  /\ at \in [Sheep -> SUBSET Pools] /\ spare \in [Sheep -> SUBSET {"done", "quarantine"}]
  /\ flock \in Seq(Sheep) /\ IsInjective(flock)
  /\ side \cup prev \cup parked \cup todo \cup gone \cup crossed \subseteq Sheep
  /\ wk \in {"off", "idle", "render", "aside", "install", "tags", "sidecar", "archive"}
  /\ cur \in Sheep \cup {None} /\ (wk = "idle" => cur = None)
  /\ {job, thin} \subseteq BOOLEAN /\ (job => cur # None)
  /\ pc \in [Procs -> {"idle", "pools", "rest", "stat", "cut", "pick", "next", "score", "move",
                       "park", "parkSide", "jobs", "inbox", "quarantine", "done", "media"}]
  /\ kind \in Commands \cup {"none"}
  /\ aim \in [Procs -> Sheep \cup {None}] /\ list \in [Procs -> SUBSET ToSet(Files)]
  /\ kin \in [Procs -> SUBSET (Sheep \X ToSet(Files) \X BOOLEAN)] /\ along \in Nat
  /\ cands \in Seq(Sheep) /\ planned \in 0..Budget
  /\ ran \in [op : 0..MaxCommands, rot : 0..MaxRotations, land : 0..MaxLandings]

(* A delete or a sweep takes every genome of the sheep's name and the       *)
(* whole of its publication, and nothing of it comes back, unless the       *)
(* worker or the rotation had or took the sheep, or a genome of it landed,  *)
(* meanwhile: discover_cascade and apply_delete beside claim, install and   *)
(* archive.                                                                 *)
DeletedStaysGone ==
  \A s \in gone : at[s] = {} /\ s \notin Live \cup side \cup InWork

(* A rotation goes below rotate_floor only by the tuples that went with a   *)
(* parent, whatever the worker adds, unless another process took an MP4     *)
(* since the rotation counted: run_rotate counts its candidates once, and a *)
(* cascade as one of them, however many MP4s it takes.                      *)
RotateKeepsFloor ==
  [][<<list["rot"], kin["rot"]>>' # <<list["rot"], kin["rot"]>> /\ flock' # flock
       => thin \/ Len(flock') + along' >= Floor]_vars

(* library_rotate.py: "Floor >= 1 playable catalog MP4."  A parent's cascade*)
(* takes its tuples too, and counts as one.                                 *)
FloorIsPlayable ==
  [][<<list["rot"], kin["rot"]>>' # <<list["rot"], kin["rot"]>> /\ flock' # flock
       => thin \/ Len(flock') >= Floor]_vars

HasGenome(s) == at[s] # {} \/ spare[s] # {} \/ (job /\ cur = s)
HasMp4(s)    == s \in Live \cup prev \cup parked
Culled(s)    == \/ \E p \in Procs : pc[p] = "cut" /\ aim[p] \in {s} \cup Parents(s)
                \/ kind \in Tiers
Stale(s)     == pc["op"] = "move" /\ aim["op"] = s /\ ~(Looked \subseteq at[s])

(* The last genome of a sheep and its last MP4 are removed by a delete, a   *)
(* sweep or a rotation of that sheep or of a parent of that tuple, or by    *)
(* Hammer, and by nothing else,                                             *)
(* except that a quarantine whose genome went away after it looked removes  *)
(* a copy already in quarantine before its move fails: "no deletes" in      *)
(* run_quarantine, "does not silently erase the flock copy" in              *)
(* install_catalog_mp4.                                                     *)
OnlyCullsErase ==
  [][\A s \in Sheep : \/ (HasGenome(s) => HasGenome(s)') /\ (HasMp4(s) => HasMp4(s)')
                      \/ Culled(s) \/ Stale(s)]_vars

(* run_quarantine: "Move genetics to genomes_quarantine; optionally park    *)
(* catalog (no deletes)".  A worker that claims the genome after the look   *)
(* and quarantines it before the move loses it.                             *)
QuarantineDeletesNothing ==
  [][\A s \in Sheep : pc["op"] = "move" /\ pc'["op"] # "move" /\ HasGenome(s) => HasGenome(s)']_vars

Wiped(tier) ==
  /\ ~job
  /\ tier \in {"inputs", "all"} => \A s \in Sheep : at[s] \cap {"inbox", "quarantine"} = {}
  /\ tier \in {"outputs", "all"} => flock = <<>> /\ side = {} /\ \A s \in Sheep : "done" \notin at[s]

(* What a cleaning command was to clean is clean when it ends, if nothing   *)
(* landed or moved meanwhile: a sweep leaves what the audit finds no orphan *)
(* in, but for parked MP4s (sweep_orphans, orphan_bases), and Hammer empties*)
(* its tier, for it stops the worker before it wipes (apply_plan).          *)
CleanedIsClean ==
  [][kind' = "none" /\ crossed = {} =>
        /\ kind = "sweep" => Orphans' \subseteq parked'
        /\ \A tier \in Tiers : tier = kind => Wiped(tier)']_vars

(* FlockAudit.orphan_bases: "Bases safe to Shears-delete as catalog orphans *)
(* (no genome, or media without mp4)".  The code counts a claimed genome    *)
(* as none.                                                                 *)
SweepSparesGenomes ==
  [][kind = "sweep" /\ list'["op"] # list["op"] /\ job => job']_vars
=============================================================================
