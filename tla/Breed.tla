------------------------------- MODULE Breed -------------------------------
(***************************************************************************)
(* A bred child and the record of its parents.  breed.py and the daily      *)
(* breed_idle.py run land a child in the inbox and then write its pedigree  *)
(* sidecar beside it; the worker (worker.py) claims genome and sidecar,     *)
(* copies the lineage onto the catalog sidecar or parks it with a rejected  *)
(* genome; startup recovery (job_recovery.py) and the reap settle what a    *)
(* dead worker left.  Genome and sidecar move by separate file operations,  *)
(* and breeders and worker run in processes of their own.                   *)
(***************************************************************************)
EXTENDS Integers, FiniteSets

CONSTANTS
  Kids,        \* names of bred children, each used once
  Tuples,      \* names of pairs of sheep: one name for each ordered pair
  Cron, Hand,  \* breeders: the idle runs, and the breed command line
  None,
  LowWater,    \* inbox_low_water
  MaxCrashes   \* bound on crashes of the worker and of breeders

Breeders == Cron \cup Hand
Items    == Kids \cup Tuples

ASSUME BreedAssumption ==
  /\ Kids \cap Tuples = {} /\ Cron \cap Hand = {} /\ None \notin Items \cup {"inbox", "job"}
  /\ IsFiniteSet(Items) /\ IsFiniteSet(Cron)
  /\ LowWater \in Nat /\ MaxCrashes \in Nat

VARIABLES
  gen,      \* where each genome file is; "left" are the dirs of ended jobs
  side,     \* where each pedigree sidecar is
  mp4,      \* catalog: "none", "media" (no sidecar yet), "bare" or "bred"
  rec,      \* the job in flight: "none", where its src points, or "ready" once
            \* the prepared flam3 is beside the claimed genome
  cur,      \* the genome the worker or its recovery has in hand
  at,       \* where it found the sidecar
  todo,     \* sidecars the startup reap has listed
  wk,       \* next step of the worker
  br, kid,  \* next step of each breeder, and its child
  crashes,
  written,  \* history: children whose sidecar was written
  late,     \* history: of these, those nobody was going to look for again
  cut,      \* history: a catalog write failed, or a crash after the record was
            \* final came before the sidecar was where it belongs
  extra     \* history: children bred by hand, or queued again

files    == <<gen, side, mp4>>
job      == <<rec, cur, at, todo>>
breeding == <<br, kid>>
history  == <<written, late, cut, extra>>
vars == <<files, job, wk, breeding, crashes, history>>

Places == {"inbox", "job", "left", "done", "quar"}

Move(f, x, p, q) == [f EXCEPT ![p] = @ \ {x}, ![q] = @ \cup {x}]

\* locate_pedigree_sidecar: beside the genome, then in the other directory.
Locate(x, p, q) == IF x \in side[p] THEN p ELSE IF x \in side[q] THEN q ELSE None

\* A finished job keeps its directory.
Leave(f) == [f EXCEPT !["left"] = @ \cup f["job"], !["job"] = {}]

\* The directory of the src of the record, and the other one.
Home == IF rec = "inbox" THEN "inbox" ELSE "job"
Away == IF rec = "inbox" THEN "job" ELSE "inbox"

\* The worker will still look for the sidecar of k.
Booting == {"down", "boot", "settle", "onto", "drop", "mark", "glob"}
Looking == {"take", "claimed", "tax", "optimize", "render", "install", "adopt",
            "copy", "unlink", "park"}
WillLook(k) == \/ k \in gen["inbox"]
               \/ wk \in Booting /\ todo = {}
               \/ cur = k /\ wk \in Looking
               \/ cur = k /\ wk = "fail" /\ k \in gen["job"]

-----------------------------------------------------------------------------
(* Breeding.                                                               *)

Step(b, from, to) == br[b] = from /\ br' = [br EXCEPT ![b] = to]

\* evaluate_idle_breed: the inbox count alone decides.  (Skips change nothing;
\* pick_unique_plan may, after its rerolls, return any plan.)
Decide(b) ==
  /\ b \in Cron
  /\ Step(b, "idle", "mate")
  /\ Cardinality(gen["inbox"]) <= LowWater
  /\ UNCHANGED <<files, job, wk, kid, crashes, history>>

\* breed --mutate, --cross or --interpolate
Command(b) ==
  /\ b \in Hand
  /\ Step(b, "idle", "mate")
  /\ UNCHANGED <<files, job, wk, kid, crashes, history>>

\* A parent is gone, fails the sheep tax, or flam3-genome fails.
Barren(b) ==
  /\ Step(b, "mate", "idle")
  /\ UNCHANGED <<files, job, wk, kid, crashes, history>>

\* prepare_parent, flam3-genome, shutil.move into the inbox
Land(b) ==
  /\ Step(b, "mate", "pedigree")
  /\ \E k \in Kids :
       /\ \A p \in Places : k \notin gen[p]
       /\ k \notin written \cup {kid[c] : c \in Breeders} /\ mp4[k] = "none"
       /\ kid' = [kid EXCEPT ![b] = k]
       /\ gen' = [gen EXCEPT !["inbox"] = @ \cup {k}]
       /\ extra' = IF b \in Hand THEN extra \cup {k} ELSE extra
  /\ UNCHANGED <<side, mp4, job, wk, crashes, written, late, cut>>

\* write_pedigree_sidecar, wherever the child has gone since
WritePedigree(b) ==
  /\ Step(b, "pedigree", "idle")
  /\ side' = [side EXCEPT !["inbox"] = @ \cup {kid[b]}]
  /\ written' = written \cup {kid[b]}
  /\ late' = IF WillLook(kid[b]) THEN late ELSE late \cup {kid[b]}
  /\ kid' = [kid EXCEPT ![b] = None]
  /\ UNCHANGED <<gen, mp4, job, wk, crashes, cut, extra>>

\* _pick_tuple_plan, stage_tuple_inbox: a pair without an MP4
PickTuple(b) ==
  /\ b \in Cron
  /\ Step(b, "mate", "tuple")
  /\ \E t \in Tuples : mp4[t] = "none" /\ kid' = [kid EXCEPT ![b] = t]
  /\ UNCHANGED <<files, job, wk, crashes, history>>

\* stage_tuple_inbox writes over a pair that waits already; it has no sidecar.
WriteTuple(b) ==
  /\ Step(b, "tuple", "idle")
  /\ gen' = [gen EXCEPT !["inbox"] = @ \cup {kid[b]}]
  /\ kid' = [kid EXCEPT ![b] = None]
  /\ UNCHANGED <<side, mp4, job, wk, crashes, history>>

\* The breeder dies: a child it landed never gets a sidecar.
BreederDies(b) ==
  /\ br[b] # "idle" /\ crashes < MaxCrashes /\ crashes' = crashes + 1
  /\ br' = [br EXCEPT ![b] = "idle"]
  /\ kid' = [kid EXCEPT ![b] = None]
  /\ UNCHANGED <<files, job, wk, history>>

Breeder(b) == \/ Decide(b) \/ Command(b) \/ Barren(b) \/ Land(b)
              \/ WritePedigree(b) \/ PickTuple(b) \/ WriteTuple(b)

-----------------------------------------------------------------------------
(* The worker, from the claim to the archive.                               *)

Goto(from, to) == wk = from /\ wk' = to

\* A step of the worker that is not about lineage: it goes on.
Go(from, to) == Goto(from, to) /\ UNCHANGED <<files, job, breeding, crashes, history>>

\* The genome goes into a new job; the first record's src is the inbox.
Pick(x) ==
  /\ Goto("poll", "claim")
  /\ x \in gen["inbox"]
  /\ cur' = x /\ rec' = "inbox" /\ at' = None
  /\ UNCHANGED <<files, todo, breeding, crashes, history>>

\* claim_inbox_genome
Claim ==
  /\ Goto("claim", "take")
  /\ gen' = Move(gen, cur, "inbox", "job")
  /\ UNCHANGED <<side, mp4, job, breeding, crashes, history>>

\* take_pedigree_sidecar: only what lies beside the genome by now
Take ==
  /\ Goto("take", "claimed")
  /\ side' = IF cur \in side["inbox"] THEN Move(side, cur, "inbox", "job") ELSE side
  /\ UNCHANGED <<gen, mp4, job, breeding, crashes, history>>

WriteClaimed ==
  /\ Goto("claimed", "tax")
  /\ rec' = "job"
  /\ UNCHANGED <<files, cur, at, todo, breeding, crashes, history>>

\* The sheep tax quarantines what it rejects before it raises.
Tax == Go("tax", "optimize") \/ Go("tax", "copy")

\* tv_optimize_file writes tv_optimized.flam3 into the job directory.
Optimize ==
  /\ Goto("optimize", "render")
  /\ rec' = "ready"
  /\ UNCHANGED <<files, cur, at, todo, breeding, crashes, history>>

Render == Go("render", "install")

\* install_catalog_mp4; an older sidecar stays.
Install ==
  /\ Goto("install", "adopt")
  /\ mp4' = [mp4 EXCEPT ![cur] = IF @ = "none" THEN "media" ELSE @]
  /\ UNCHANGED <<gen, side, job, breeding, crashes, history>>

\* Fault: only the sidecar that travelled with the claim is looked for.
AdoptTaken ==
  /\ Goto("adopt", "describe")
  /\ at' = IF cur \in side["job"] THEN "job" ELSE None
  /\ UNCHANGED <<files, rec, cur, todo, breeding, crashes, history>>

\* adopt_pedigree_lineage
Adopt ==
  /\ Goto("adopt", "describe")
  /\ at' = Locate(cur, "job", "inbox")
  /\ UNCHANGED <<files, rec, cur, todo, breeding, crashes, history>>

\* Fault: the lineage is not merged.
DescribeBare ==
  /\ Goto("describe", "release")
  /\ mp4' = [mp4 EXCEPT ![cur] = "bare"]
  /\ UNCHANGED <<gen, side, job, breeding, crashes, history>>

\* merge_reserved_sidecar_keys, merge_pedigree_lineage, the catalog sidecar
Describe ==
  /\ Goto("describe", "release")
  /\ mp4' = [mp4 EXCEPT ![cur] = IF at # None \/ @ = "bred" THEN "bred" ELSE "bare"]
  /\ UNCHANGED <<gen, side, job, breeding, crashes, history>>

\* release_pedigree_sidecar
Release ==
  /\ Goto("release", "ingest")
  /\ side' = IF at = None THEN side ELSE [side EXCEPT ![at] = @ \ {cur}]
  /\ UNCHANGED <<gen, mp4, job, breeding, crashes, history>>

Ingest ==
  /\ Goto("ingest", "archive")
  /\ rec' = "none"
  /\ UNCHANGED <<files, cur, at, todo, breeding, crashes, history>>

\* archive_rendered_genome
Archive ==
  /\ Goto("archive", "close")
  /\ gen' = Move(gen, cur, "job", "done")
  /\ UNCHANGED <<side, mp4, job, breeding, crashes, history>>

\* Any stage may raise, the write of the catalog sidecar too.
Raise ==
  /\ wk \in {"tax", "optimize", "render", "install", "describe"}
  /\ Goto(wk, "fail")
  /\ cut' = IF wk = "describe" THEN cut \cup {cur} ELSE cut
  /\ UNCHANGED <<files, job, breeding, crashes, written, late, extra>>

\* The record says failed before the genome is quarantined.
Fail ==
  /\ Goto("fail", IF cur \in gen["job"] THEN "copy" ELSE "close")
  /\ rec' = "none"
  /\ UNCHANGED <<files, cur, at, todo, breeding, crashes, history>>

\* quarantine_genome: copy, unlink, and then the sidecar
Copy ==
  /\ Goto("copy", "unlink")
  /\ gen' = [gen EXCEPT !["quar"] = @ \cup {cur}]
  /\ UNCHANGED <<side, mp4, job, breeding, crashes, history>>

Unlink ==
  /\ Goto("unlink", "park")
  /\ gen' = [gen EXCEPT !["job"] = @ \ {cur}]
  /\ UNCHANGED <<side, mp4, job, breeding, crashes, history>>

\* Fault: the sidecar stays behind.
ParkNothing == Go("park", IF rec = "none" THEN "close" ELSE "fail")

\* park_pedigree_sidecar, with the inbox as the other directory
Park ==
  /\ Goto("park", IF rec = "none" THEN "close" ELSE "fail")
  /\ LET p == Locate(cur, "job", "inbox")
     IN side' = IF p = None THEN side ELSE Move(side, cur, p, "quar")
  /\ UNCHANGED <<gen, mp4, job, breeding, crashes, history>>

Close ==
  /\ Goto("close", "poll")
  /\ gen' = Leave(gen) /\ side' = Leave(side)
  /\ cur' = None /\ at' = None
  /\ UNCHANGED <<mp4, rec, todo, breeding, crashes, history>>

Process == \/ Claim \/ Take \/ WriteClaimed \/ Tax \/ Optimize \/ Render \/ Install \/ Adopt
           \/ Describe \/ Release \/ Ingest \/ Archive \/ Raise \/ Fail
           \/ Copy \/ Unlink \/ Park \/ Close

-----------------------------------------------------------------------------
(* A crash of the worker, and what its next start makes of it.              *)

\* The files of a job whose record is final stay where they are.
WorkerDies ==
  /\ wk # "down" /\ crashes < MaxCrashes /\ crashes' = crashes + 1
  /\ wk' = "down"
  /\ IF rec = "none"
     THEN gen' = Leave(gen) /\ side' = Leave(side) /\ cur' = None
     ELSE UNCHANGED <<gen, side, cur>>
  /\ cut' = IF rec = "none" /\ todo = {} /\ wk \in {"settle", "onto", "park"}
             THEN cut \cup {cur} ELSE cut
  /\ at' = None /\ todo' = {}
  /\ UNCHANGED <<mp4, rec, breeding, written, late, extra>>

Start == Go("down", IF rec = "none" THEN "glob" ELSE "boot")

\* reclaim_job, superseded: the record is final before the lineage is settled.
Supersede ==
  /\ Goto("boot", "settle")
  /\ mp4[cur] # "none"
  /\ rec' = "none"
  /\ at' = Locate(cur, Home, Away)
  /\ UNCHANGED <<files, cur, todo, breeding, crashes, history>>

\* reclaim_job, orphaned: _ensure_inbox copies the claimed genome back, if the
\* record knows where it is and the prepared flam3 is beside it.  Else the
\* genome stays in the job directory.
Requeue ==
  /\ Goto("boot", "settle")
  /\ mp4[cur] = "none"
  /\ IF rec = "ready" /\ cur \in gen["job"]
     THEN /\ gen' = [gen EXCEPT !["inbox"] = @ \cup {cur}]
          /\ extra' = extra \cup {cur}
     ELSE UNCHANGED <<gen, extra>>
  /\ at' = Locate(cur, Home, Away)
  /\ UNCHANGED <<side, mp4, rec, cur, todo, breeding, crashes, written, late, cut>>

\* The genome was left in the job directory, with its sidecar beside it.
KeptTogether == at = "job" /\ rec # "inbox" /\ cur \in gen["job"]

\* settle_pedigree_after_recovery: beside the waiting genome, else onto the
\* catalog, else left beside the genome in the job directory, else into
\* quarantine alone.
Settle ==
  /\ wk = "settle"
  /\ wk' = IF at # None /\ cur \notin gen["inbox"] /\ mp4[cur] # "none"
           THEN "onto" ELSE "mark"
  /\ side' = IF at = None \/ wk' = "onto" THEN side
             ELSE IF cur \in gen["inbox"] THEN Move(side, cur, at, "inbox")
             ELSE IF KeptTogether THEN side ELSE Move(side, cur, at, "quar")
  /\ UNCHANGED <<gen, mp4, job, breeding, crashes, history>>

\* _write_lineage_onto_catalog, for recovery and for the reap
Onto ==
  /\ Goto("onto", "drop")
  /\ mp4' = [mp4 EXCEPT ![cur] = "bred"]
  /\ UNCHANGED <<gen, side, job, breeding, crashes, history>>

DropSettled ==
  /\ Goto("drop", IF todo = {} THEN "mark" ELSE "reap")
  /\ side' = [side EXCEPT ![at] = @ \ {cur}]
  /\ todo' = todo \ {cur}
  /\ UNCHANGED <<gen, mp4, rec, cur, at, breeding, crashes, history>>

Mark ==
  /\ Goto("mark", "glob")
  /\ rec' = "none" /\ cur' = None /\ at' = None
  /\ gen' = Leave(gen) /\ side' = Leave(side)
  /\ UNCHANGED <<mp4, todo, breeding, crashes, history>>

\* reap_orphaned_pedigree_sidecars lists the inbox once.
Glob ==
  /\ Goto("glob", "reap")
  /\ todo' = side["inbox"]
  /\ late' = {}
  /\ UNCHANGED <<files, rec, cur, at, breeding, crashes, written, cut, extra>>

\* _reap_one: onto the catalog, else beside the genome in quarantine or done,
\* else into quarantine alone.
ReapOne(k) ==
  /\ wk = "reap" /\ k \in todo
  /\ IF k \notin gen["inbox"] /\ mp4[k] # "none"
     THEN wk' = "onto" /\ cur' = k /\ at' = "inbox" /\ UNCHANGED <<side, todo>>
     ELSE /\ wk' = "reap" /\ todo' = todo \ {k} /\ UNCHANGED <<cur, at>>
          /\ side' = IF k \in gen["inbox"] THEN side
                     ELSE Move(side, k, "inbox",
                               IF k \in gen["done"] \ gen["quar"] THEN "done" ELSE "quar")
  /\ UNCHANGED <<gen, mp4, rec, breeding, crashes, history>>

ReapDone == todo = {} /\ Go("reap", "poll")

Recover == \/ Start \/ Supersede \/ Requeue \/ Settle \/ Onto \/ DropSettled
           \/ Mark \/ Glob \/ (\E k \in Kids : ReapOne(k)) \/ ReapDone

-----------------------------------------------------------------------------

Init ==
  /\ gen = [p \in Places |-> {}] /\ side = [p \in Places |-> {}]
  /\ mp4 = [x \in Items |-> "none"]
  /\ rec = "none" /\ cur = None /\ at = None /\ todo = {}
  /\ wk = "down"
  /\ br = [b \in Breeders |-> "idle"] /\ kid = [b \in Breeders |-> None]
  /\ crashes = 0
  /\ written = {} /\ late = {} /\ cut = {} /\ extra = {}

Work == (\E x \in Items : Pick(x)) \/ Process \/ Recover

Next == \/ Work \/ WorkerDies
        \/ \E b \in Breeders : Breeder(b) \/ BreederDies(b)

Spec == Init /\ [][Next]_vars

-----------------------------------------------------------------------------

TypeOK ==
  /\ gen \in [Places -> SUBSET Items] /\ side \in [Places -> SUBSET Kids]
  /\ mp4 \in [Items -> {"none", "media", "bare", "bred"}]
  /\ rec \in {"none", "inbox", "job", "ready"} /\ cur \in Items \cup {None}
  /\ at \in {None, "inbox", "job"} /\ todo \in SUBSET Kids
  /\ wk \in Booting \cup Looking \cup
       {"reap", "poll", "claim", "describe", "release", "ingest", "archive",
        "fail", "close"}
  /\ br \in [Breeders -> {"idle", "mate", "pedigree", "tuple"}]
  /\ kid \in [Breeders -> Items \cup {None}]
  /\ crashes \in 0 .. MaxCrashes
  /\ {written, late} \subseteq SUBSET Kids /\ {cut, extra} \subseteq SUBSET Items

\* A child's lineage, once written, is in a sidecar file or in the catalog
\* after every step: the catalog is written before the sidecar is released
\* (worker.py:978), and moves leave no gap a crash could fall into.
LineageKept ==
  \A k \in written : mp4[k] = "bred" \/ \E p \in Places : k \in side[p]

Resting == wk = "poll"

\* The sidecar was put in quarantine without its genome, which is stranded in
\* the directory of a job that recovery could not queue again: its record never
\* learnt of the claim, or died before the genome was prepared and the sidecar
\* came late.  Or the sidecar is stranded, because its move after the genome was
\* cut short.  No start looks at either again.
Apart(k) == \/ k \in side["quar"] /\ k \in gen["left"]
            \/ k \in side["left"] /\ k \in cut

Settled(k) == \/ mp4[k] = "bred"
              \/ \E p \in {"left", "done", "quar"} : k \in gen[p] /\ k \in side[p]
              \/ Apart(k)

\* While the worker waits, a lineage is in the catalog, beside its genome, in
\* an inbox sidecar that was written after the worker last looked, or Apart in
\* one of the two ways above: no crash, recovery or reap leaves it anywhere else
\* (breed.py:436, worker.py:162, job_recovery.py:306).
LineageIsFindable ==
  Resting => \A k \in written :
     \/ Settled(k)
     \/ k \in side["inbox"] /\ (k \in gen["inbox"] \/ k \in late)

\* While the worker waits, an MP4 whose parents were on record when it was
\* catalogued names them, unless writing its catalog sidecar failed or the
\* recovery of its job was itself cut short (worker.py:973,
\* job_recovery.py:290).
CatalogKnowsParents ==
  Resting => \A k \in written : mp4[k] \in {"none", "bred"} \/ k \in late \cup cut

\* Idle runs that decide beside each other fill the inbox at most to one child
\* each above low water; children bred by hand and genomes put back by
\* recovery come on top (breed_idle.py:506).
LowWaterHolds ==
  Cardinality(gen["inbox"] \ extra) <= LowWater + Cardinality(Cron)

\* "Quarantine, sheep tax, and refactor move the file with the genome. Startup
\* reaps leftovers whose genome is already gone" (breed.py:10).  A worker that
\* dies between the two moves of a job already marked failed leaves the sidecar
\* in the job directory, where no start looks: violated.
LeftoversAreReaped ==
  Resting => \A k \in written : k \in gen["quar"] => k \notin side["left"]

=============================================================================
