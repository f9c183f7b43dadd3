-------------------------------- MODULE Seed --------------------------------
(***************************************************************************)
(* What seed_inbox.py puts in front of the worker: archive sheep asked for  *)
(* by id, archive sheep cron picks from the manifest, local files, and      *)
(* genomes flam3-genome makes on the spot.  archive_seed.py fetches through *)
(* a cache of raw and of TV-ported genomes.  Neither the cache nor the      *)
(* inbox is written atomically, cron's lock does not hold off an operator,  *)
(* and the worker may claim a name while it is being written.               *)
(***************************************************************************)
EXTENDS Integers, Sequences, FiniteSets

CONSTANTS
  Sheep,        \* archive ids, or the names local files get
  Fresh,        \* names --generate and --mutate make up
  Seeders,      \* processes: cron's and operators'
  Lists,        \* the id lists and path lists that are asked for
  Options,      \* with --force (force) and --no-skip-catalog (again)
  None,
  MaxRequests,  \* bound on requests
  MaxFaults     \* bound on deaths of seeders and failing writes

Names == Sheep \cup Fresh

\* The worker's claim on a genome.
Claims == [name : Names, form : {"torn", "whole"}, taxed : BOOLEAN]

ASSUME SeedAssumption ==
  /\ Sheep \cap Fresh = {} /\ None \notin Names \cup Claims /\ IsFiniteSet(Sheep)
  /\ Lists \subseteq Seq(Sheep)
  /\ Options \subseteq [force : BOOLEAN, again : BOOLEAN]
  /\ MaxRequests \in Nat /\ MaxFaults \in Nat

VARIABLES
  raw, out,   \* the cache: each sheep's "none", "torn" or "whole" file
  inbox,      \* the waiting genomes, likewise
  job,        \* the worker's claim, or None
  catalog,
  made,       \* names random_filename has given
  manifest,   \* sheep cron may pick
  pc, req,    \* next step of each seeder, and its request
  ans,        \* its answers so far, the last for each sheep
  requests, faults,
  died,       \* history: names a seeder died on, left half made, or failed to write
  beside,     \* history: names two seeders had in hand together
  gap,        \* history: names staged while a job had them, or about to be
              \* staged when it ended
  asked,      \* history: catalogued names taken up with --no-skip-catalog
  twice,      \* history: sheep rendered again
  cutOff      \* history: requests that ended with an exception

cache   == <<raw, out>>
world   == <<job, catalog, made>>
asking  == <<pc, req, ans>>
bounds  == <<requests, faults>>
history == <<died, beside, gap, asked, twice, cutOff>>
vars == <<cache, inbox, world, manifest, asking, bounds, history>>

Form == {"none", "torn", "whole"}
NoAnswer == [s \in Sheep |-> "none"]
Idle == [kind |-> "none", todo |-> <<>>, count |-> 0, force |-> FALSE, again |-> FALSE,
         now |-> None]

\* pick_random: without repetition
Orders(S) == {f \in [1 .. Cardinality(S) -> S] : \A i, j \in DOMAIN f : f[i] = f[j] => i = j}

Now(p)    == req[p].now
Goto(p, from, to) == pc[p] = from /\ pc' = [pc EXCEPT ![p] = to]

\* Somebody has name x open for writing in the inbox.
Copying(x) == {p \in Seeders : pc[p] \in {"copying", "generating"} /\ Now(p) = x}

-----------------------------------------------------------------------------
(* Requests.                                                               *)

Ask(p, r) ==
  /\ Goto(p, "idle", "next")
  /\ requests < MaxRequests /\ requests' = requests + 1
  /\ req' = [req EXCEPT ![p] = r]
  /\ cutOff' = cutOff \ {p}
  /\ UNCHANGED <<cache, inbox, world, manifest, ans, faults, died, beside, gap, asked, twice>>

\* --sheep and --from-file; PATH arguments and --samples
Request(p) ==
  \E l \in Lists, k \in {"named", "paths"}, opt \in Options :
     Ask(p, [Idle EXCEPT !.kind = k, !.todo = l, !.force = opt.force, !.again = opt.again])

\* --archive: candidates in random order until one (fetch_count) is staged
Archive(p) ==
  \E o \in Orders(manifest), opt \in Options :
     Ask(p, [Idle EXCEPT !.kind = "archive", !.todo = o, !.count = 1,
                         !.force = opt.force, !.again = opt.again])

\* --refresh-manifest: pages that fail are left out, the rest replaces the list.
Refresh(p) ==
  /\ pc[p] = "idle"
  /\ requests < MaxRequests /\ requests' = requests + 1
  /\ \E S \in SUBSET Sheep : manifest' = S
  /\ UNCHANGED <<cache, inbox, world, asking, faults, history>>

\* Fault: named sheep are counted too.
AnswerCount(p, s, a) ==
  /\ ans' = [ans EXCEPT ![p][s] = a]
  /\ req' = [req EXCEPT ![p].todo = Tail(@), ![p].now = None,
                        ![p].count = IF a = "staged" THEN @ - 1 ELSE @]

Answer(p, s, a) ==
  /\ ans' = [ans EXCEPT ![p][s] = a]
  /\ req' = [req EXCEPT ![p].todo = Tail(@), ![p].now = None,
                        ![p].count = IF a = "staged" /\ @ > 0 THEN @ - 1 ELSE @]

\* The report is printed, or lost; the process ends.
Depart(p) ==
  /\ req' = [req EXCEPT ![p] = Idle]
  /\ ans' = [ans EXCEPT ![p] = NoAnswer]

Over(p) == req[p].todo = <<>> \/ (req[p].kind = "archive" /\ req[p].count = 0)

Finish(p) ==
  /\ Over(p) /\ Goto(p, "next", "idle")
  /\ Depart(p)
  /\ UNCHANGED <<cache, inbox, world, manifest, bounds, history>>

\* Only a list of ids is searched for second mentions.
Mentioned(p, s) == req[p].kind = "named" /\ ans[p][s] # "none"

Known(p, s) == (s \in catalog /\ ~req[p].again) \/ (inbox[s] # "none" /\ ~req[p].force)

\* "duplicate in this request", "catalog exists", "already in inbox"
Skip(p) ==
  /\ ~Over(p) /\ Goto(p, "next", "next")
  /\ LET s == Head(req[p].todo)
     IN (Mentioned(p, s) \/ Known(p, s)) /\ Answer(p, s, "skipped")
  /\ UNCHANGED <<cache, inbox, world, manifest, bounds, history>>

TakeUp(p, s) ==
  /\ req' = [req EXCEPT ![p].now = s]
  /\ beside' = IF \E q \in Seeders \ {p} : Now(q) = s THEN beside \cup {s} ELSE beside
  /\ asked' = IF s \in catalog /\ req[p].again THEN asked \cup {s} ELSE asked
  /\ UNCHANGED <<cache, inbox, world, manifest, ans, bounds, died, gap, twice, cutOff>>

\* Fault: the catalog is not consulted.
BeginAnyway(p) ==
  /\ ~Over(p) /\ Goto(p, "next", IF req[p].kind = "paths" THEN "copy" ELSE "cache")
  /\ ~Mentioned(p, Head(req[p].todo))
  /\ TakeUp(p, Head(req[p].todo))

Begin(p) ==
  /\ ~Over(p) /\ Goto(p, "next", IF req[p].kind = "paths" THEN "copy" ELSE "cache")
  /\ LET s == Head(req[p].todo)
     IN ~Mentioned(p, s) /\ ~Known(p, s) /\ TakeUp(p, s)

-----------------------------------------------------------------------------
(* materialize_sheep.                                                      *)

\* A file of more than 32 bytes counts as cached, whatever is in it.
UseCache(p) ==
  /\ Goto(p, "cache", CASE out[Now(p)] # "none" -> "copy"
                        [] out[Now(p)] = "none" /\ raw[Now(p)] = "whole" -> "port"
                        [] out[Now(p)] = "none" /\ raw[Now(p)] = "torn" -> "failed"
                        [] OTHER -> "fetch")
  /\ UNCHANGED <<cache, inbox, world, manifest, req, ans, bounds, history>>

\* fetch_flam3 tries the archive, the spex link and the mirrors.
Fetch(p) ==
  /\ pc[p] = "fetch" /\ \E to \in {"raw", "failed"} : Goto(p, "fetch", to)
  /\ raw' = IF pc'[p] = "raw" THEN [raw EXCEPT ![Now(p)] = "torn"] ELSE raw
  /\ UNCHANGED <<out, inbox, world, manifest, req, ans, bounds, history>>

WriteRaw(p) ==
  /\ Goto(p, "raw", "port")
  /\ raw' = [raw EXCEPT ![Now(p)] = "whole"]
  /\ UNCHANGED <<out, inbox, world, manifest, req, ans, bounds, history>>

\* Sheep tax and TV-port may reject the genome.
Port(p) ==
  /\ pc[p] = "port" /\ \E to \in {"out", "failed"} : Goto(p, "port", to)
  /\ out' = IF pc'[p] = "out" THEN [out EXCEPT ![Now(p)] = "torn"] ELSE out
  /\ UNCHANGED <<raw, inbox, world, manifest, req, ans, bounds, history>>

\* Fault: the ported genome is not written to its end.
WriteHalf(p) ==
  /\ Goto(p, "out", "copy")
  /\ UNCHANGED <<cache, inbox, world, manifest, req, ans, bounds, history>>

WriteOut(p) ==
  /\ Goto(p, "out", "copy")
  /\ out' = [out EXCEPT ![Now(p)] = "whole"]
  /\ UNCHANGED <<raw, inbox, world, manifest, req, ans, bounds, history>>

\* write_bytes fails part way, say on a full disk: caught like a failing fetch, and
\* what it wrote stays.
WriteFails(p) ==
  /\ faults < MaxFaults /\ faults' = faults + 1
  /\ Goto(p, "raw", "failed") \/ Goto(p, "out", "failed")
  /\ died' = died \cup {Now(p)}
  /\ UNCHANGED <<cache, inbox, world, manifest, req, ans, requests, beside, gap, asked, twice,
                 cutOff>>

\* Recorded, and the list goes on.
Failed(p) ==
  /\ Goto(p, "failed", "next")
  /\ Answer(p, Now(p), "failed")
  /\ UNCHANGED <<cache, inbox, world, manifest, bounds, history>>

Materialize(p) == UseCache(p) \/ Fetch(p) \/ WriteRaw(p) \/ Port(p) \/ WriteOut(p) \/ Failed(p)

-----------------------------------------------------------------------------
(* Into the inbox.                                                         *)

\* stage_file finds the name taken by now.
Taken(p) ==
  /\ Goto(p, "copy", "next")
  /\ inbox[Now(p)] # "none" /\ ~req[p].force
  /\ Answer(p, Now(p), IF req[p].kind = "named" THEN "failed" ELSE "skipped")
  /\ UNCHANGED <<cache, inbox, world, manifest, bounds, history>>

\* shutil.copy2 opens the final name.
Open(p) ==
  /\ Goto(p, "copy", "copying")
  /\ inbox[Now(p)] = "none" \/ req[p].force
  /\ inbox' = [inbox EXCEPT ![Now(p)] = "torn"]
  /\ gap' = IF job # None /\ job.name = Now(p) THEN gap \cup {Now(p)} ELSE gap
  /\ UNCHANGED <<cache, world, manifest, req, ans, bounds, died, beside, asked, twice, cutOff>>

Written(p) ==
  IF Copying(Now(p)) = {p} /\ (req[p].kind \in {"paths", "generate"} \/ out[Now(p)] = "whole")
  THEN "whole" ELSE "torn"

\* The open file follows a claim into the job directory.
Close(p) ==
  IF inbox[Now(p)] # "none"
  THEN inbox' = [inbox EXCEPT ![Now(p)] = Written(p)] /\ UNCHANGED job
  ELSE /\ job' = IF job # None /\ job.name = Now(p) THEN [job EXCEPT !.form = Written(p)] ELSE job
       /\ UNCHANGED inbox

\* Fault: a claim in between goes unnoticed, and the name is never answered for.
EndCopyMute(p) ==
  /\ Goto(p, "copying", "next") /\ Close(p)
  /\ req' = [req EXCEPT ![p].todo = Tail(@), ![p].now = None]
  /\ UNCHANGED <<cache, catalog, made, manifest, ans, bounds, history>>

\* ... and stamp_inbox_arrival
EndCopy(p) ==
  /\ Goto(p, "copying", "next")
  /\ inbox[Now(p)] # "none" /\ Close(p)
  /\ Answer(p, Now(p), "staged")
  /\ UNCHANGED <<cache, catalog, made, manifest, bounds, history>>

\* copystat or stat finds no file, or flam3-genome fails: nothing catches it.
Raise(p) ==
  /\ Depart(p)
  /\ cutOff' = cutOff \cup {p}
  /\ UNCHANGED <<cache, catalog, made, manifest, bounds, died, beside, gap, asked, twice>>

LoseCopy(p) ==
  /\ Goto(p, "copying", "idle")
  /\ inbox[Now(p)] = "none" /\ Close(p)
  /\ Raise(p)

\* generate_random and mutate_seed: the tool writes straight into the inbox.
Generate(p) ==
  /\ Goto(p, "idle", "generating")
  /\ requests < MaxRequests /\ requests' = requests + 1
  /\ \E x \in Fresh \ made :
       /\ made' = made \cup {x}
       /\ inbox' = [inbox EXCEPT ![x] = "torn"]
       /\ req' = [req EXCEPT ![p] = [Idle EXCEPT !.kind = "generate", !.now = x]]
  /\ cutOff' = cutOff \ {p}
  /\ UNCHANGED <<cache, job, catalog, manifest, ans, faults, died, beside, gap, asked, twice>>

EndGenerate(p) ==
  /\ Goto(p, "generating", "idle")
  /\ inbox[Now(p)] # "none" /\ Close(p)
  /\ req' = [req EXCEPT ![p] = Idle]
  /\ UNCHANGED <<cache, catalog, made, manifest, ans, bounds, history>>

LoseGenerated(p) ==
  /\ Goto(p, "generating", "idle")
  /\ inbox[Now(p)] = "none" /\ Close(p)
  /\ Raise(p)

\* An empty genome is removed; what a failed tool wrote is not.
GenerateFails(p) ==
  /\ faults < MaxFaults /\ faults' = faults + 1
  /\ Goto(p, "generating", "idle")
  /\ inbox' \in {inbox, [inbox EXCEPT ![Now(p)] = "none"]}
  /\ died' = died \cup {Now(p)}
  /\ req' = [req EXCEPT ![p] = Idle] /\ cutOff' = cutOff \cup {p}
  /\ UNCHANGED <<cache, world, manifest, ans, requests, beside, gap, asked, twice>>

Seeder(p) == \/ Finish(p) \/ Skip(p) \/ Begin(p) \/ Materialize(p)
             \/ Taken(p) \/ Open(p) \/ EndCopy(p) \/ LoseCopy(p)
             \/ EndGenerate(p) \/ LoseGenerated(p)

\* Killed, or an error nothing catches: one of copy2's while it copies into the inbox,
\* for instance, which is called outside the try.
Die(p) ==
  /\ pc[p] # "idle" /\ faults < MaxFaults /\ faults' = faults + 1
  /\ pc' = [pc EXCEPT ![p] = "idle"]
  /\ Depart(p)
  /\ died' = died \cup ({Now(p)} \ {None})
  /\ cutOff' = cutOff \cup {p}
  /\ UNCHANGED <<cache, inbox, world, manifest, requests, beside, gap, asked, twice>>

-----------------------------------------------------------------------------
(* The worker.                                                             *)

Claim(x) ==
  /\ job = None /\ inbox[x] # "none"
  /\ job' = [name |-> x, form |-> inbox[x], taxed |-> FALSE]
  /\ inbox' = [inbox EXCEPT ![x] = "none"]
  /\ UNCHANGED <<cache, catalog, made, manifest, asking, bounds, history>>

\* The sheep tax rejects what does not parse: such a genome goes to quarantine,
\* where no seeder looks.
Tax ==
  /\ job # None /\ ~job.taxed
  /\ job' = IF job.form = "whole" THEN [job EXCEPT !.taxed = TRUE] ELSE None
  /\ UNCHANGED <<cache, inbox, catalog, made, manifest, asking, bounds, history>>

Ingest ==
  /\ job # None /\ job.taxed
  /\ job' = None
  /\ catalog' = catalog \cup {job.name}
  /\ twice' = IF job.name \in catalog THEN twice \cup {job.name} ELSE twice
  /\ gap' = IF \E p \in Seeders : Now(p) = job.name THEN gap \cup {job.name} ELSE gap
  /\ UNCHANGED <<cache, inbox, made, manifest, asking, bounds, died, beside, asked, cutOff>>

Reject ==
  /\ job # None /\ job.taxed
  /\ job' = None
  /\ UNCHANGED <<cache, inbox, catalog, made, manifest, asking, bounds, history>>

Process == Tax \/ Ingest \/ Reject

-----------------------------------------------------------------------------

Init ==
  /\ raw = [s \in Sheep |-> "none"] /\ out = raw
  /\ inbox = [x \in Names |-> "none"]
  /\ job = None /\ catalog = {} /\ made = {}
  /\ manifest = Sheep
  /\ pc = [p \in Seeders |-> "idle"] /\ req = [p \in Seeders |-> Idle]
  /\ ans = [p \in Seeders |-> NoAnswer]
  /\ requests = 0 /\ faults = 0
  /\ died = {} /\ beside = {} /\ gap = {} /\ asked = {} /\ twice = {} /\ cutOff = {}

Start(p) == Request(p) \/ Archive(p) \/ Refresh(p) \/ Generate(p)

Next == \/ Process \/ \E x \in Names : Claim(x)
        \/ \E p \in Seeders : Start(p) \/ Seeder(p) \/ Die(p) \/ GenerateFails(p)
                                \/ WriteFails(p)

Spec == Init /\ [][Next]_vars

-----------------------------------------------------------------------------

TypeOK ==
  /\ raw \in [Sheep -> Form] /\ out \in [Sheep -> Form] /\ inbox \in [Names -> Form]
  /\ job \in {None} \cup Claims
  /\ made \subseteq Fresh /\ {catalog, died, beside, gap, asked, twice} \subseteq SUBSET Names
  /\ manifest \subseteq Sheep /\ cutOff \subseteq Seeders
  /\ pc \in [Seeders -> {"idle", "next", "cache", "fetch", "raw", "port", "out",
                         "failed", "copy", "copying", "generating"}]
  /\ \A p \in Seeders :
       /\ req[p].todo \in Seq(Sheep) /\ req[p].now \in Names \cup {None}
       /\ req[p].count \in 0 .. 1
  /\ ans \in [Seeders -> [Sheep -> {"none", "staged", "skipped", "failed"}]]
  /\ requests \in 0 .. MaxRequests /\ faults \in 0 .. MaxFaults

Writing(at, s) == \E p \in Seeders : pc[p] = at /\ Now(p) = s

\* A torn file that nobody is writing means that a seeder died on that name, that
\* a write of it failed, or that two seeders worked on it side by side; then it stays
\* torn in the cache (archive_seed.py:411), but nothing else leaves one.
TornOnlyByFault ==
  \A s \in Sheep \ (died \cup beside) :
     /\ raw[s] = "torn" => Writing("raw", s)
     /\ out[s] = "torn" => Writing("out", s)
     /\ inbox[s] = "torn" => Writing("copying", s)

\* A sheep is rendered again only if a request said --no-skip-catalog when its
\* name was in the catalog, or it was staged while its own job was running, or
\* ended between the check and the copy: the catalog and the inbox are asked, the
\* worker is not (seed_inbox.py:202, 304, 374).
RenderedTwiceOnlyThroughTheGap == twice \subseteq gap \cup asked

Listed(p) == {req[p].todo[i] : i \in DOMAIN req[p].todo}

\* A request goes through its whole list: when it ends, and nothing cut it off,
\* each id it was given has one answer (seed_inbox.py:248).
EveryIdIsAnswered ==
  [][\A p \in Seeders, s \in Sheep :
       (req[p].kind = "named" /\ s \in Listed(p)) =>
          \/ s \in Listed(p)' \/ (ans[p][s])' # "none" \/ p \in cutOff']_vars

\* "The command prints `staged`, `skip`, or `fail` for each id" (USER_GUIDE_AND_
\* RUNBOOK.md:142).  When the worker claims a genome while it is being copied,
\* copy2 raises, and the rest of the list goes unanswered: violated.
EachIdIsPrinted ==
  [][\A p \in Seeders, s \in Sheep :
       (req[p].kind = "named" /\ s \in Listed(p) /\ faults' = 0) =>
          s \in Listed(p)' \/ (ans[p][s])' # "none"]_vars

=============================================================================
