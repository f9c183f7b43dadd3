# TLA+ models of jellyflam3-server

jellyflam3-server renders flam3 genomes ("sheep") into looping MP4s on a small
household machine and serves them through Jellyfin. Its core is a pipeline of
Python processes that share files: seeders and curators drop genomes into an
inbox, one furnace worker renders them while nobody watches TV, and a number of
small commands inspect, repair, prune and share the result. Nearly every state
change is a file operation, nearly every process may be restarted at any time
(a Pi, systemd, cron), and the only locks are rename and a few lock files. The
models are about that: orders of file operations, and crashes between them.

## Inventory

| Component | State | Operations | Interacts through |
|---|---|---|---|
| Inbox FIFO (`inbox_queue.py`) | `inbox_fifo.json`: name → (seq, dev, ino), `next_seq` | stamp, sync, next | inbox directory, with every stager and the worker |
| Staging (`seed_inbox.py`, `shears.py` add/modify, `breed*.py`, `sheep_tuple.py`, `peering.py` promote, `refactor_actions.py`) | inbox files, inode times | copy or move, forced overwrite, stamp | inbox |
| Furnace worker (`worker.py`) | `jobs/<id>/job.json`, claimed genome, `tv_optimized.flam3`, frames, catalog MP4 and `.prev`, sidecar, `genomes_done`, `genomes_quarantine` | poll, claim, tax, TV port, gates, render, encode, install, archive, quarantine | inbox, idle gate, drain flag, Jellyfin, job recovery |
| Job recovery (`job_recovery.py`) | the same job directories | startup reclaim, CLI reclaim | `/proc`, job records, catalog, inbox |
| Idle gate (`idle_gate.py`) | status file; `_seen_block`, `_clear_since`, `_last_open` in memory | fetch, evaluate, write, freeze/thaw; `--once` | Jellyfin sessions, systemd freezer, every reader of `is_gate_open` |
| Worker drain (`worker_drain.py`) | drain flag file | request, cancel, status, wait | flag and job records, with the worker and an operator |
| Hammer (`hammer.py`) | none | stop the worker, remove a tier | ledger, inbox, status file, catalog |
| Shears (`shears.py`) | none | delete cascade, sweep, modify | inbox, catalog, jobs, Jellyfin |
| Votes and sidecars (`sheep_votes.py`, `display_profile_sink.py`, `stills.py`, `sheep_naming.py`, `backfill_posters.py`, `refactor_history.py`) | catalog sidecars, lock files | vote, sweep, name, record, merge reserved keys | `sidecar_lock`, and writers that do not take it |
| Shared votes (`share_votes.py`, `share_security.py`) | key pair, trust store, signatures | publish voted genomes once each, sign, hash, verify, gen-keys, trust-key | sidecars, peering |
| Display profiles (`display_profiles.py`) | one file per client and device | overwrite | request threads |
| Breeding (`breed.py`, `breed_idle.py`) | pedigree sidecars, history | breed, stage a pair, adopt, park, release, reap | inbox, worker, recovery |
| Rotation and disk (`library_rotate.py`, `library_disk.py`) | none | retire the oldest sheep of a full library | catalog, worker, Jellyfin |
| Archive (`archive_seed.py`) | manifest, cache of raw and ported genomes | refresh, fetch, port | seeders |
| Peering (`peering.py`) | `OPT_IN`, share-out, the shared folder | opt in, opt out, mesh-join, publish, promote | Syncthing, Tailscale, inbox |
| Tailscale watchdog (`tailscale_watch.py`) | cooldown and wedge stamps | heal ladder, driver reload, drain, reboot | systemd, Wi-Fi, drain flag |
| Refactor (`refactor*.py`) | history, previews | scan, quarantine, apply, batch | inbox, catalog, sidecars |
| Names, durations, links, quality, tax | none | pure functions | worker, seeders |
| Roku and Kodi clients | session state | poll, play, re-poll dead items | Jellyfin |
| Reports, host helpers, scripts | none | read only | — |

The hard behaviours, and what makes each component correct:

* **Interleaving without locks.** The worker keeps a *path* from a scan through
  a gate wait that may take hours, and acts on it when another file may have
  that name. Correct means first come first served, and that no genome is
  archived, quarantined or deleted in the place of another.
* **Crashes between two file operations.** Claim, record, quarantine, archive,
  rotate and install are separate steps. Correct means that a genome that landed
  is never lost, that recovery finds it again, and that a sheep once in the
  flock is never without a complete MP4.
* **Time, staleness and restarts.** The gate lives in a file whose writer may be
  dead. Correct means that it fails closed, keeps its delay over restarts, opens
  again in the end, and does not leave the worker frozen.
* **Controls that race.** Drain, gate and freezer are looked at one after the
  other. Correct means that a drain stops claiming, "idle" means idle, and
  resuming resumes.
* **Read-modify-write of sidecars**, by some under a lock and by others not.
  Correct means that those who lock do not write over one another, that the
  tally is that of the votes, and that a human's alias stays.
* **Retries with cooldowns**, and an operator who changes his mind beside them.
  Correct means that a heal never acts heavily twice within its cooldown, never
  costs what it is to restore, gets through when the network is back, and that
  an opt-out stands.
* **Look first, remove later.** Shears, refactor, Hammer and the rotation list
  files and then remove them while the worker moves them. Correct means that
  what is deleted stays deleted, and that nothing but a deletion deletes.
* **Companion files.** A pedigree sidecar, a signature and a hash travel beside
  their genome, each by a file operation of its own. Correct means that a
  lineage is never lost, and that a genome is only rendered if somebody vouched
  for exactly this one, whatever mixture of files arrives.

## Modules

| Module | Models |
|---|---|
| `InboxFifo` | inbox directory, ledger, stagers, and the worker's scan and claim |
| `ArrivalQueue` | what the ledger promises: a set that waits and the order it is served in |
| `Furnace` | one file operation at a time: worker, crash, recovery |
| `IdleGate` | supervisors, status file, freezer, time |
| `GateContract` | what readers of the gate are promised |
| `Drain` | the poll loop with drain flag, gate and freezer, and the drain CLI |
| `Sidecar` | one catalog sidecar and everyone who reads, changes and writes it |
| `Watchdog` | opt-in, opt-out and the heal ladder, with network, services and boots |
| `Curate` | the commands that take sheep away, beside the worker that publishes them |
| `Breed` | breeders, the worker and its recovery, and where each pedigree sidecar is |
| `Seed` | seeders, the archive's cache and manifest, and a worker that claims |
| `PeerShare` | publish, the shared folder, keys, and promote on several furnaces |
| `MCInboxFifo`, `MCFurnace`, `MCIdleGate`, `MCCurate`, `MCSeed` | instances and symmetry |
| `ClaimProofs` (InboxFifo's and IdleGate's), `FurnaceProofs`, `SidecarProofs`, `WatchdogProofs` (Drain's too), `BreedProofs`, `SeedProofs`, `CurateProofs`, `PeerShareProofs` | theorems |

Operators whose comment says *Fault* are variants of a definition with a
plausible bug. No specification uses them; each shows, when put in the place of
the definition it follows, that a property is sensitive to the code it is about.

### InboxFifo

A directory entry is a name bound to an inode; the inode carries `ctime` and
`mtime`. `Land`, `CopyOver` and `Stamp` are `stage_file` and
`stamp_inbox_arrival`, two steps that the worker may come between. Each stager has
the name in its `hand` and its own `last` stamp: `StampOf` never gives one process
a stamp twice or a lower one, so that its stamps run ahead of a clock that was set
back. One reading of the clock stands for `time_ns` and the change time the kernel
sets right after it. `Quit` is the end of a stager, with or without its stamp, and
so also a plain `cp`. `Withdraw` is what `shears` and `hammer` do, `LoseLedger` a removed or unreadable ledger.
`Sync` is the whole of `sync_inbox_fifo` with its sort, append, repair and
save. `head` is `queued[0]`, kept from the scan until `Claim`, which takes
whatever has that name.

Three constants say how hostile the world is: `InodeReuse`, `ClockSteps`,
`TouchHead` (commands may replace or remove the head while it waits). With
`InodeReuse` a new file may inherit a place, so the theorems about order exclude
it. With `TouchHead` a claim may take a file that landed last (see the table
below); the theorems about numbers and overtaking allow it.

*Bounds.* Every property compares two files, so there are two names, and a third
inode for a replacement; with two stagers their stamps mix or come from one
process. The clock may go back and forth between two readings, and `MaxTime = 1`
gives all comparisons, ties included; `MaxStamp = 2` lets a stamp run ahead of
it. Names, inodes and stagers are symmetric.

*What the run shows.* A scan queues its files in the order of their last change
where the clock moved on, and in any case the stamps of one process
(`BatchInArrivalOrder`). Without that condition it does not hold: after a step
back of the clock a stamp of `_last_stamp_ns + 1` lies in the future, and a file
another process lands later is queued before it.

### Furnace

A genome is a content, a base the catalog id in its name, so a sheep and its
re-furnace are two genomes with one base. A job directory is the functions
`rec`, `src`, `base`, `file`, `tv`, `frames` on job ids. `pc` names the worker's
next file operation in the order of `process_genome`, whose `except` block and
the handler in `poll_inbox` follow from `wFailed` and `postFail`. A stage that
only computes either goes on or raises. `Crash` may come at every step and may
tear the `job.json` being written. With `DiskErrors` a write of `job.json` may
also fail under a worker that lives on (`WriteJobFails`): on the way to a result
that is one more failure of the job, but where the end of the job is written
nothing comes after it, so the record stays in flight and the genome in the job
directory while the worker polls on. `unwritten` remembers such jobs. Then `ReclaimBegin`, `ReclaimStage` and
`ReclaimWrite` take the in-flight records one by one; `Ready` starts the poll.
The same three steps run for the recovery CLI beside a live worker when
`RecoveryCli` is TRUE. An error recovery does not catch ends the process, and is a
`Crash`.

Choice of the head is arbitrary here (InboxFifo has the order), and the gate is
left out (Drain and IdleGate have it). The pedigree sidecar is in Breed and the
contents of the catalog sidecar in Sidecar; jobs whose source has no base name
are not modelled.
Quarantine and done hold contents, since both add a suffix when a name is taken.

*Bounds.* Two genomes of one base and three jobs: either genome may be tried
again after the other. Two crashes allow one in the recovery from another.
`Furnace_crash` stays on one file system and has disk errors; `Furnace_beside`
copies across file systems, runs the recovery CLI beside the worker, and has
fairness, so it does with one crash and without disk errors. With `Restage` FALSE
no genome is staged again while the worker, or a record in flight, has its name. Both say `CHECK_DEADLOCK FALSE` because a behaviour really
ends: all genomes have landed, none waits, and the worker would sleep for ever.

*What the runs show.* No step erases a genome (`NoGenomeErased`) as long as no
name is staged again while its job runs; after every crash a genome is where an
operator looks for it, or in a job directory for one of the reasons `LeftBehind`
lists (`StrandedOnlyIfLeftBehind`); a record stays in flight only if a write of it
failed, so a drain never waits for a dead job but for such a one; the flock copy survives every failure of a
re-furnace on one file system; MP4 and sidecar are of one genome except after
the crashes and errors that `SidecarMatchesMp4` names; `genomes_done` holds
rendered genomes only. Under fairness every genome settles, so a genome that
always fails does not block the queue.

### IdleGate and GateContract

Time stamps are ages, capped above the largest value they are compared with.
`Fetch` and `Decide` are separate: a session may start and a crash may come
between Jellyfin's answer and the write. `Start` is the constructor with
`_hydrate_from_status`. `MaybeFreeze` keeps `_last_open`, which a restart
forgets. The clear time is a whole number of ticks, so the truncation to whole
seconds (idle_gate.py:267) has no counterpart. `quiet` and `watching` are history variables: time since a block was
last reported, and how long a blocking session has lasted.

*Bounds.* `Poll = 2` ticks and `MaxFetch = 1` separate "before the poll", "while
it is answered" and "while it sleeps"; `Delay = 7` is longer than `3 * Poll`, as
the default 600 s is longer than three polls of 20 s, so a file can go stale in
the middle of a delay; the run with faults uses 3 to keep it small. Two
crashes let a restart die in the delay it hydrated.

`FailsClosed` also holds in `IdleGate_faults`, where everything is allowed: a
`--once` run, a deleted status file, a clock set forward, a failing systemctl.
`DelayIsKept` does not: the table below has the reasons. A clock set *back* makes a stale file look fresh; it is not modelled.

GateContract is an open/closed flag that may close at any time and opens only
after a full delay; `ImplementsGateContract` and theorem `Implements` map its
`open` to `is_gate_open`.

### Drain

`pc` follows `poll_inbox` from the top through its three looks at the flag into
`process_genome`, whose preflight waits for the gate with no record on disk.
A job is the sequence of writes of its `job.json`, since that is all the drain
CLI sees; after the last (`Finish`) comes the `Tail`, in which the worker still
removes frames and archives or quarantines the genome. A write may fail: the first
refuses the job, and one that fails at the end leaves a record in flight for ever
(`FinishFails`, `ghost`). The freezer stops the worker at any step. `Switch` is one
systemctl per change of the gate: `_last_open` is set before it runs
(idle_gate.py:281-294), so one that fails is not tried again, and the worker may
stay frozen under an open gate (`Stuck`). The operator requests, cancels, waits
and, told "idle", restarts.

*Bounds.* Two genomes waiting show a second claim; two stages show a job that
goes on after a look. With `TornReads` the wait may read job.json while it is
being rewritten; `WriteErrors` and `SystemctlFails` are TRUE as well.

*What the run shows.* After a request the worker claims one more genome at most.
"Idle" after a job was seen means that the end of the job is written and no other
is begun; the worker may still be in its `Tail`. Unless thaws keep failing, a wait
ends or meets a ghost, and a cancelled drain lets the worker claim again.

### Sidecar

One file, its flock, and the MP4 that says whether the sheep is in the flock. A
content is the tally and the set of blocks that are present. Voters are the
request threads of `display_profile_sink` (they die together), sweepers the
`sheep_votes sweep` command; both look for the file, wait for the lock, read,
and replace it through a temporary file (`LockedRead`, `Replace`), or give up.
Editors stand for the commands that read, change and write without the lock:
"naming" also for clearing an alias and its backfill, "stills" for
`backfill_posters` and the worker's own call of `extract_stills`, "refactor" for
the history and for breeding's rewrite of lineage. `write_text` is two steps,
`Open` (truncate) and `Write`. Whoever has the file open when a vote replaces it
writes to a file without a name (`Detached`). The ingest reads the reserved
blocks once and the refactor history later, after posters and the wait for
Jellyfin. Readers that use `load_sidecar` take a torn file for an empty one
(`Lenient`), the others raise.

`serial` is the file that the finished updates would have made one after
another; `since` and `clobbers` tell who wrote over a change he had not read;
`blind` and `stubbed` tell who took a torn file for empty. The code loses
updates, so the exact statements have these as their premise: what remains must
not be lost for any *other* reason. The table below shows the promises without
the premise.

*Bounds.* Two voters and a sweep meet in the lock in every order; three requests
let a voter vote again. Two changes are an edit beside an ingest, two editors,
or a deletion under either; `changes` counts their beginnings, so each may
interleave freely with the votes. One crash can hit any of them. The run says
`CHECK_DEADLOCK FALSE` because it ends when nobody asks for anything.

### Watchdog

One furnace: its network (`net`, with an associated but silent Wi-Fi, none, or a
cable), tailscaled and its login, Syncthing, the `OPT_IN` file and the two stamp
files. `op` names the operator's next step in the order of `opt_in` and
`opt_out`, `wd` the watchdog's next step in that of `heal_opt_in_share` and
`heal_lan`. `seen` and `lan` are what the watchdog read earlier and acts on
later: the readiness and the LAN of its start, the WAN of its last look, and
whether this heal may still act heavily. Cron's flock admits one watchdog; the
operator has no lock, so his steps fall between any two of it. `Boot` brings
back only what is enabled, and leaves stamps, drain flag and login.

*Bounds.* The cooldown and the age that allows a reboot are one tick, cron's
period: stamps are compared with these only, so "within" and "after" are both
there. `MaxFaults = 2` lets a network fail and come back, or a service fail
beside it.

*What the run shows.* An opt-out stands over boots and later cron runs unless it
met a running heal or a stopped tailscaled (`OptOutStands`); heavy acts on the
Wi-Fi are a cooldown apart; a heal does not log out a node by itself; and an
opted-in furnace with a network is shared again in the end.

### Curate

The state is which pools hold a genome of each sheep (`at`; `spare` for one
under a name with a uuid), the catalog as a sequence in order of mtime (`flock`),
its sidecars, `.mp4.prev` files and parked copies. Each process (the operator's
command, the rotation) keeps a `list` of files from its look to its removals.
`ListPools` and `ListRest` are `discover_cascade`, `Cut` is one removal of
`apply_delete`, in the order of its list. A sheep may be a tuple, with the sheep
it leads `From` and `To`: the cascade of either takes the genomes and the
publications of the tuple along (`KinFiles`, `CutKin`), and `along` counts the MP4s
a rotation lost that way. `Score`, `MoveGenome`, `ParkMp4` and
`ParkSide` are `run_quarantine`, `Apply` is `run_apply`, `Batch` and `Sweep`
loop over what their scan found; a batch judges each sheep when it comes to it,
where the code goes by the verdict of its scan's row (refactor_actions.py:585),
on which no property depends. `Wipe` is one class of a Hammer tier, with the
worker stopped before it. The rotation counts its candidates once. The worker is
that of Furnace as far as these files go, and gives up when its job directory
has gone. `crossed`, `thin` and `gone` are history: what else happened to a
sheep during a command.

*Bounds.* A healthy sheep with a genome in git, one without that is a candidate,
and the tuple between them; `Floor = 1` is reached with a rotation of either. The
published sheep start in one of two orders of age (`Ages`): as they were made, the
tuple last, and with one parent rendered again after it. One
command (which a batch and a sweep spread over all three) meets a rotation and
the worker; one landing lets a sheep come again.

*What the run shows.* A deleted sheep stays deleted unless the worker had it or
it landed meanwhile; a rotation goes below its floor only by tuples that go with
a parent, which it counts as one removal with it, unless somebody else takes an
MP4 beside it; the last genome and the last MP4 of a sheep go only by a delete,
a sweep, a rotation or Hammer, of the sheep or of a parent of the tuple (with the
one exception the property names); and a
sweep or a wipe leaves clean what it was to clean. A batch may park a sheep whose
genome is with the worker at that moment, since the scan finds it in no pool.
A delete leaves the `.mp4.prev`, parked copies, and genomes under a name with a
uuid. `hammer --worker` removes the job trees (docs/phase3/07_JELLYFLAM3_HAMMER.md:56),
and with them the genome the worker had claimed.

### Breed

Genomes (`gen`) and pedigree sidecars (`side`) are in five places; `mp4` says
what the catalog knows. Breeders are the cron run, which decides on the inbox
count, and the command line, which does not; `Land` and `WritePedigree` are two
steps, since a child is in the inbox before its sidecar. `Take`, `Adopt`,
`Describe`, `Release` and `Park` are what the worker does with the sidecar,
among the other steps of a job; `Supersede`, `Requeue`, `Settle`, `Onto` and
`Mark` what recovery does. It queues a claimed genome again only when the prepared flam3
is beside it (`Optimize`, `rec = "ready"`; job_recovery.py:303); else genome and
sidecar stay in the job directory (`KeptTogether`). `Glob` and `ReapOne` the reap at startup. A pair
(`Tuples`) has no sidecar and may be written over while it waits.

*Bounds.* One child and one pair, one cron run and one operator, two crashes:
every statement is about one child, the pair competes for worker and inbox, and
the second crash may hit the recovery from the first.

*What the run shows.* A written lineage is never lost; when the worker rests it
is where somebody will find it, or in the inbox because it was written too late
for this start. A crash may take it from its genome (`Apart`): one before the
genome is prepared, or before the claim is on record, when the sidecar was still
in the inbox, whose recovery puts the sidecar alone into quarantine; and one
between the moves of genome and sidecar to their last directory. A catalogued child names its parents, unless a write failed or a
recovery was itself cut short, since `job_recovery.py:290` makes the record
final before it settles the lineage. That idle runs overfill the inbox by at most
one child each takes two of them to be interesting, and is proved and not run.

### Seed

Files are none, torn or whole. A request is a list worked through one by one:
skip what is known, use the cache, fetch, port, copy, and an answer for each
(`ans`). It may have `--force` (`force`) and `--no-skip-catalog` (`again`); a list of
ids, but no other, is searched for second mentions. A write into the cache that
fails is caught like a failing fetch and leaves what it wrote (`WriteFails`); an
error of `copy2` is not caught, and so one of the ways to `Die`. Ids that do not
parse, which are answered with "failed", and `--move` are left out. Copying is two steps, and the worker may claim the name between them;
an open file then follows into the job directory (`Close`), and `copystat`
raises (`LoseCopy`). A made-up name carries a time and a uuid, so none is given
twice (`made`). Cron's lock holds off another cron run only, so two seeders
may work beside each other.

*Bounds.* Two archive sheep and one generated name; lists of two, one of which
names a sheep twice; two seeders, which are symmetric, and two requests, so that
they meet or follow each other; each request with no option or with one of the
two, which are tested apart from each other (`Options`); one death or failing
write.

*What the run shows.* A torn file that nobody writes means a death, a failed
write or two seeders on one name (then a torn cache file of more than 32 bytes
stays and is used for ever); a sheep is rendered twice only if somebody asked for
it with `--no-skip-catalog`, or through the gap between the check and the job;
each id of a list is answered unless something cut the list off.

### PeerShare

`at` tells what is in the four directories of each furnace that matter:
`genomes_done` ("done"), share-out ("out"), the shared folder ("box") and the
worker's inbox ("work"), each with a genome, a signature and a hash. A genome is
a revision and whether the tax has cleaned it; a signature says of what and by
which key. Both sidecars are emptied before they are written (`Open`, `Write`;
share_security.py:304 and 331), so that one publish may stage what another has
open, and a publish that moves takes an open file along to share-out. `pub` is each publish process, `prom` each promote. `Deliver` is
Syncthing: one file at a time, a change for a newer version, either side on a
tie. `HandOver` and `Drop` are people; the worker only takes from the inbox.
`priv`, `pubkey` and `keying` are a key pair made in two steps. The code has no lock
there, and two gen-keys at once are not modelled; nor are `--skip-security`
(peering.py:880) and a furnace with share security disabled, which promote
without verification. A copy into share-out is one step.

A behaviour starts either before publishing or after it, with what publish can
leave in share-out: the two halves share only that directory, keys and links.

*Bounds.* Two furnaces, one of which sends and both of which receive; two
publish processes; two revisions and two keys, so that an old one can be mixed
with a new one; two copies into the folder, two commands, one fault.

*What the run shows.* The worker is given only what a publisher attested, byte
for byte or up to promote's own repair, unless the file was replaced under
promote (`OnlyAttestedIsRendered`); staged sidecars are about the staged genome
except for four named reasons (a death, a change of the genome, a signature that
could not be renewed, a copy of a sidecar that was open); a furnace trusts its own key unless gen-keys
died between its two files. What a reader should know beside it: a genome that
arrives before its sidecars is quarantined, moving out of a sendreceive folder
deletes at the other receivers, and a publish that dies after the copy of the
genome leaves one without sidecars in share-out for ever, for `skip_exists`.

### Fairness

* `Furnace`: weak fairness of worker and recovery together. systemd has
  `Restart=` for the worker, stages end or raise, and the gate opens again in
  the end. Crashes are bounded, so the worker gets through eventually.
* `IdleGate`: weak fairness of the unit's supervisor (`Restart=`, a loop that
  catches everything) and of time. A `--once` run owes nothing.
* `Drain`: strong fairness of the worker, which gate and freezer disable again
  and again: it looks at the gate every 15 s, and an open status stands for a poll
  of 20 s at least, so it cannot miss it for ever. Weak fairness of a wait that
  was begun, and of the gate's opening (nobody watches TV for ever), but not of a
  thaw, which the gate's opening only tries. Requests, cancels and arrivals are never owed.
* `Sidecar`: weak fairness of a request once begun, and strong fairness of its
  `flock`, which the kernel grants to a waiter of a lock that is free again and
  again. Writers without the lock owe nothing: no vote waits for them.
* `Watchdog`: weak fairness of the heal, which cron starts every five minutes
  while the share is not live and which always comes to its end, and of time.
  The operator and the network owe nothing; faults are bounded.

## Runs

Every run is expected to pass.

| Run | Shows |
|---|---|
| `InboxFifo` | arrival order in a scan, the longest waiting is claimed, refinement of `ArrivalQueue` |
| `Furnace_crash` | the safety properties above with two crashes and disk errors, failing writes of job.json included |
| `Furnace_beside` | recovery CLI beside the worker and copies across file systems: no ghost jobs, and every genome settles |
| `IdleGate` | delay, refinement of `GateContract`, and that gate and worker come back when it is quiet, with crashes and outages |
| `IdleGate_faults` | fail-closed with every fault at once |
| `Drain` | at most one more claim, idle after a job means its end is written, waits end and a cancel resumes unless thaws keep failing |
| `Sidecar` | tally and edits exact up to the named losses, every vote answered |
| `Watchdog` | opt-out stands, heavy acts spaced, logins kept, shared again when the network is back |
| `Curate` | deleted stays deleted, rotation floor up to tuples, only culls erase, cleaned is clean |
| `Breed` | lineage kept, findable, and in the catalog |
| `Seed` | torn files, double renders, and answers |
| `PeerShare` | attested genomes only, staged sidecars fit, own key trusted |

`TypeOK` is a run's invariant only in Curate and Seed; in the other modules it is
a theorem.

### Other sentences the code does not keep

The modules state more promises of the docs and docstrings than the runs check.
Each of these fails by a counterexample of a few steps when it is added, as an
INVARIANT or PROPERTY, to the named configuration with the constants changed as
given (and SYMMETRY removed):

| Property | Configuration | Sentence | Code |
|---|---|---|---|
| `ClaimsLongestWaiting` | `InboxFifo`, `TouchHead = TRUE` | docs/USER_GUIDE_AND_RUNBOOK.md:493 on FIFO order | the head is claimed by name after the gate, worker.py:1056 |
| `ReplacementGoesToTail` | `InboxFifo` | docs/glossary.md:126 "Later arrivals append at the tail, including [...] a same-name replacement" | a forced copy keeps the inode, inbox_queue.py:86 |
| `OrphanedIsRequeued` | `Furnace_crash` | docs/glossary.md:158 on orphaned jobs | job.json names the inbox path until the second write, worker.py:567, job_recovery.py:224 |
| `SupersededWasRendered` | `Furnace_crash` | job_recovery.py:7 on superseded jobs | a re-furnace has a catalog MP4 from the render it replaces, job_recovery.py:288 |
| `FailedIsQuarantined` | `Furnace_crash` | docs/phase1/05_RENDER_PIPELINE.md:66 "copies the claimed genome to `paths.genomes_quarantine`" | crash after state failed, worker.py:1000 |
| `IngestedIsArchived` | `Furnace_crash` | worker.py:14 "Successful genomes archive to genomes_done" | crash after state ingested, worker.py:990 |
| `DoneWasRendered` | `Furnace_crash`, `Restage = TRUE` | worker.py:496 "Move a successfully rendered inbox genome" | the inbox name is archived after a job, worker.py:1062 |
| `QuarantinedWasTried` | `Furnace_crash`, `Restage = TRUE` | worker.py:1067 "If claim never ran" | the inbox name is quarantined after any failure, worker.py:1068 |
| `NoGenomeErased` | `Furnace_crash`, `Restage = TRUE` | worker.py:163 "concurrent seeders cannot overwrite it" | copy, then unlink by name, worker.py:150 and 185 |
| `ReclaimsOnlyOwnerless` | `Furnace_crash`, `RecoveryCli = TRUE` | job_recovery.py:151 "True for in-flight jobs with no live owner" | only child processes count, job_recovery.py:157 |
| `FlockCopySurvives` | `Furnace_crash`, a third genome of the base, three jobs, `CrossDevice = TRUE`, `MaxCrashes = 1` | worker.py:107 "one prior generation is kept" | a torn copy is rotated over the last good MP4, worker.py:124 |
| `DelayIsKept` | `IdleGate_faults`, only the `--once` run, `MaxCrashes = 0` | docs/phase1/06_IDLE_GATE.md:11 "Resume only after `idle_delay_sec`" | a supervisor object of its own that has seen no block writes the same file, idle_gate.py:368 |
| `DelayIsKept` | `IdleGate_faults`, only `Hammer` | idle_gate.py:10 "stays closed for idle_delay_sec after the last block" | hammer.py:452 removes the file |
| `DelayIsKept` | `IdleGate_faults`, only `ClockJumps`, `Delay = 5` | docs/USER_GUIDE_AND_RUNBOOK.md:433 "Opens only after `idle_delay_sec`" | wall clock, idle_gate.py:266 |
| `FrozenOnlyWhileClosed` | `IdleGate_faults`, only `SystemctlFails` | configs/jellyflam3.yaml.example:124 "freeze/thaw of worker unit while gate closed" | a failed thaw is not tried again, idle_gate.py:287 |
| `IdleIsSafeToRestart` | `Drain` | docs/USER_GUIDE_AND_RUNBOOK.md:266 on restarting when idle | the preflight waits for the gate before the first record, worker.py:547, worker_drain.py:112; and the genome is archived or quarantined after the last, worker.py:1001 |
| `IngestKeepsVotes` | `Sidecar` | docs/phase1/07_LICENSE_AND_METADATA.md:165 "Loops keep `viewer_feedback` [...] across Shears-modify / re-furnace" | read at worker.py:932, written at 978 |
| `NeverCreatesOne` | `Sidecar` | sheep_votes.py:182 "Never create one" | a vote replaces a sidecar that was deleted since it was read, sheep_votes.py:308 |
| `NeverPartial` | `Sidecar` | sheep_votes.py:274 "readers never see a partial sidecar" | write_text of the other writers, stills.py:105 |
| `OptedOutRunsNothing` | `Watchdog` | peering.py:707 "Prefer logout so node does not rejoin on reboot without Opt In" | a failed opt-in leaves units and login, and a heal may run beside an opt-out, tailscale_watch.py:542 |
| `SweepSparesGenomes` | `Curate` | shears.py, `orphan_bases`: "no genome, or media without mp4" | a claimed genome counts as none, shears.py:586 |
| `QuarantineDeletesNothing` | `Curate` | refactor_actions.py, `run_quarantine`: "no deletes" | the copy in quarantine is removed before the move, which may fail, refactor_actions.py:175 |
| `FloorIsPlayable` | `Curate` | docs/phase4/06_LIBRARY_DISK_ROTATE.md:65 "Never delete the only remaining playable loop" | the cascade of a parent takes its tuples and counts as one, shears.py:491 |
| `LeftoversAreReaped` | `Breed` | breed.py:10 "Startup reaps leftovers whose genome is already gone" | no start looks into a job directory whose record is final |
| `EachIdIsPrinted` | `Seed` | docs/USER_GUIDE_AND_RUNBOOK.md:142 "The command prints `staged`, `skip`, or `fail` for each id" | copy2 raises when the worker claims meanwhile, seed_inbox.py:248 |
| `OwnRepairIsNotRefused` | `PeerShare`, `MaxPuts = 1`, `MaxFaults = 0` | peering.py:863 "Without ``--apply``, only lists candidates" | the tax repairs the file in place, peering.py:905, sheep_tax.py:389 |
| `StaleSignatureIsRemoved` | `PeerShare` | share_security.py:390 "Remove stale sig if we could not sign" | nothing is removed there |

`IdleAfterDrainingIsSafe` carries its exception in its statement: a wait that
reads `job.json` while it is rewritten in place takes the job for gone
(worker.py:204, job_recovery.py:89).

## Theorems

For every value of the constants, under the assumptions the theorem states.
`ClaimProofs` reasons about the ledger and about the gate, and so extends both;
for that IdleGate's `GateInit`, `GateNext` and `GateSpec` carry its name.

* **InboxFifo.** `TypeCorrect`; `SequenceNumbersUnique` from the invariant that
  all numbers are below `next_seq` and injective, with a lemma per part of a
  sync. `WaitingIsBounded` (no inode reuse): a new inode is never one the
  ledger remembers, so `Known` can only shrink between syncs, and a sync appends
  above everything. `ClaimsHead` (also with an untouched head): the head of the
  last scan stays the minimum of the known files until it is claimed.
  `BatchesAreOrdered` from `OrderInv`: what one process stamped later has the
  higher mtime, the ctime of a file since whose change the clock moved on is
  below that of every later one, and the key of the sort, the greater of the two,
  keeps either order.
  `IsArrivalQueue`, under the assumptions of `ClaimsHead`: every step of ledger
  and worker is a step of ArrivalQueue or a stutter. It rests on `ClaimsHead`'s
  invariant and on two names never having one inode (`OneName`): the ledger's
  numbers are the order `before`, a sync joins its batch behind all who wait,
  and a claim serves one whom nobody is before.
* **Furnace.** `TypeCorrect` with an invariant about what the worker holds at
  each step (`InHand`), without which `base[job]` and `file[job]` need not be
  well typed. `NoGhost`: outside startup a record is in flight only while the
  worker is at one of that job's steps, or after a write of it failed. `GenomesAreKept` (no re-stage during a
  job): before each unlink the copy that makes it safe exists. `FlockIsKept`
  (one file system): files keep their id and nothing is torn, and between the
  two renames of a rotation the complete MP4 is the one not being moved.
  Three more hold without the recovery CLI, which leaves one worker, and
  recovery only before it watches the inbox (`SoloInv`). `DoneIsRendered` (also
  no re-stage) from `DoneInv`: past the install the genome in hand is rendered,
  and past the claim nothing in the inbox has its name, which poll_inbox would
  archive unseen. `SidecarDescribes` from `DescribedInv`: what is wrong with a
  sidecar is accounted for by a record, and recovery that found no MP4 still
  has none to supersede with. `RecoveryIsComplete` (also no re-stage) from four
  invariants: every genome is settled or in the directory of a job that is in
  flight or left behind, the latter also where its last write failed, and between its two writes recovery has put the genome
  back. TLC finds each of the three violated when one of its assumptions is
  dropped.
* **IdleGate.** `GateTypeCorrect`; `HoldSurvivesRestart` from an invariant that ties
  memory, status file and history: what the supervisor or the file remembers
  as clear time is never more than the real quiet time, and whoever has not seen
  a block has not reported one that counts. `Implements`: the same invariant
  makes every step one of GateContract or a stutter. `GateFailsClosed` from
  `UnseenInv`: a session has lasted no longer than since the sample that missed
  it, and that sample is no older than an answer may take and the file's age,
  beyond which a reader takes the gate for closed. `FreezerFollowsGate` (one
  writer, systemctl works): what the supervisor last did to the freezer is what
  the file says, from its write to its next.
* **Drain.** `DrainTypeCorrect`; `DrainStopsClaiming` from `ClaimsLeft`: after a
  request the claims so far and the one the worker is committed to are at most
  one. `IdleAfterTheJob` from `WaitInv`: the record tells the worker's step or is
  half written, the flag stands while the wait is steady,
  and a seen job was past its preflight; a record that was left in flight keeps the
  wait from reporting idle.
* **Sidecar.** `TypeCorrect`; `VotesNeverClobber` from `LockInv`: whoever is past
  the lock holds it, so no vote or sweep has happened since its reading.
  `TallyStaysExact` from `TallyInv`: as long as nothing was lost in one of the
  named ways, the file has the tally of `serial`, and what each actor is going
  to write is what its update makes of `serial`, until a vote or a deletion
  comes between. A step that keeps the file needs only the buffers (`Quiet`).
  `EditsStay` from `EditsInv`, the same argument for the typed blocks, where the
  worker's second reading has yet to add the refactor history.
* **Watchdog.** `TypeCorrect`; `OptOutHolds` from an invariant on how far the
  opt-out has come when `out` is set: what each of its steps has undone stays
  undone while no heal runs. `HeavyActsSpaced`: a stamp that is still to go is
  never shorter than what is left of the cooldown, and a heal that may act
  heavily found none. `LoginIsKept` from `SightInv`: between its last look and
  `tailscale up`, what the heal saw of the internet is still so, or WAN failed.
* **Breed.** `TypeCorrect`, with what worker, recovery and breeders hold at each
  step (`HandsInv`): a sidecar that was found is a child's, and recovery starts
  only with a record. `LineageStays`: whoever drops a sidecar, at `release` or
  `drop`, has written the catalog before; every other step moves sidecars or
  leaves them (`Keeps`), a crash included. `LowWaterStays` from `LowInv`, a
  count: what waits, but for genomes from elsewhere, and the idle runs that have
  decided to fill are at most low water and one per idle breeder. `LineageIsFound` and
  `ParentsAreKnown` from `FindInv`, with one part for genomes (never without a
  file), one for MP4s (a child that has one does not wait) and one for each
  written sidecar: where it is, that the catalog knows it, or someone will still
  look there, or it is `Apart`, and that a genome which may yet become an MP4 has it near.
* **Seed.** `TypeCorrect` from `SeedInv`, which says what each step of a seeder
  has in hand: the head of its list, a made-up name, or nothing.
  `TwiceOnlyThroughTheGap` from `GapInv`: a catalogued sheep that waits, is being
  worked on or is in a hand is in `gap` or `asked` already, and a name still to be
  made up is nowhere. `TornHasAWriter` from
  `TornAt` for every name without a death, a failed write or two hands at once: it has at most one hand, and what that hand
  is about to copy is whole. `ListIsAnswered` from `SeedInv` alone: what leaves
  a list is its head, and the head is in hand when it is answered for.
* **Curate.** `TypeCorrect` from `CurateInv`: what each step has in hand, that
  Hammer wipes with the worker stopped, and that a rotation which has picked a
  victim may take it. `DeletesAreWhole` from `SeenOK` (a sheep in work counts as
  touched) and `ListedOK` (the cascade of a sheep nothing touched lists whatever
  still holds of it). `FloorStays` from `FloorOK`, a count: unless another
  process took one, only what the rotation has taken, and the tuples that went
  along, is missing from its candidates. `CullsErase` from `CurateInv` alone, where
  what a cascade still has of tuples is of those that name its sheep. `CleansAreClean` from
  `SweepOK` (an orphan is parked or still to be seen to) and `HammerOK` (the
  pools Hammer has gone past are empty). The catalog is a sequence that is
  searched and filtered; the lemmas `RemoveIs`, `WithoutIs` and `AppendIs` say by
  positions what that does, and the rest is about sets.
* **PeerShare.** `TypeCorrect` together with the fact that *every* sidecar in
  *every* directory is about an attested genome (`FilesOK`), which copies and
  deliveries hand on. `AttestedOnly` from `HonestInv`: behind its verification a
  promote has an attested genome before it, up to its own repair, or the file
  was replaced; a mixture of files brought by Syncthing either fails the
  verification or names what it lies beside. `OwnKey`: the public key is the
  newest whenever no pair is being made and gen-keys did not die.
  `StagedMatches` from `StagedInv`: while a sender's genome stands still, each
  publish has made the sidecars be about it before it goes on, and two at once
  stage the same genome, so the second to copy or move leaves no mismatch unless
  it staged a sidecar that the other had open.

Assumptions on constants are `InboxAssumption`, `FurnaceAssumption` and so on,
each in its module and evaluated by the runs: bounds are natural numbers, sets
of ids are disjoint where the file names are, and the value that stands for
"no file" is not one of the values it stands beside (`NoneAssumption` in
PeerShare, `None \notin Names \cup Claims` in Seed).

Only model-checked: all liveness, which is out of the prover's reach. Every
invariant and every action property of a run has its theorem.

## Plan

Each with its proofs when its run passes:

1. *Peering hygiene* and the shared folder's limits.
2. *Jellyfin*: the scan wait, artwork and metadata of an ingest.
3. *Clients*: the Roku channel and the screensavers, with their rate-limited
   re-polls of dead items.

## Not modelled

* *Jellyfin client and artwork*: requests whose failure the worker logs and
  passes over; the models take them as steps that change nothing.
* *Quality gate, tax, licence filter, choice of parents, palettes*: pure
  decisions on one file; every model takes any verdict.
* *Names, durations, link capacity, TV port, resize*: string and number
  functions without state, on which no property here depends.
* *Clients*: they keep no state that a furnace reads, but for votes, which
  Sidecar has from the sink's side.
* *Reports, host helpers, scripts, units*: read only, or configuration. The
  `Restart=` of the units and cron's period justify the fairness above.
* *flam3, ffmpeg, image and colour arithmetic, XML*: an arbitrary outcome.
