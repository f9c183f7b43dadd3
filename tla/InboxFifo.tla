----------------------------- MODULE InboxFifo -----------------------------
(***************************************************************************)
(* The inbox directory and its FIFO ledger (pipeline/inbox_queue.py) with   *)
(* the processes that share them: the stagers that land a genome and then   *)
(* stamp it (seed_inbox, shears, breed, promote, job recovery), the curator *)
(* commands that take files away again, and the furnace worker, which       *)
(* synchronises the ledger, picks the head, may wait on the idle gate for   *)
(* hours, and then claims whatever file has that NAME.                      *)
(*                                                                         *)
(* A directory entry is a name bound to an inode.  The ledger remembers     *)
(* (sequence number, inode) for each name it saw at the last sync.          *)
(***************************************************************************)
EXTENDS Integers, FiniteSets

CONSTANTS
  Names,        \* inbox file names
  Inodes,       \* (device, inode) pairs the file system can hand out
  NoFile,       \* the value of a name that is not in the directory
  Stagers,      \* processes that stage files, one file at a time
  MaxTime,      \* bound on the clock readings a run explores
  MaxStamp,     \* bound on the stamps, which may run ahead of the clock
  InodeReuse,   \* TRUE: a freed inode may be handed out again
  ClockSteps,   \* TRUE: the wall clock may step back (no RTC, NTP correction)
  TouchHead     \* TRUE: commands may replace or remove the head while it waits

ASSUME InboxAssumption ==
  /\ IsFiniteSet(Names)
  /\ NoFile \notin Inodes
  /\ NoFile \notin Names
  /\ NoFile \notin Stagers
  /\ MaxTime \in Nat
  /\ MaxStamp \in Nat /\ MaxTime <= MaxStamp
  /\ InodeReuse \in BOOLEAN
  /\ ClockSteps \in BOOLEAN
  /\ TouchHead \in BOOLEAN

VARIABLES
  inbox,     \* the directory: name -> inode or NoFile
  ctime,     \* of the file of a name: change time, set by every landing and utime
  mtime,     \* its modification time (a copy keeps the source's; a stamp resets it)
  now,       \* last clock reading
  hand,      \* stager: the name it has landed and not stamped yet
  last,      \* stager: _last_stamp_ns, its latest stamp (0: none, a new process)
  used,      \* inodes handed out so far
  ledger,    \* "absent", "ok" or "unreadable": the state of inbox_fifo.json
  seq,       \* ledger: name -> sequence number (0: no record)
  entry,     \* ledger: name -> inode recorded with it (NoFile: no record)
  nextSeq,   \* ledger: next_seq
  head,      \* worker: queued[0] of its last sync, until the claim
  working,   \* inode of the genome in the job the worker runs
  later,     \* history: pairs <<m, n>> of files where n changed last
  stamper,   \* history: who made a file's last change, if it was a stamp
  steady     \* history: files since whose last change the clock only moved on

fileVars   == <<inbox, ctime, mtime, now, used>>
stagerVars == <<hand, last>>
changeVars == <<later, stamper, steady>>
diskVars   == <<fileVars, stagerVars, changeVars>>
ledgerVars == <<ledger, seq, entry, nextSeq>>
workerVars == <<head, working>>
vars       == <<diskVars, ledgerVars, workerVars>>

Times == 0..MaxTime

Stamps == 0..MaxStamp

-----------------------------------------------------------------------------
(* The files sync_inbox_fifo sees, and what the ledger knows of them.       *)

Present == {n \in Names : inbox[n] # NoFile}

\* Fault: the inode is not compared.
KnownByName == {n \in Present : seq[n] > 0}

\* A file is known when its name AND inode are the recorded ones.
Known == {n \in Present : seq[n] > 0 /\ entry[n] = inbox[n]}

Unknown == Present \ Known

MaxOf(a, b) == IF a >= b THEN a ELSE b

\* _order_key: ctime for the backlog found when the ledger is created; after
\* that the enqueue stamp, or the ctime of a plain copy with an old mtime.
OrderKey(n) ==
  IF ledger = "absent" THEN ctime[n]
                       ELSE MaxOf(ctime[n], mtime[n])

SortsBefore(m, n) ==
  \/ OrderKey(m) < OrderKey(n)
  \/ OrderKey(m) = OrderKey(n) /\ mtime[m] < mtime[n]

\* unknown.sort(key=...): the positions 0, 1, ... the sort may give the
\* unknown files.  Equal keys fall back to the file name: any order here.
Rankings ==
  {r \in [Unknown -> 0..(Cardinality(Unknown) - 1)] :
     \A m, n \in Unknown : m # n => /\ r[m] # r[n]
                                    /\ SortsBefore(m, n) => r[m] < r[n]}

\* Fault: unknown files are numbered from 1, not from next_seq.
InsertByRank(r) ==
  [n \in Names |-> IF n \in Known THEN seq[n]
                   ELSE IF n \in Unknown THEN r[n] + 1 ELSE 0]

\* The sequence numbers after a sync that ranks the unknown files by r.
SyncedSeq(r) ==
  [n \in Names |-> IF n \in Known THEN seq[n]
                   ELSE IF n \in Unknown THEN nextSeq + r[n] ELSE 0]

SyncedEntry == [n \in Names |-> inbox[n]]

\* next_seq after the unknown files took theirs, above every number in use.
NextFree == nextSeq + Cardinality(Unknown)

SyncedNext ==
  IF \E n \in Known : seq[n] >= NextFree
  THEN CHOOSE s \in {seq[n] + 1 : n \in Known} : \A n \in Known : seq[n] < s
  ELSE NextFree

-----------------------------------------------------------------------------
(* Stagers and curator commands.                                           *)

\* A clock reading for the next landing or stamp (time.time_ns, ctime).
ReadClock ==
  /\ now' \in Times
  /\ ~ClockSteps => now' = now + 1

\* The files that stay steady at a reading of the clock.
StillSteady == IF now' > now THEN steady ELSE {}

\* File n changes now, by a stamp of p or (NoFile) otherwise.
Changed(n, p) ==
  /\ ctime' = [ctime EXCEPT ![n] = now']
  /\ later' = {q \in later : n \notin {q[1], q[2]}} \cup ((Present \ {n}) \X {n})
  /\ stamper' = [stamper EXCEPT ![n] = p]
  /\ steady' = StillSteady \cup {n}

\* File n leaves the directory.
Leaves(n) ==
  /\ inbox' = [inbox EXCEPT ![n] = NoFile]
  /\ ctime' = [ctime EXCEPT ![n] = 0]
  /\ mtime' = [mtime EXCEPT ![n] = 0]
  /\ later' = {q \in later : n \notin {q[1], q[2]}}
  /\ stamper' = [stamper EXCEPT ![n] = NoFile]
  /\ steady' = steady \ {n}
  /\ UNCHANGED <<now, used, stagerVars, ledgerVars>>

Touchable(n) == TouchHead \/ n # head

\* Inodes the file system may hand out for a new file.
Allocatable ==
  IF InodeReuse
  THEN Inodes \ ({inbox[n] : n \in Present} \cup {working})
  ELSE Inodes \ used

\* A new directory entry: copy2 to a free name (keeps the source's old mtime),
\* or a rename, which replaces a waiting file of that name by another inode.
Land(p, n) ==
  /\ hand[p] = NoFile
  /\ inbox[n] # NoFile => Touchable(n)
  /\ ReadClock
  /\ \E i \in Allocatable :
       /\ inbox' = [inbox EXCEPT ![n] = i]
       /\ used' = used \cup {i}
  /\ Changed(n, NoFile)
  /\ \E old \in {0, now'} : mtime' = [mtime EXCEPT ![n] = old]
  /\ hand' = [hand EXCEPT ![p] = n]
  /\ UNCHANGED <<last, ledgerVars, workerVars>>

\* stage_file with force over a waiting file: copy2 truncates and rewrites the
\* SAME inode.
CopyOver(p, n) ==
  /\ hand[p] = NoFile
  /\ inbox[n] # NoFile
  /\ ReadClock
  /\ Changed(n, NoFile)
  /\ mtime' = [mtime EXCEPT ![n] = 0]
  /\ hand' = [hand EXCEPT ![p] = n]
  /\ UNCHANGED <<inbox, used, last, ledgerVars, workerVars>>

\* Fault: the clock's reading as it is.
StampOfClock(p) == now'

\* The clock's reading, but never one this process has given before or a lower.
StampOf(p) == IF now' <= last[p] THEN last[p] + 1 ELSE now'

\* stamp_inbox_arrival, by name: os.utime sets mtime and refreshes ctime; if
\* the worker has already claimed the file it only logs a warning.
Stamp(p) ==
  LET n == hand[p] IN
  /\ n # NoFile
  /\ ReadClock
  /\ StampOf(p) \in Stamps
  /\ last' = [last EXCEPT ![p] = StampOf(p)]
  /\ hand' = [hand EXCEPT ![p] = NoFile]
  /\ IF inbox[n] = NoFile
     THEN /\ steady' = StillSteady
          /\ UNCHANGED <<ctime, mtime, later, stamper>>
     ELSE /\ Changed(n, p)
          /\ mtime' = [mtime EXCEPT ![n] = StampOf(p)]
  /\ UNCHANGED <<inbox, used, ledgerVars, workerVars>>

\* A stager ends, perhaps before its stamp, or was a plain cp, which stamps
\* nothing.  The next process remembers no stamp.
Quit(p) ==
  /\ hand[p] # NoFile \/ last[p] # 0
  /\ hand' = [hand EXCEPT ![p] = NoFile]
  /\ last' = [last EXCEPT ![p] = 0]
  /\ stamper' = [n \in Names |-> IF stamper[n] = p THEN NoFile ELSE stamper[n]]
  /\ UNCHANGED <<fileVars, later, steady, ledgerVars, workerVars>>

\* shears delete and hammer unlink waiting genomes.
Withdraw(n) ==
  /\ inbox[n] # NoFile
  /\ Touchable(n)
  /\ Leaves(n)
  /\ UNCHANGED workerVars

\* hammer removes the state directory, or a power cut leaves an unreadable
\* file: _load then answers {"next_seq": 1, "files": {}}.
LoseLedger ==
  /\ ledger = "ok"
  /\ ledger' \in {"absent", "unreadable"}
  /\ seq' = [n \in Names |-> 0]
  /\ entry' = [n \in Names |-> NoFile]
  /\ nextSeq' = 1
  /\ UNCHANGED <<diskVars, workerVars>>

-----------------------------------------------------------------------------
(* The worker.                                                             *)

\* sync_inbox_fifo: records already in the ledger stay put, vanished names are
\* dropped, unknown inodes are appended; the file is rewritten only when the
\* payload changed.  The worker keeps queued[0].
Sync ==
  /\ head = NoFile
  /\ working = NoFile
  /\ \E r \in Rankings :
       /\ seq' = SyncedSeq(r)
       /\ entry' = SyncedEntry
       /\ nextSeq' = SyncedNext
       /\ ledger' = IF seq' = seq /\ entry' = entry /\ nextSeq' = nextSeq
                    THEN ledger ELSE "ok"
       /\ IF Present = {}
          THEN head' = NoFile
          ELSE head' \in {n \in Present : \A m \in Present : seq'[n] <= seq'[m]}
  /\ UNCHANGED <<diskVars, working>>

\* claim_inbox_genome, after the gate wait: the file that has the name NOW
\* moves out of the inbox; if the name is gone the job fails and the loop
\* starts over.
Claim ==
  /\ head # NoFile
  /\ working' = inbox[head]
  /\ IF inbox[head] = NoFile
     THEN UNCHANGED <<diskVars, ledgerVars>>
     ELSE Leaves(head)
  /\ head' = NoFile

\* The job ends: the genome is in done/ or quarantine/.
Finish ==
  /\ working # NoFile
  /\ working' = NoFile
  /\ UNCHANGED <<diskVars, ledgerVars, head>>

\* The worker process dies; systemd starts it again at the poll loop.
Crash ==
  /\ head # NoFile \/ working # NoFile
  /\ head' = NoFile
  /\ working' = NoFile
  /\ UNCHANGED <<diskVars, ledgerVars>>

-----------------------------------------------------------------------------
Init ==
  /\ inbox = [n \in Names |-> NoFile]
  /\ ctime = [n \in Names |-> 0]
  /\ mtime = [n \in Names |-> 0]
  /\ now = 0
  /\ hand = [p \in Stagers |-> NoFile]
  /\ last = [p \in Stagers |-> 0]
  /\ used = {}
  /\ ledger = "absent"
  /\ seq = [n \in Names |-> 0]
  /\ entry = [n \in Names |-> NoFile]
  /\ nextSeq = 1
  /\ head = NoFile
  /\ working = NoFile
  /\ later = {}
  /\ stamper = [n \in Names |-> NoFile]
  /\ steady = {}

Next ==
  \/ \E p \in Stagers, n \in Names : Land(p, n) \/ CopyOver(p, n)
  \/ \E p \in Stagers : Stamp(p) \/ Quit(p)
  \/ \E n \in Names : Withdraw(n)
  \/ LoseLedger
  \/ Sync
  \/ Claim
  \/ Finish
  \/ Crash

Spec == Init /\ [][Next]_vars

-----------------------------------------------------------------------------
(* Properties.                                                             *)

TypeOK ==
  /\ inbox \in [Names -> Inodes \cup {NoFile}]
  /\ ctime \in [Names -> Times]
  /\ mtime \in [Names -> Stamps]
  /\ now \in Times
  /\ hand \in [Stagers -> Names \cup {NoFile}]
  /\ last \in [Stagers -> Stamps]
  /\ used \subseteq Inodes
  /\ ledger \in {"absent", "ok", "unreadable"}
  /\ seq \in [Names -> Nat]
  /\ entry \in [Names -> Inodes \cup {NoFile}]
  /\ nextSeq \in Nat \ {0}
  /\ head \in Names \cup {NoFile}
  /\ working \in Inodes \cup {NoFile}
  /\ later \subseteq Names \X Names
  /\ stamper \in [Names -> Stagers \cup {NoFile}]
  /\ steady \subseteq Names

\* No two names share a sequence number and next_seq is above all of them, so
\* the head is unique and a newcomer can only go behind everybody, also after
\* names were dropped, inodes replaced and the ledger lost
\* (sync_inbox_fifo, the append loop and the next_seq repair).
SeqInv ==
  /\ \A n \in Names : seq[n] < nextSeq
  /\ \A m, n \in Names : m # n /\ seq[m] > 0 /\ seq[n] > 0 => seq[m] # seq[n]

\* The files queued ahead of name n, as (name, inode) pairs.
Ahead(n) == {<<m, inbox[m]>> : m \in {k \in Known : seq[k] < seq[n]}}

Waiting(n, i) == n \in Known /\ inbox[n] = i

\* Nobody overtakes: while a file that the ledger knows keeps waiting, the set
\* of files ahead of it never grows, whatever lands, is stamped, replaced or
\* withdrawn, and across worker crashes.  So a genome renders after at most the
\* ones ahead of it when it was first seen ("a later name cannot jump the
\* queue", inbox_queue.py).
NoOvertaking ==
  [][\A n \in Names, i \in Inodes :
       Waiting(n, i) /\ Waiting(n, i)' => Ahead(n)' \subseteq Ahead(n)]_vars

\* Both got their last change from one process, by its stamps.
OneHand(m, n) ==
  ledger # "absent" /\ stamper[m] = stamper[n] /\ stamper[m] # NoFile

\* Since the last change of m the clock moved on at every reading, and m was not
\* stamped ahead of it.
MovedOn(m) == m \in steady /\ mtime[m] <= ctime[m]

\* Files first seen in the same scan are queued in the order of their last
\* changes, by landing or stamp, and not by name or a modification time carried
\* over from the source: always where the clock moved on, and where it stepped
\* back at least within the files of one process (stamp_inbox_arrival with its
\* _last_stamp_ns, _order_key).
BatchInArrivalOrder ==
  [][\A m, n \in Names :
       m \in Unknown /\ n \in Unknown /\ m \in Known' /\ n \in Known'
            /\ <<m, n>> \in later /\ (OneHand(m, n) \/ MovedOn(m))
         => seq'[m] < seq'[n]]_vars

\* docs/glossary.md: "Later arrivals append at the tail, including a manual
\* copy and a same-name replacement": a file that a stager brings has lost its
\* place, so that the next scan puts it behind every file of the last.
ReplacementGoesToTail ==
  [][\A p \in Stagers, n \in Names : hand[p] = NoFile /\ hand'[p] = n => n \notin Known']_vars

\* docs/USER_GUIDE_AND_RUNBOOK.md: "The worker claims the genome that has been
\* waiting the longest": a claim takes a file the ledger had queued, and ahead
\* of every other file it had queued.
ClaimsLongestWaiting ==
  [][working = NoFile /\ working' \in Inodes
       => \A m \in Known \ {head} : head \in Known /\ seq[head] < seq[m]]_vars

-----------------------------------------------------------------------------
(* Refinement of the arrival queue.                                        *)

\* The queue of the ledger: the inodes of the known files, ordered by number.
Queued == {inbox[n] : n \in Known}

\* The pairs of inodes, by directory d, of the names in K that numbers s order.
InOrder(d, K, s) ==
  {<<d[p[1]], d[p[2]]>> : p \in {q \in K \X K : s[q[1]] < s[q[2]]}}

QueuedBefore == InOrder(inbox, Known, seq)

Abstract == INSTANCE ArrivalQueue WITH
              Files <- Inodes, None <- NoFile,
              waiting <- Queued, before <- QueuedBefore, serving <- working

\* The ledger and the worker implement a plain arrival queue: files join at the
\* tail, only the head is served, a file that is withdrawn just leaves
\* (sync_inbox_fifo with poll_inbox and claim_inbox_genome).
ImplementsArrivalQueue == Abstract!Spec
=============================================================================
