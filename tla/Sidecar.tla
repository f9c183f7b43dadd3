------------------------------- MODULE Sidecar -------------------------------
(***************************************************************************)
(* The sidecar of one sheep, "<stem>.jellyflam3.json" beside its MP4, is   *)
(* the only place that has its votes and its alias, and every process that *)
(* changes it reads the whole file, changes one block and writes the whole *)
(* file back.                                                              *)
(*                                                                         *)
(* Two kinds of processes do so.  Voters (the request threads of           *)
(* display_profile_sink) and sweepers (sheep_votes sweep) hold a flock     *)
(* from the read to the write, and write a temporary file that replaces    *)
(* the old one.  The editors (naming, stills and backfill_posters, the     *)
(* refactor history) and the worker's ingest take no lock and write in     *)
(* place: they truncate the file, then fill it.                            *)
(*                                                                         *)
(* A content is a tally of votes and the set of blocks that are present:   *)
(* "alias" stands for an alias a human chose.                              *)
(***************************************************************************)
EXTENDS Naturals

CONSTANTS Voters,      \* request threads
          Sweepers,    \* operators who reset tallies
          Editors,     \* the commands that write without the lock
          Nobody,      \* no holder of the lock
          Absent,      \* no such file
          Torn,        \* a file that is not JSON: empty, cut short or mixed
          MaxAsked,    \* bound: votes and sweeps asked for
          MaxChanges,  \* bound: edits, ingests and deletions begun
          MaxCrashes   \* bound: crashes

KeyOf == [naming |-> "alias", refactor |-> "refactor", stills |-> "stills"]
Keys == {"alias", "refactor", "stills"}

Content == [votes : Nat, keys : SUBSET Keys]
Stub == [votes |-> 0, keys |-> {}]

ASSUME EditorsAssumption == Editors \subseteq DOMAIN KeyOf
ASSUME ActorsAssumption ==
    /\ Voters \cap Sweepers = {}
    /\ (Voters \cup Sweepers) \cap (DOMAIN KeyOf \cup {"worker"}) = {}
    /\ Nobody \notin Voters \cup Sweepers \cup DOMAIN KeyOf \cup {"worker"}
ASSUME FileAssumption == Absent \notin Content /\ Torn \notin Content /\ Absent # Torn

(* load_sidecar takes a file it cannot parse for an empty one; naming's    *)
(* load_sidecar_for_stem raises.                                           *)
Lenient == {"refactor", "stills", "worker"}

Holders == Voters \cup Sweepers
Writers == Editors \cup {"worker"}
Actors == Holders \cup Writers
Kind(a) == IF a \in Holders THEN "locked" ELSE "unlocked"

VARIABLES
    file,      \* what the sidecar's name has
    mp4,       \* is the sheep in the flock?
    lock,      \* who holds "<sidecar>.lock"
    pc,        \* what each actor does next
    buf,       \* what each actor is going to write
    asked,     \* votes and sweeps asked for so far
    changes,   \* edits, ingests and deletions so far
    crashes,   \* crashes so far
    \* History:
    serial,    \* what the finished updates make of the file one after another
    since,     \* kinds of changes to the file since the actor read or opened it
    clobbers,  \* <<k, l>>: one of kind k wrote over a change of kind l
    blind,     \* writers that took a torn file for an empty one
    stubbed    \* such a writer has written

vars == <<file, mp4, lock, pc, buf, asked, changes, crashes, serial, since, clobbers, blind, stubbed>>
history == <<serial, since, clobbers, blind, stubbed>>

Readable == file \in Content

(* increment_feedback, cleared_feedback and, for all others, the tally of  *)
(* the file they have read.                                                *)
VotesAfter(a, n) ==
    IF a \in Voters THEN n + 1 ELSE IF a \in Sweepers THEN 0 ELSE n

(* An editor adds its block.  An ingest rebuilds the file with an index of *)
(* stills and copies the reserved blocks and the refactor history.         *)
KeysAfter(a, ks) ==
    IF a \in Editors THEN ks \cup {KeyOf[a]}
    ELSE IF a = "worker" THEN (ks \cap {"alias", "refactor"}) \cup {"stills"}
    ELSE ks

OrStub(c) == IF c = Absent THEN Stub ELSE c
Updated(a, c) == [votes |-> VotesAfter(a, OrStub(c).votes),
                  keys  |-> KeysAfter(a, OrStub(c).keys)]

(* Whoever else has read the file has read it before a change of kind "k". *)
Busy(b) == pc[b] \in {"replace", "artwork", "open", "write"}
Noticed(a, k) == [b \in Actors |-> IF b # a /\ Busy(b) THEN since[b] \cup {k} ELSE {}]
Over(a) == clobbers \cup {<<Kind(a), k>> : k \in since[a]}

Init ==
    /\ file \in {Absent, Stub}
    /\ mp4 = (file = Stub)
    /\ lock = Nobody
    /\ pc = [a \in Actors |-> "idle"]
    /\ buf = [a \in Actors |-> Stub]
    /\ asked = 0
    /\ changes = 0
    /\ crashes = 0
    /\ serial = file
    /\ since = [a \in Actors |-> {}]
    /\ clobbers = {}
    /\ blind = {}
    /\ stubbed = FALSE

-----------------------------------------------------------------------------
(* apply_vote and sweep_votes: find the file, then lock, read, replace.    *)

Ask(v) ==
    /\ pc[v] = "idle"
    /\ Readable
    /\ asked < MaxAsked
    /\ asked' = asked + 1
    /\ pc' = [pc EXCEPT ![v] = "locking"]
    /\ UNCHANGED <<file, mp4, lock, buf, changes, crashes, history>>

StartSweep(s) ==
    /\ pc[s] = "idle"
    /\ file # Absent
    /\ asked < MaxAsked
    /\ asked' = asked + 1
    /\ pc' = [pc EXCEPT ![s] = "locking"]
    /\ UNCHANGED <<file, mp4, lock, buf, changes, crashes, history>>

Acquire(h) ==
    /\ pc[h] = "locking"
    /\ lock = Nobody
    /\ lock' = h
    /\ pc' = [pc EXCEPT ![h] = "locked"]
    /\ UNCHANGED <<file, mp4, buf, asked, changes, crashes, history>>

LockedRead(h) ==
    /\ pc[h] = "locked"
    /\ Readable
    /\ h \in Sweepers => file.votes > 0
    /\ buf' = [buf EXCEPT ![h] = Updated(h, file)]
    /\ since' = [since EXCEPT ![h] = {}]
    /\ pc' = [pc EXCEPT ![h] = "replace"]
    /\ UNCHANGED <<file, mp4, lock, asked, changes, crashes, serial, clobbers, blind, stubbed>>

\* Fault: the error path returns without the finally.
LockedGiveUpHolding(h) ==
    /\ pc[h] = "locked"
    /\ Readable => h \in Sweepers /\ file.votes = 0
    /\ pc' = [pc EXCEPT ![h] = "idle"]
    /\ UNCHANGED <<file, mp4, lock, buf, asked, changes, crashes, history>>

(* Unreadable (the vote is answered 404), or nothing to reset.             *)
LockedGiveUp(h) ==
    /\ pc[h] = "locked"
    /\ Readable => h \in Sweepers /\ file.votes = 0
    /\ lock' = Nobody
    /\ pc' = [pc EXCEPT ![h] = "idle"]
    /\ UNCHANGED <<file, mp4, buf, asked, changes, crashes, history>>

(* os.replace binds the name to a new file: whoever has the old one open   *)
(* goes on writing to a file without a name.                               *)
Detached == [a \in Actors |-> IF pc[a] = "write" THEN "detached" ELSE pc[a]]
WasOpen == \E w \in Writers : pc[w] = "write"

Replace(h) ==
    /\ pc[h] = "replace"
    /\ file' = buf[h]
    /\ serial' = Updated(h, serial)
    /\ clobbers' = Over(h) \cup (IF WasOpen THEN {<<"locked", "unlocked">>} ELSE {})
    /\ since' = Noticed(h, "locked")
    /\ lock' = Nobody
    /\ pc' = [Detached EXCEPT ![h] = "idle"]
    /\ buf' = [buf EXCEPT ![h] = Stub]
    /\ UNCHANGED <<mp4, asked, changes, crashes, blind, stubbed>>

-----------------------------------------------------------------------------
(* The writers without the lock.                                           *)

(* A command works on sheep of the flock.  Naming needs a readable file.   *)
EditRead(e) ==
    /\ pc[e] = "idle"
    /\ mp4
    /\ changes < MaxChanges
    /\ changes' = changes + 1
    /\ Readable \/ e \in Lenient
    /\ buf' = [buf EXCEPT ![e] = Updated(e, IF Readable THEN file ELSE Stub)]
    /\ blind' = IF file = Torn THEN blind \cup {e} ELSE blind \ {e}
    /\ since' = [since EXCEPT ![e] = {}]
    /\ pc' = [pc EXCEPT ![e] = "open"]
    /\ UNCHANGED <<file, mp4, lock, asked, crashes, serial, clobbers, stubbed>>

\* Fault: the reserved blocks are not copied.
IngestReadAnew ==
    /\ pc["worker"] = "idle"
    /\ changes < MaxChanges
    /\ changes' = changes + 1
    /\ mp4' = TRUE
    /\ buf' = [buf EXCEPT !["worker"] = Updated("worker", Stub)]
    /\ blind' = IF file = Torn THEN blind \cup {"worker"} ELSE blind \ {"worker"}
    /\ since' = [since EXCEPT !["worker"] = {}]
    /\ pc' = [pc EXCEPT !["worker"] = "artwork"]
    /\ UNCHANGED <<file, lock, asked, crashes, serial, clobbers, stubbed>>

(* process_genome, once the MP4 is installed: the reserved blocks come     *)
(* from the sidecar there is now ...                                       *)
IngestRead ==
    LET old == Updated("worker", IF Readable THEN file ELSE Stub)
    IN  /\ pc["worker"] = "idle"
        /\ changes < MaxChanges
        /\ changes' = changes + 1
        /\ mp4' = TRUE
        /\ buf' = [buf EXCEPT !["worker"] = [old EXCEPT !.keys = @ \ {"refactor"}]]
        /\ blind' = IF file = Torn THEN blind \cup {"worker"} ELSE blind \ {"worker"}
        /\ since' = [since EXCEPT !["worker"] = {}]
        /\ pc' = [pc EXCEPT !["worker"] = "artwork"]
        /\ UNCHANGED <<file, lock, asked, crashes, serial, clobbers, stubbed>>

\* Fault: the refactor history is not read again.
IngestDropHistory ==
    /\ pc["worker"] = "artwork"
    /\ pc' = [pc EXCEPT !["worker"] = "open"]
    /\ UNCHANGED <<file, mp4, lock, buf, asked, changes, crashes, history>>

(* ... and, after posters, stills and the wait for Jellyfin's scan, the    *)
(* refactor history from the sidecar there is then.                        *)
IngestReadHistory ==
    /\ pc["worker"] = "artwork"
    /\ buf' = [buf EXCEPT !["worker"].keys =
                   @ \cup (IF Readable THEN file.keys \cap {"refactor"} ELSE {})]
    /\ blind' = IF file = Torn THEN blind \cup {"worker"} ELSE blind
    /\ pc' = [pc EXCEPT !["worker"] = "open"]
    /\ UNCHANGED <<file, mp4, lock, asked, changes, crashes, serial, since, clobbers, stubbed>>

(* write_text: open truncates, then the text is written at the front of    *)
(* the same file.  If another writer filled it in between, its tail may    *)
(* stick out behind.                                                       *)
Open(w) ==
    /\ pc[w] = "open"
    /\ file' = Torn
    /\ clobbers' = Over(w)
    /\ since' = Noticed(w, "unlocked")
    /\ pc' = [pc EXCEPT ![w] = "write"]
    /\ UNCHANGED <<mp4, lock, buf, asked, changes, crashes, serial, blind, stubbed>>

Write(w) ==
    /\ pc[w] = "write"
    /\ \/ file' = buf[w]
       \/ "unlocked" \in since[w] /\ file' = Torn
    /\ serial' = Updated(w, serial)
    /\ clobbers' = Over(w)
    /\ since' = Noticed(w, "unlocked")
    /\ stubbed' = (stubbed \/ w \in blind)
    /\ blind' = blind \ {w}
    /\ pc' = [pc EXCEPT ![w] = "idle"]
    /\ buf' = [buf EXCEPT ![w] = Stub]
    /\ UNCHANGED <<mp4, lock, asked, changes, crashes>>

WriteDetached(w) ==
    /\ pc[w] = "detached"
    /\ blind' = blind \ {w}
    /\ pc' = [pc EXCEPT ![w] = "idle"]
    /\ buf' = [buf EXCEPT ![w] = Stub]
    /\ UNCHANGED <<file, mp4, lock, asked, changes, crashes, serial, since, clobbers, stubbed>>

-----------------------------------------------------------------------------
(* Shears and the rotation unlink the MP4 and the sidecar.                 *)
Delete ==
    /\ mp4
    /\ changes < MaxChanges
    /\ changes' = changes + 1
    /\ mp4' = FALSE
    /\ file' = Absent
    /\ serial' = Absent
    /\ since' = Noticed(Nobody, "deleted")
    /\ pc' = Detached
    /\ UNCHANGED <<lock, buf, asked, crashes, clobbers, blind, stubbed>>

(* The sink dies with all its threads, the others one by one.  The kernel  *)
(* gives a dead holder's lock back.                                        *)
Processes == {Voters} \cup {{a} : a \in Actors \ Voters}

Crash(P) ==
    /\ crashes < MaxCrashes
    /\ \E a \in P : pc[a] # "idle"
    /\ crashes' = crashes + 1
    /\ pc' = [a \in Actors |-> IF a \in P THEN "idle" ELSE pc[a]]
    /\ buf' = [a \in Actors |-> IF a \in P THEN Stub ELSE buf[a]]
    /\ since' = [a \in Actors |-> IF a \in P THEN {} ELSE since[a]]
    /\ blind' = blind \ P
    /\ lock' = IF lock \in P THEN Nobody ELSE lock
    /\ UNCHANGED <<file, mp4, asked, changes, serial, clobbers, stubbed>>

Locked(h) == Acquire(h) \/ LockedRead(h) \/ LockedGiveUp(h) \/ Replace(h)
Unlocked(w) == Open(w) \/ Write(w) \/ WriteDetached(w)
Ingest == IngestReadHistory \/ Unlocked("worker")

Next ==
    \/ \E v \in Voters : Ask(v)
    \/ \E s \in Sweepers : StartSweep(s)
    \/ \E h \in Holders : Locked(h)
    \/ \E e \in Editors : EditRead(e)
    \/ IngestRead
    \/ IngestReadHistory
    \/ \E w \in Writers : Unlocked(w)
    \/ Delete
    \/ \E P \in Processes : Crash(P)

Spec == Init /\ [][Next]_vars

(* A request's thread goes on, and gets the lock if it is free again and   *)
(* again.  Nothing else is owed.                                           *)
Fairness == \A h \in Holders : SF_vars(Acquire(h)) /\ WF_vars(Locked(h))
FairSpec == Spec /\ Fairness

-----------------------------------------------------------------------------
(* Only actors that hold the lock are between its acquisition and release, *)
(* and the file and the memory hold sidecars.                              *)
TypeOK ==
    /\ file \in Content \cup {Absent, Torn}
    /\ mp4 \in BOOLEAN
    /\ lock \in Holders \cup {Nobody}
    /\ pc \in [Actors -> {"idle", "locking", "locked", "replace",
                          "artwork", "open", "write", "detached"}]
    /\ buf \in [Actors -> Content]
    /\ asked \in Nat
    /\ changes \in Nat
    /\ crashes \in Nat
    /\ serial \in Content \cup {Absent}
    /\ since \in [Actors -> SUBSET {"locked", "unlocked", "deleted"}]
    /\ clobbers \subseteq {"locked", "unlocked"} \X {"locked", "unlocked", "deleted"}
    /\ blind \subseteq Writers
    /\ stubbed \in BOOLEAN

(* Concurrent votes and sweeps cannot write over one another, whatever the *)
(* writers without the lock do and whoever dies (sidecar_lock: "so         *)
(* concurrent Rokus cannot clobber").                                      *)
VotesDoNotClobber == <<"locked", "locked">> \notin clobbers

(* No update was made from a reading that was not that of the file.        *)
Steady ==
    /\ ~stubbed
    /\ \A c \in clobbers : c[1] = "locked" /\ c[2] # "deleted"

(* The tally is exact (apply_vote, sweep_votes, the reserved blocks an     *)
(* ingest keeps) unless a writer without the lock wrote over a newer file  *)
(* or took a torn one for empty, or the sheep was deleted under a vote:    *)
(* a refused vote, a crash, an ingest or a vote that writes over an edit   *)
(* never changes it.                                                       *)
TallyIsExact ==
    Steady /\ Readable => serial \in Content /\ file.votes = serial.votes

(* A human's alias and the refactor history are kept by every update       *)
(* unless someone, with or without the lock, wrote over a newer file.      *)
EditsAreKept ==
    Steady /\ clobbers = {} /\ Readable => serial \in Content /\ file.keys = serial.keys

(* Every vote asked for is answered: the lock is given back on each path   *)
(* and by the dead.                                                        *)
VotesAreAnswered == \A v \in Voters : pc[v] # "idle" ~> pc[v] = "idle"

(* What docs and docstrings say of the writers without the lock.           *)
(* docs/phase1/07_LICENSE_AND_METADATA.md:165: "Loops keep                 *)
(* viewer_feedback [...] across Shears-modify / re-furnace."               *)
IngestKeepsVotes ==
    [][Write("worker") /\ file' # Torn => file'.votes = serial'.votes]_vars

(* sheep_votes.py:182 "Locate an existing catalog sidecar. Never create    *)
(* one."                                                                   *)
NeverCreatesOne == [][\A h \in Holders : Replace(h) => file # Absent]_vars

(* sheep_votes.py:274: "readers never see a partial sidecar."              *)
NeverPartial == file # Torn
=============================================================================
