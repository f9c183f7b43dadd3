--------------------------- MODULE SidecarProofs ---------------------------
(* Proofs about Sidecar, for any sets of voters, sweepers and editors and   *)
(* any number of votes, changes and crashes.                                *)
EXTENDS Sidecar, TLAPS

\* Whoever holds the lock is not one of those who write without it.
LEMMA Apart == Holders \cap Writers = {}
BY EditorsAssumption, ActorsAssumption DEF Holders, Writers, KeyOf

LEMMA KindOf ==
    /\ \A h \in Holders : Kind(h) = "locked"
    /\ \A w \in Writers : Kind(w) = "unlocked"
    /\ \A a \in Actors : Kind(a) \in {"locked", "unlocked"}
BY Apart DEF Kind, Actors

\* An update of a sidecar, or of none, is a sidecar.
LEMMA UpdatedType ==
  ASSUME NEW a \in Actors, NEW c \in Content \cup {Absent}
  PROVE  Updated(a, c) \in Content
<1>1. OrStub(c) \in Content
  BY DEF Content, Stub, Keys, OrStub
<1>2. VotesAfter(a, OrStub(c).votes) \in Nat
  BY <1>1 DEF VotesAfter, Content
<1>3. KeysAfter(a, OrStub(c).keys) \subseteq Keys
  <2>1. a \in Editors => KeyOf[a] \in Keys
    BY EditorsAssumption DEF KeyOf, Keys
  <2> QED
    BY <1>1, <2>1 DEF KeysAfter, Content, Keys
<1> QED
  BY <1>2, <1>3 DEF Updated, Content

LEMMA TypeInit == Init => TypeOK
<1> SUFFICES ASSUME Init PROVE TypeOK
  OBVIOUS
<1>1. Stub \in Content
  BY DEF Content, Stub
<1>2. file \in Content \cup {Absent, Torn} /\ serial \in Content \cup {Absent}
  BY <1>1 DEF Init
<1>3. mp4 \in BOOLEAN
  BY Zenon DEF Init
<1>4. lock = Nobody /\ asked = 0 /\ changes = 0 /\ crashes = 0
      /\ pc = [a \in Actors |-> "idle"] /\ buf = [a \in Actors |-> Stub]
      /\ since = [a \in Actors |-> {}]
      /\ clobbers = {} /\ blind = {} /\ stubbed = FALSE
  BY DEF Init
<1> QED
  BY <1>1, <1>2, <1>3, <1>4 DEF TypeOK

\* The history of a step stays well typed.
LEMMA NoticedType ==
  ASSUME TypeOK, NEW a, NEW k \in {"locked", "unlocked", "deleted"}
  PROVE  Noticed(a, k) \in [Actors -> SUBSET {"locked", "unlocked", "deleted"}]
BY DEF TypeOK, Noticed

LEMMA OverType ==
  ASSUME TypeOK, NEW a \in Actors
  PROVE  Over(a) \subseteq {"locked", "unlocked"} \X {"locked", "unlocked", "deleted"}
<1>1. since[a] \subseteq {"locked", "unlocked", "deleted"}
  BY DEF TypeOK
<1> QED
  BY <1>1, KindOf DEF TypeOK, Over

\* Every step of voters, writers, curators and crashes keeps the types.
LEMMA TypeStep == TypeOK /\ [Next]_vars => TypeOK'
<1> SUFFICES ASSUME TypeOK, [Next]_vars PROVE TypeOK'
  OBVIOUS
<1> USE DEF history
<1>1. ASSUME NEW v \in Voters, Ask(v) PROVE TypeOK'
  <2>1. asked' \in Nat
    BY <1>1 DEF Ask, TypeOK
  <2>2. pc' = [pc EXCEPT ![v] = "locking"] /\ UNCHANGED <<file, mp4, lock, buf, changes, crashes, history>>
    BY <1>1 DEF Ask
  <2> QED
    BY <2>1, <2>2 DEF TypeOK
<1>2. ASSUME NEW s \in Sweepers, StartSweep(s) PROVE TypeOK'
  <2>1. asked' \in Nat
    BY <1>2 DEF StartSweep, TypeOK
  <2>2. pc' = [pc EXCEPT ![s] = "locking"] /\ UNCHANGED <<file, mp4, lock, buf, changes, crashes, history>>
    BY <1>2 DEF StartSweep
  <2> QED
    BY <2>1, <2>2 DEF TypeOK
<1>3. ASSUME NEW h \in Holders, Locked(h) PROVE TypeOK'
  <2> h \in Actors
    BY DEF Actors
  <2>1. CASE Acquire(h)
    BY <2>1 DEF Acquire, TypeOK
  <2>2. CASE LockedRead(h)
    <3>1. Updated(h, file) \in Content
      BY <2>2, UpdatedType DEF LockedRead, Readable
    <3> QED
      BY <2>2, <3>1 DEF LockedRead, TypeOK
  <2>3. CASE LockedGiveUp(h)
    BY <2>3 DEF LockedGiveUp, TypeOK
  <2>4. CASE Replace(h)
    <3>1. Updated(h, serial) \in Content /\ buf[h] \in Content /\ Stub \in Content
      BY UpdatedType DEF TypeOK, Content, Stub
    <3>2. since' \in [Actors -> SUBSET {"locked", "unlocked", "deleted"}]
      BY <2>4, NoticedType DEF Replace
    <3>3. clobbers' \subseteq {"locked", "unlocked"} \X {"locked", "unlocked", "deleted"}
      BY <2>4, OverType DEF Replace
    <3>4. pc' \in [Actors -> {"idle", "locking", "locked", "replace",
                              "artwork", "open", "write", "detached"}]
      BY <2>4 DEF Replace, Detached, TypeOK
    <3> QED
      BY <2>4, <3>1, <3>2, <3>3, <3>4 DEF Replace, TypeOK
  <2> QED
    BY <1>3, <2>1, <2>2, <2>3, <2>4 DEF Locked
<1>4. ASSUME NEW e \in Editors, EditRead(e) PROVE TypeOK'
  <2>1. e \in Writers /\ e \in Actors
    BY DEF Writers, Actors
  <2>2. Stub \in Content
    BY DEF Stub, Content
  <2>3. Updated(e, IF Readable THEN file ELSE Stub) \in Content
    BY <2>1, <2>2, UpdatedType DEF Readable
  <2> QED
    BY <1>4, <2>1, <2>3 DEF EditRead, TypeOK
<1>5. CASE IngestRead
  <2> DEFINE old == Updated("worker", IF Readable THEN file ELSE Stub)
  <2>1. "worker" \in Writers /\ "worker" \in Actors
    BY DEF Writers, Actors
  <2>2. Stub \in Content
    BY DEF Stub, Content
  <2>3. old \in Content
    BY <2>1, <2>2, UpdatedType DEF Readable
  <2>4. [old EXCEPT !.keys = @ \ {"refactor"}] \in Content
    BY <2>3 DEF Content
  <2> QED
    BY <1>5, <2>1, <2>4 DEF IngestRead, TypeOK
<1>6. CASE IngestReadHistory
  <2>1. "worker" \in Writers /\ "worker" \in Actors
    BY DEF Writers, Actors
  <2>2. (IF Readable THEN file.keys \cap {"refactor"} ELSE {}) \subseteq Keys
    BY DEF Keys
  <2>3. buf' \in [Actors -> Content]
    BY <1>6, <2>1, <2>2 DEF IngestReadHistory, TypeOK, Content
  <2> QED
    BY <1>6, <2>1, <2>3 DEF IngestReadHistory, TypeOK
<1>7. ASSUME NEW w \in Writers, Unlocked(w) PROVE TypeOK'
  <2>0. w \in Actors
    BY DEF Actors
  <2>1. CASE Open(w)
    BY <2>0, <2>1, NoticedType, OverType DEF Open, TypeOK
  <2>2. CASE Write(w)
    <3>1. Updated(w, serial) \in Content /\ buf[w] \in Content /\ Stub \in Content
      BY <2>0, UpdatedType DEF TypeOK, Content, Stub
    <3>2. since' \in [Actors -> SUBSET {"locked", "unlocked", "deleted"}]
      BY <2>2, NoticedType DEF Write
    <3>3. clobbers' \subseteq {"locked", "unlocked"} \X {"locked", "unlocked", "deleted"}
      BY <2>0, <2>2, OverType DEF Write
    <3> QED
      BY <2>2, <3>1, <3>2, <3>3 DEF Write, TypeOK
  <2>3. CASE WriteDetached(w)
    <3>1. Stub \in Content
      BY DEF Content, Stub
    <3> QED
      BY <2>3, <3>1 DEF WriteDetached, TypeOK
  <2> QED
    BY <1>7, <2>1, <2>2, <2>3 DEF Unlocked
<1>8. CASE Delete
  <2>1. since' \in [Actors -> SUBSET {"locked", "unlocked", "deleted"}]
    BY <1>8, NoticedType DEF Delete
  <2>2. pc' \in [Actors -> {"idle", "locking", "locked", "replace",
                            "artwork", "open", "write", "detached"}]
    BY <1>8 DEF Delete, Detached, TypeOK
  <2>3. changes' \in Nat
    BY <1>8 DEF Delete, TypeOK
  <2>4. mp4' = FALSE /\ file' = Absent /\ serial' = Absent
        /\ UNCHANGED <<lock, buf, asked, crashes, clobbers, blind, stubbed>>
    BY <1>8 DEF Delete
  <2> QED
    BY <2>1, <2>2, <2>3, <2>4 DEF TypeOK
<1>9. ASSUME NEW P \in Processes, Crash(P) PROVE TypeOK'
  <2>1. Stub \in Content
    BY DEF Content, Stub
  <2> QED
    BY <1>9, <2>1 DEF Crash, TypeOK
<1>10. CASE UNCHANGED vars
  BY <1>10 DEF vars, TypeOK
<1> QED
  BY <1>1, <1>2, <1>3, <1>4, <1>5, <1>6, <1>7, <1>8, <1>9, <1>10
  DEF Next, Ingest

\* Every variable keeps its type.
THEOREM TypeCorrect == Spec => []TypeOK
<1> QED
  BY TypeInit, TypeStep, PTL DEF Spec

-----------------------------------------------------------------------------
(* The lock.  Whoever is between its acquisition and its release holds it, *)
(* so no vote or sweep has happened since its reading.                     *)
LockInv ==
    /\ \A h \in Holders :
          /\ pc[h] \in {"idle", "locking", "locked", "replace"}
          /\ pc[h] \in {"locked", "replace"} => lock = h
          /\ pc[h] = "replace" => "locked" \notin since[h]
    /\ VotesDoNotClobber

LEMMA LockStep == TypeOK /\ LockInv /\ [Next]_vars => LockInv'
<1> SUFFICES ASSUME TypeOK, LockInv, [Next]_vars PROVE LockInv'
  OBVIOUS
<1> USE Apart DEF history
<1> USE DEF TypeOK, LockInv, VotesDoNotClobber
<1>h. Holders \subseteq Actors /\ Writers \subseteq Actors
  BY DEF Actors
<1>1. ASSUME NEW v \in Voters, Ask(v) PROVE LockInv'
  BY <1>1, <1>h DEF Ask, Holders
<1>2. ASSUME NEW s \in Sweepers, StartSweep(s) PROVE LockInv'
  BY <1>2, <1>h DEF StartSweep, Holders
<1>3. ASSUME NEW h \in Holders, Locked(h) PROVE LockInv'
  <2>0. Nobody \notin Holders
    BY ActorsAssumption DEF Holders
  <2>1. CASE Acquire(h)
    BY <2>0, <2>1, <1>h DEF Acquire
  <2>2. CASE LockedRead(h)
    BY <2>2, <1>h DEF LockedRead
  <2>3. CASE LockedGiveUp(h)
    BY <2>3, <1>h DEF LockedGiveUp
  <2>4. CASE Replace(h)
    \* No other holder has read the file.
    <3>1. \A g \in Holders \ {h} : pc[g] \in {"idle", "locking"}
      BY <2>4 DEF Replace
    <3>2. \A g \in Holders : pc'[g] \in {"idle", "locking"}
      BY <2>4, <3>1, <1>h DEF Replace, Detached
    <3>3. <<"locked", "locked">> \notin Over(h)
      BY <2>4 DEF Replace, Over
    <3>4. <<"locked", "locked">> \notin clobbers'
      BY <2>4, <3>3 DEF Replace
    <3> QED
      BY <3>2, <3>4
  <2> QED
    BY <1>3, <2>1, <2>2, <2>3, <2>4 DEF Locked
<1>4. ASSUME NEW e \in Editors, EditRead(e) PROVE LockInv'
  <2>1. e \in Writers
    BY DEF Writers
  <2> QED
    BY <1>4, <1>h, <2>1 DEF EditRead
<1>5. CASE IngestRead
  <2>1. "worker" \in Writers
    BY DEF Writers
  <2>2. pc' = [pc EXCEPT !["worker"] = "artwork"] /\ since' = [since EXCEPT !["worker"] = {}]
        /\ lock' = lock /\ clobbers' = clobbers
    BY <1>5 DEF IngestRead
  <2> QED
    BY <1>h, <2>1, <2>2
<1>6. CASE IngestReadHistory
  <2>1. "worker" \in Writers
    BY DEF Writers
  <2> QED
    BY <1>6, <1>h, <2>1 DEF IngestReadHistory
<1>7. ASSUME NEW w \in Writers, Unlocked(w) PROVE LockInv'
  <2>1. <<"locked", "locked">> \notin Over(w)
    BY KindOf DEF Over
  <2>2. \A h \in Holders : "locked" \notin since[h] => "locked" \notin Noticed(w, "unlocked")[h]
    BY <1>h DEF Noticed
  <2>3. CASE Open(w)
    BY <1>h, <2>1, <2>2, <2>3 DEF Open
  <2>4. CASE Write(w)
    BY <1>h, <2>1, <2>2, <2>4 DEF Write
  <2>5. CASE WriteDetached(w)
    BY <1>h, <2>5 DEF WriteDetached
  <2> QED
    BY <1>7, <2>3, <2>4, <2>5 DEF Unlocked
<1>8. CASE Delete
  <2>1. \A h \in Holders : "locked" \notin since[h] => "locked" \notin Noticed(Nobody, "deleted")[h]
    BY <1>h DEF Noticed
  <2>2. \A h \in Holders : pc'[h] = pc[h]
    BY <1>8, <1>h DEF Delete, Detached
  <2> QED
    BY <1>8, <2>1, <2>2 DEF Delete
<1>9. ASSUME NEW P \in Processes, Crash(P) PROVE LockInv'
  BY <1>9, <1>h DEF Crash
<1>10. CASE UNCHANGED vars
  BY <1>10 DEF vars
<1> QED
  BY <1>1, <1>2, <1>3, <1>4, <1>5, <1>6, <1>7, <1>8, <1>9, <1>10
  DEF Next, Ingest

\* Concurrent votes and sweeps never write over one another (sidecar_lock),
\* with any writers beside them and any crashes.
THEOREM VotesNeverClobber == Spec => []VotesDoNotClobber
<1>1. Init => LockInv
  BY DEF Init, LockInv, VotesDoNotClobber, Actors
<1>2. LockInv => VotesDoNotClobber
  BY DEF LockInv
<1> QED
  BY <1>1, <1>2, TypeInit, TypeStep, LockStep, PTL DEF Spec

(* The tally.  What an actor is going to write is what its update makes of *)
(* the finished updates' file, until a vote, a sweep or a deletion comes   *)
(* between; and nothing but another writer's change can come between a     *)
(* writer's two halves.                                                    *)
FromSerial(a) == buf[a].votes = VotesAfter(a, OrStub(serial).votes)

TallyInv ==
    /\ \A w \in Writers : pc[w] = "write" => since[w] \subseteq {"unlocked"}
    /\ Steady =>
          /\ Readable => serial \in Content /\ file.votes = serial.votes
          /\ file = Absent => serial = Absent
          /\ \A a \in Actors :
                Busy(a) /\ a \notin blind /\ since[a] \cap {"locked", "deleted"} = {}
                    => FromSerial(a)

\* What a reader is going to write is what its update makes of the finished
\* updates' file: the file it reads has their votes, and none has none.
LEMMA ReadsSerial ==
  ASSUME TypeOK, TallyInv, Steady, file # Torn, NEW a \in Actors
  PROVE  VotesAfter(a, OrStub(IF Readable THEN file ELSE Stub).votes)
            = VotesAfter(a, OrStub(serial).votes)
<1>1. CASE Readable
  <2>1. serial \in Content /\ file.votes = serial.votes
    BY <1>1 DEF TallyInv
  <2>2. OrStub(serial) = serial /\ OrStub(file) = file
    BY <1>1, <2>1, FileAssumption DEF OrStub, Readable
  <2> QED
    BY <1>1, <2>1, <2>2
<1>2. CASE ~Readable
  <2>1. file = Absent
    BY <1>2 DEF TypeOK, Readable
  <2>2. serial = Absent
    BY <2>1 DEF TallyInv
  <2> QED
    BY <1>2, <2>2 DEF OrStub
<1> QED
  BY <1>1, <1>2

\* A step that keeps the file keeps the invariant if it keeps every
\* buffer that counts.
LEMMA Quiet ==
  ASSUME TypeOK, TallyInv, UNCHANGED <<file, serial, clobbers, stubbed>>,
         \A w \in Writers : pc'[w] = "write" => pc[w] = "write" /\ since'[w] = since[w],
         \A a \in Actors :
            \/ ~Busy(a)'
            \/ a \in blind'
            \/ Busy(a) /\ since'[a] = since[a] /\ buf'[a].votes = buf[a].votes
               /\ (a \in blind => a \in blind')
            \/ Steady => FromSerial(a)'
  PROVE  TallyInv'
BY DEF TallyInv, Steady, Readable, FromSerial

LEMMA TallyStep == TypeOK /\ LockInv /\ TallyInv /\ [Next]_vars => TallyInv'
<1> SUFFICES ASSUME TypeOK, LockInv, TallyInv, [Next]_vars PROVE TallyInv'
  OBVIOUS
<1> USE Apart DEF history
<1>h. Holders \subseteq Actors /\ Writers \subseteq Actors
  BY DEF Actors
<1>1. ASSUME NEW v \in Voters, Ask(v) PROVE TallyInv'
  <2>1. v \in Holders
    BY DEF Holders
  <2> QED
    BY <1>1, <1>h, <2>1, Quiet DEF Ask, Busy, TypeOK
<1>2. ASSUME NEW s \in Sweepers, StartSweep(s) PROVE TallyInv'
  <2>1. s \in Holders
    BY DEF Holders
  <2> QED
    BY <1>2, <1>h, <2>1, Quiet DEF StartSweep, Busy, TypeOK
<1>3. ASSUME NEW h \in Holders, Locked(h) PROVE TallyInv'
  <2>1. CASE Acquire(h)
    BY <2>1, <1>h, Quiet DEF Acquire, Busy, TypeOK
  <2>2. CASE LockedRead(h)
    <3>1. Readable /\ file # Torn
      BY <2>2, FileAssumption DEF LockedRead, Readable
    <3>2. buf'[h].votes = VotesAfter(h, OrStub(file).votes)
      BY <2>2, <1>h DEF LockedRead, TypeOK, Updated
    <3>3. Steady => FromSerial(h)'
      BY <2>2, <3>1, <3>2, <1>h, ReadsSerial DEF LockedRead, FromSerial
    <3> QED
      BY <2>2, <3>3, <1>h, Quiet DEF LockedRead, Busy, TypeOK
  <2>3. CASE LockedGiveUp(h)
    BY <2>3, <1>h, Quiet DEF LockedGiveUp, Busy, TypeOK
  <2>4. CASE Replace(h)
    <3>1. serial' \in Content /\ serial'.votes = VotesAfter(h, OrStub(serial).votes)
      BY <2>4, <1>h, UpdatedType DEF Replace, TypeOK, Updated
    <3>2. file' = buf[h] /\ file' # Absent
      BY <2>4, <1>h, FileAssumption DEF Replace, TypeOK
    \* Everyone else who has read the file has read it before.
    <3>3. \A a \in Actors : Busy(a)' => "locked" \in since'[a]
      BY <2>4, <1>h DEF Replace, Detached, Noticed, Busy, TypeOK
    <3>4. \A w \in Writers : pc'[w] # "write"
      BY <2>4, <1>h DEF Replace, Detached, TypeOK
    <3>5. ASSUME Steady' PROVE file'.votes = serial'.votes
      <4>1. \A k \in since[h] : <<"locked", k>> \in clobbers'
        BY <2>4, KindOf DEF Replace, Over
      <4>2. "deleted" \notin since[h]
        BY <3>5, <4>1 DEF Steady
      <4>3. Steady
        BY <2>4, <3>5 DEF Replace, Over, Steady
      <4>4. Busy(h) /\ h \notin blind /\ since[h] \cap {"locked", "deleted"} = {}
        BY <2>4, <4>2 DEF Replace, LockInv, TypeOK, Busy
      <4>5. FromSerial(h)
        BY <4>3, <4>4, <1>h DEF TallyInv
      <4> QED
        BY <3>1, <3>2, <4>5 DEF FromSerial
    <3> QED
      BY <3>1, <3>2, <3>3, <3>4, <3>5 DEF TallyInv
  <2> QED
    BY <1>3, <2>1, <2>2, <2>3, <2>4 DEF Locked
<1>4. ASSUME NEW e \in Editors, EditRead(e) PROVE TallyInv'
  <2>1. e \in Writers
    BY DEF Writers
  <2>2. buf'[e].votes = VotesAfter(e, OrStub(IF Readable THEN file ELSE Stub).votes)
    BY <1>4, <2>1, <1>h DEF EditRead, TypeOK, Updated
  <2>3. file = Torn => e \in blind'
    BY <1>4 DEF EditRead
  <2>4. file # Torn => (Steady => FromSerial(e)')
    BY <1>4, <2>1, <2>2, <1>h, ReadsSerial DEF EditRead, FromSerial
  <2>5. \A a \in Actors \ {e} : pc'[a] = pc[a] /\ since'[a] = since[a] /\ buf'[a] = buf[a]
                                /\ (a \in blind => a \in blind')
    BY <1>4 DEF EditRead, TypeOK
  <2>6. pc'[e] = "open"
    BY <1>4, <2>1, <1>h DEF EditRead, TypeOK
  <2>7. UNCHANGED <<file, serial, clobbers, stubbed>>
    BY <1>4 DEF EditRead
  <2> QED
    BY <2>3, <2>4, <2>5, <2>6, <2>7, <1>h, Quiet DEF Busy
<1>5. CASE IngestRead
  <2> DEFINE old == Updated("worker", IF Readable THEN file ELSE Stub)
  <2>1. "worker" \in Writers
    BY DEF Writers
  <2>0. buf' = [buf EXCEPT !["worker"] = [old EXCEPT !.keys = @ \ {"refactor"}]]
    BY <1>5 DEF IngestRead
  <2>2. buf'["worker"].votes = VotesAfter("worker", OrStub(IF Readable THEN file ELSE Stub).votes)
    BY <2>0, <2>1, <1>h DEF TypeOK, Updated
  <2>3. file = Torn => "worker" \in blind'
    BY <1>5 DEF IngestRead
  <2>7. UNCHANGED <<file, serial, clobbers, stubbed>>
    BY <1>5 DEF IngestRead
  <2>4. file # Torn => (Steady => FromSerial("worker")')
    BY <2>7, <2>1, <2>2, <1>h, ReadsSerial DEF FromSerial
  <2>5. \A a \in Actors \ {"worker"} : pc'[a] = pc[a] /\ since'[a] = since[a] /\ buf'[a] = buf[a]
                                       /\ (a \in blind => a \in blind')
    BY <1>5, <2>0 DEF IngestRead, TypeOK
  <2>6. pc'["worker"] = "artwork"
    BY <1>5, <2>1, <1>h DEF IngestRead, TypeOK
  <2> QED
    BY <2>3, <2>4, <2>5, <2>6, <2>7, <1>h, Quiet DEF Busy
<1>6. CASE IngestReadHistory
  <2>1. "worker" \in Writers
    BY DEF Writers
  <2>2. buf'["worker"].votes = buf["worker"].votes
    BY <1>6, <2>1, <1>h DEF IngestReadHistory, TypeOK, Content
  <2>3. \A a \in Actors \ {"worker"} : pc'[a] = pc[a] /\ buf'[a] = buf[a]
    BY <1>6 DEF IngestReadHistory, TypeOK
  <2>4. pc["worker"] = "artwork" /\ pc'["worker"] = "open" /\ since' = since /\ blind \subseteq blind'
    BY <1>6, <2>1, <1>h DEF IngestReadHistory, TypeOK
  <2>5. UNCHANGED <<file, serial, clobbers, stubbed>>
    BY <1>6 DEF IngestReadHistory
  <2> QED
    BY <2>2, <2>3, <2>4, <2>5, <1>h, Quiet DEF Busy
<1>7. ASSUME NEW w \in Writers, Unlocked(w) PROVE TallyInv'
  <2>0. w \in Actors /\ Kind(w) = "unlocked"
    BY <1>h, KindOf
  <2>1. CASE Open(w)
    <3>1. Steady' => Steady
      BY <2>1 DEF Open, Over, Steady
    <3>2. file' = Torn /\ serial' = serial /\ buf' = buf /\ blind' = blind
      BY <2>1 DEF Open
    <3>3. \A a \in Actors \ {w} : pc'[a] = pc[a] /\ (Busy(a) => since'[a] = since[a] \cup {"unlocked"})
      BY <2>1 DEF Open, Noticed, TypeOK
    <3>4. pc'[w] = "write" /\ since'[w] = {}
      BY <2>0, <2>1 DEF Open, Noticed, TypeOK
    <3>5. since[w] # {} => ~Steady'
      <4>1. \A k \in since[w] : <<"unlocked", k>> \in clobbers'
        BY <2>0, <2>1 DEF Open, Over
      <4> QED
        BY <4>1 DEF Steady
    <3>6. \A v \in Writers : pc'[v] = "write" => since'[v] \subseteq {"unlocked"}
      BY <3>3, <3>4, <1>h DEF TallyInv, Busy
    <3>7. ASSUME Steady', NEW a \in Actors,
                 Busy(a)' /\ a \notin blind' /\ since'[a] \cap {"locked", "deleted"} = {}
          PROVE  FromSerial(a)'
      <4>1. CASE a = w
        <5>1. Busy(w) /\ w \notin blind /\ since[w] = {}
          BY <2>1, <3>2, <3>5, <3>7, <4>1 DEF Open, Busy
        <5> QED
          BY <3>1, <3>2, <3>7, <4>1, <5>1 DEF TallyInv, FromSerial
      <4>2. CASE a # w
        <5>1. Busy(a) /\ a \notin blind /\ since[a] \cap {"locked", "deleted"} = {}
          BY <3>2, <3>3, <3>7, <4>2 DEF Busy
        <5> QED
          BY <3>1, <3>2, <3>7, <5>1 DEF TallyInv, FromSerial
      <4> QED
        BY <4>1, <4>2
    <3> QED
      BY <3>2, <3>6, <3>7, FileAssumption DEF TallyInv, Readable
  <2>2. CASE Write(w)
    <3>1. Steady' => Steady /\ since[w] = {} /\ w \notin blind
      <4>1. \A k \in since[w] : <<"unlocked", k>> \in clobbers'
        BY <2>0, <2>2 DEF Write, Over
      <4>2. Steady' => since[w] = {}
        BY <4>1 DEF Steady
      <4>3. clobbers \subseteq clobbers' /\ stubbed' = (stubbed \/ w \in blind)
        BY <2>2 DEF Write, Over
      <4> QED
        BY <4>2, <4>3 DEF Steady
    <3>2. \A n : VotesAfter(w, n) = n
      BY DEF VotesAfter, Holders
    <3>3. serial' \in Content /\ serial'.votes = OrStub(serial).votes
      BY <2>0, <2>2, <3>2, UpdatedType DEF Write, TypeOK, Updated
    <3>4. OrStub(serial') = serial'
      BY <3>3, FileAssumption DEF OrStub
    <3>5. \A a \in Actors \ {w} : /\ pc'[a] = pc[a] /\ buf'[a] = buf[a]
                                  /\ (a \in blind => a \in blind')
                                  /\ (Busy(a) => since'[a] = since[a] \cup {"unlocked"})
      BY <2>2 DEF Write, Noticed, TypeOK
    <3>6. pc'[w] = "idle" /\ pc[w] = "write"
      BY <2>0, <2>2 DEF Write, TypeOK
    <3>7. \A v \in Writers : pc'[v] = "write" => since'[v] \subseteq {"unlocked"}
      BY <3>5, <3>6, <1>h DEF TallyInv, Busy
    <3>8. file' \in Content \cup {Torn} /\ file' # Absent
      BY <2>0, <2>2, FileAssumption DEF Write, TypeOK
    <3>9. ASSUME Steady' PROVE file' = buf[w] /\ file'.votes = serial'.votes
      <4>1. file' = buf[w]
        BY <2>2, <3>1, <3>9 DEF Write
      <4>2. FromSerial(w)
        BY <2>0, <3>1, <3>6, <3>9 DEF TallyInv, Busy
      <4> QED
        BY <3>2, <3>3, <4>1, <4>2 DEF FromSerial
    <3>10. ASSUME Steady', NEW a \in Actors,
                  Busy(a)' /\ a \notin blind' /\ since'[a] \cap {"locked", "deleted"} = {}
           PROVE  FromSerial(a)'
      <4>1. a # w
        BY <3>6, <3>10 DEF Busy
      <4>2. Busy(a) /\ a \notin blind /\ since[a] \cap {"locked", "deleted"} = {}
        BY <3>5, <3>10, <4>1 DEF Busy
      <4>3. FromSerial(a)
        BY <3>1, <3>10, <4>2 DEF TallyInv
      <4> QED
        BY <3>3, <3>4, <3>5, <4>1, <4>3 DEF FromSerial
    <3> QED
      BY <3>3, <3>7, <3>8, <3>9, <3>10 DEF TallyInv
  <2>3. CASE WriteDetached(w)
    <3>1. pc' = [pc EXCEPT ![w] = "idle"] /\ blind' = blind \ {w} /\ since' = since
          /\ buf' = [buf EXCEPT ![w] = Stub] /\ UNCHANGED <<file, serial, clobbers, stubbed>>
      BY <2>3 DEF WriteDetached
    <3> QED
      BY <2>0, <3>1, <1>h, Quiet DEF Busy, TypeOK
  <2> QED
    BY <1>7, <2>1, <2>2, <2>3 DEF Unlocked
<1>8. CASE Delete
  <2>1. file' = Absent /\ serial' = Absent
    BY <1>8 DEF Delete
  <2>2. \A a \in Actors : pc'[a] # "write" /\ (Busy(a)' => "deleted" \in since'[a])
    <3>1. Nobody \notin Actors
      BY ActorsAssumption, EditorsAssumption DEF Actors, Holders, Writers
    <3> QED
      BY <1>8, <3>1 DEF Delete, Detached, Noticed, Busy, TypeOK
  <2> QED
    BY <2>1, <2>2, <1>h, FileAssumption DEF TallyInv, Readable
<1>9. ASSUME NEW P \in Processes, Crash(P) PROVE TallyInv'
  <2>1. \A a \in Actors : \/ pc'[a] = "idle"
                          \/ /\ pc'[a] = pc[a] /\ since'[a] = since[a] /\ buf'[a] = buf[a]
                             /\ (a \in blind => a \in blind')
    BY <1>9 DEF Crash, TypeOK
  <2>2. UNCHANGED <<file, serial, clobbers, stubbed>>
    BY <1>9 DEF Crash
  <2> QED
    BY <2>1, <2>2, <1>h, Quiet DEF Busy
<1>10. CASE UNCHANGED vars
  BY <1>10 DEF vars, TallyInv, Steady, Readable, Busy, FromSerial
<1> QED
  BY <1>1, <1>2, <1>3, <1>4, <1>5, <1>6, <1>7, <1>8, <1>9, <1>10
  DEF Next, Ingest

\* The tally of votes is exact (apply_vote, sweep_votes and the blocks an
\* ingest keeps) unless a writer without the lock wrote over a newer file or
\* took a torn one for empty, or the sheep was deleted under a vote.
THEOREM TallyStaysExact == Spec => []TallyIsExact
<1>1. Init => LockInv
  BY DEF Init, LockInv, VotesDoNotClobber, Actors
<1>2. Init => TallyInv
  <2> SUFFICES ASSUME Init PROVE TallyInv
    OBVIOUS
  <2>1. \A a \in Actors : pc[a] = "idle"
    BY DEF Init
  <2>2. serial = file /\ (Readable => serial \in Content)
    BY DEF Init, Readable
  <2> QED
    BY <2>1, <2>2 DEF TallyInv, Busy, Actors
<1>3. TallyInv => TallyIsExact
  BY DEF TallyInv, TallyIsExact
<1> QED
  BY <1>1, <1>2, <1>3, TypeInit, TypeStep, LockStep, TallyStep, PTL DEF Spec


-----------------------------------------------------------------------------
(* The edits.  As long as nobody wrote over a newer file, what an actor is  *)
(* going to write has the blocks its update makes of the finished updates'  *)
(* file, unless the file has changed since it read it.  Between its two     *)
(* readings the worker has yet to add the refactor history.                 *)
Pure == ~stubbed /\ clobbers = {}

Pending(a, ks) ==
    IF pc[a] = "artwork" THEN KeysAfter(a, ks) \ {"refactor"} ELSE KeysAfter(a, ks)

KeysOfSerial(a) == buf[a].keys = Pending(a, OrStub(serial).keys)

EditsInv ==
    Pure =>
       /\ Readable => serial \in Content /\ file.keys = serial.keys
       /\ \A a \in Actors :
             Busy(a) /\ a \notin blind /\ since[a] = {} => KeysOfSerial(a)

LEMMA PureIsSteady == Pure => Steady
BY DEF Pure, Steady

\* A file that can be read, or that is not there, has the blocks of the
\* finished updates' file.
LEMMA ReadsKeys ==
  ASSUME TypeOK, TallyInv, EditsInv, Pure, file # Torn
  PROVE  OrStub(IF Readable THEN file ELSE Stub).keys = OrStub(serial).keys
<1>1. CASE Readable
  <2>1. serial \in Content /\ file.keys = serial.keys
    BY <1>1 DEF EditsInv
  <2>2. OrStub(serial) = serial /\ OrStub(file) = file
    BY <1>1, <2>1, FileAssumption DEF OrStub, Readable
  <2> QED
    BY <1>1, <2>1, <2>2
<1>2. CASE ~Readable
  <2>1. file = Absent
    BY <1>2 DEF TypeOK, Readable
  <2>2. serial = Absent
    BY <2>1, PureIsSteady DEF TallyInv
  <2> QED
    BY <1>2, <2>2 DEF OrStub
<1> QED
  BY <1>1, <1>2

\* A step that keeps the file keeps the invariant if it keeps every
\* buffer that counts.
LEMMA QuietEdits ==
  ASSUME TypeOK, EditsInv, UNCHANGED <<file, serial, clobbers, stubbed>>,
         \A a \in Actors :
            \/ ~Busy(a)'
            \/ a \in blind'
            \/ Busy(a) /\ since'[a] = since[a] /\ buf'[a].keys = buf[a].keys
               /\ pc'[a] = pc[a] /\ (a \in blind => a \in blind')
            \/ Pure /\ since'[a] = {} => KeysOfSerial(a)'
  PROVE  EditsInv'
BY DEF EditsInv, Pure, Readable, KeysOfSerial, Pending

LEMMA EditsStep == TypeOK /\ TallyInv /\ EditsInv /\ [Next]_vars => EditsInv'
<1> SUFFICES ASSUME TypeOK, TallyInv, EditsInv, [Next]_vars PROVE EditsInv'
  OBVIOUS
<1> USE Apart DEF history
<1>h. Holders \subseteq Actors /\ Writers \subseteq Actors
  BY DEF Actors
<1>1. ASSUME NEW v \in Voters, Ask(v) PROVE EditsInv'
  <2>1. v \in Holders
    BY DEF Holders
  <2> QED
    BY <1>1, <1>h, <2>1, QuietEdits DEF Ask, Busy, TypeOK
<1>2. ASSUME NEW s \in Sweepers, StartSweep(s) PROVE EditsInv'
  <2>1. s \in Holders
    BY DEF Holders
  <2> QED
    BY <1>2, <1>h, <2>1, QuietEdits DEF StartSweep, Busy, TypeOK
<1>3. ASSUME NEW h \in Holders, Locked(h) PROVE EditsInv'
  <2>1. CASE Acquire(h)
    BY <2>1, <1>h, QuietEdits DEF Acquire, Busy, TypeOK
  <2>2. CASE LockedRead(h)
    <3>1. Readable /\ file # Torn
      BY <2>2, FileAssumption DEF LockedRead, Readable
    <3>2. buf'[h].keys = KeysAfter(h, OrStub(file).keys) /\ pc'[h] = "replace"
      BY <2>2, <1>h DEF LockedRead, TypeOK, Updated
    <3>3. Pure => KeysOfSerial(h)'
      BY <2>2, <3>1, <3>2, ReadsKeys DEF LockedRead, KeysOfSerial, Pending
    <3> QED
      BY <2>2, <3>3, <1>h, QuietEdits DEF LockedRead, Busy, TypeOK
  <2>3. CASE LockedGiveUp(h)
    BY <2>3, <1>h, QuietEdits DEF LockedGiveUp, Busy, TypeOK
  <2>4. CASE Replace(h)
    <3>1. serial' \in Content /\ serial'.keys = KeysAfter(h, OrStub(serial).keys)
      BY <2>4, <1>h, UpdatedType DEF Replace, TypeOK, Updated
    <3>2. file' = buf[h] /\ pc[h] = "replace"
      BY <2>4 DEF Replace
    \* Everyone else who has read the file has read it before.
    <3>3. \A a \in Actors : Busy(a)' => "locked" \in since'[a]
      BY <2>4, <1>h DEF Replace, Detached, Noticed, Busy, TypeOK
    <3>4. ASSUME Pure' PROVE file'.keys = serial'.keys
      <4>1. \A k \in since[h] : <<Kind(h), k>> \in clobbers'
        BY <2>4 DEF Replace, Over
      <4>2. since[h] = {}
        BY <3>4, <4>1 DEF Pure
      <4>3. Pure
        BY <2>4, <3>4 DEF Replace, Over, Pure
      <4>4. Busy(h) /\ h \notin blind
        BY <3>2 DEF TypeOK, Busy
      <4>5. KeysOfSerial(h)
        BY <4>2, <4>3, <4>4, <1>h DEF EditsInv
      <4> QED
        BY <3>1, <3>2, <4>5 DEF KeysOfSerial, Pending
    <3> QED
      BY <3>1, <3>3, <3>4 DEF EditsInv
  <2> QED
    BY <1>3, <2>1, <2>2, <2>3, <2>4 DEF Locked
<1>4. ASSUME NEW e \in Editors, EditRead(e) PROVE EditsInv'
  <2>1. e \in Writers
    BY DEF Writers
  <2>2. buf'[e].keys = KeysAfter(e, OrStub(IF Readable THEN file ELSE Stub).keys)
    BY <1>4, <2>1, <1>h DEF EditRead, TypeOK, Updated
  <2>3. file = Torn => e \in blind'
    BY <1>4 DEF EditRead
  <2>4. pc'[e] = "open"
    BY <1>4, <2>1, <1>h DEF EditRead, TypeOK
  <2>5. UNCHANGED <<file, serial, clobbers, stubbed>>
    BY <1>4 DEF EditRead
  <2>6. file # Torn => (Pure => KeysOfSerial(e)')
    BY <2>2, <2>4, <2>5, ReadsKeys DEF KeysOfSerial, Pending
  <2>7. \A a \in Actors \ {e} : pc'[a] = pc[a] /\ since'[a] = since[a] /\ buf'[a] = buf[a]
                                /\ (a \in blind => a \in blind')
    BY <1>4 DEF EditRead, TypeOK
  <2> QED
    BY <2>3, <2>5, <2>6, <2>7, <1>h, QuietEdits DEF Busy
<1>5. CASE IngestRead
  <2> DEFINE old == Updated("worker", IF Readable THEN file ELSE Stub)
  <2>1. "worker" \in Writers
    BY DEF Writers
  <2>0. buf' = [buf EXCEPT !["worker"] = [old EXCEPT !.keys = @ \ {"refactor"}]]
    BY <1>5 DEF IngestRead
  <2>2. buf'["worker"].keys = KeysAfter("worker", OrStub(IF Readable THEN file ELSE Stub).keys)
                                 \ {"refactor"}
    BY <2>0, <2>1, <1>h DEF TypeOK, Updated
  <2>3. file = Torn => "worker" \in blind'
    BY <1>5 DEF IngestRead
  <2>4. pc'["worker"] = "artwork"
    BY <1>5, <2>1, <1>h DEF IngestRead, TypeOK
  <2>5. UNCHANGED <<file, serial, clobbers, stubbed>>
    BY <1>5 DEF IngestRead
  <2>6. file # Torn => (Pure => KeysOfSerial("worker")')
    BY <2>2, <2>4, <2>5, ReadsKeys DEF KeysOfSerial, Pending
  <2>7. \A a \in Actors \ {"worker"} : pc'[a] = pc[a] /\ since'[a] = since[a] /\ buf'[a] = buf[a]
                                       /\ (a \in blind => a \in blind')
    BY <1>5, <2>0 DEF IngestRead, TypeOK
  <2> QED
    BY <2>3, <2>5, <2>6, <2>7, <1>h, QuietEdits DEF Busy
<1>6. CASE IngestReadHistory
  <2> DEFINE seen == IF Readable THEN file.keys \cap {"refactor"} ELSE {}
  <2>1. "worker" \in Writers
    BY DEF Writers
  <2>2. buf'["worker"].keys = buf["worker"].keys \cup seen
    BY <1>6, <2>1, <1>h DEF IngestReadHistory, TypeOK, Content
  <2>3. \A a \in Actors \ {"worker"} : pc'[a] = pc[a] /\ buf'[a] = buf[a]
    BY <1>6 DEF IngestReadHistory, TypeOK
  <2>4. /\ pc["worker"] = "artwork" /\ pc'["worker"] = "open" /\ since' = since
        /\ blind \subseteq blind' /\ (file = Torn => "worker" \in blind')
        /\ UNCHANGED <<file, serial, clobbers, stubbed>>
    BY <1>6, <2>1, <1>h DEF IngestReadHistory, TypeOK
  \* Nobody has changed the file since the first reading, so the second
  \* finds the history of the finished updates' file.
  <2>5. ASSUME Pure, since["worker"] = {}, "worker" \notin blind'
        PROVE  KeysOfSerial("worker")'
    <3>1. buf["worker"].keys = KeysAfter("worker", OrStub(serial).keys) \ {"refactor"}
      BY <2>1, <2>4, <2>5, <1>h DEF EditsInv, KeysOfSerial, Pending, Busy
    <3>2. OrStub(IF Readable THEN file ELSE Stub).keys = OrStub(serial).keys
      BY <2>4, <2>5, ReadsKeys
    <3>3. seen = OrStub(serial).keys \cap {"refactor"}
      BY <3>2, FileAssumption DEF OrStub, Readable, Stub
    <3>4. \A ks : KeysAfter("worker", ks) = (ks \cap {"alias", "refactor"}) \cup {"stills"}
      BY EditorsAssumption DEF KeysAfter, KeyOf
    <3>5. (KeysAfter("worker", OrStub(serial).keys) \ {"refactor"}) \cup seen
             = KeysAfter("worker", OrStub(serial).keys)
      BY <3>3, <3>4
    <3> QED
      BY <2>2, <2>4, <3>1, <3>5 DEF KeysOfSerial, Pending
  <2> QED
    BY <2>3, <2>4, <2>5, <1>h, QuietEdits DEF Busy
<1>7. ASSUME NEW w \in Writers, Unlocked(w) PROVE EditsInv'
  <2>0. w \in Actors
    BY <1>h
  <2>1. CASE Open(w)
    <3>1. Pure' => Pure /\ since[w] = {}
      <4>1. \A k \in since[w] : <<Kind(w), k>> \in clobbers'
        BY <2>1 DEF Open, Over
      <4>2. clobbers \subseteq clobbers' /\ stubbed' = stubbed
        BY <2>1 DEF Open, Over
      <4> QED
        BY <4>1, <4>2 DEF Pure
    <3>2. file' = Torn /\ serial' = serial /\ buf' = buf /\ blind' = blind
      BY <2>1 DEF Open
    <3>3. \A a \in Actors \ {w} : Busy(a)' => "unlocked" \in since'[a]
      BY <2>1 DEF Open, Noticed, TypeOK, Busy
    <3>4. pc[w] = "open" /\ pc'[w] = "write"
      BY <2>0, <2>1 DEF Open, TypeOK
    <3>5. Pure' /\ w \notin blind' => KeysOfSerial(w)'
      BY <2>0, <3>1, <3>2, <3>4 DEF EditsInv, Busy, KeysOfSerial, Pending
    <3> QED
      BY <3>2, <3>3, <3>5, FileAssumption DEF EditsInv, Readable
  <2>2. CASE Write(w)
    <3>1. Pure' => Pure /\ since[w] = {} /\ w \notin blind
      <4>1. \A k \in since[w] : <<Kind(w), k>> \in clobbers'
        BY <2>2 DEF Write, Over
      <4>2. clobbers \subseteq clobbers' /\ stubbed' = (stubbed \/ w \in blind)
        BY <2>2 DEF Write, Over
      <4> QED
        BY <4>1, <4>2 DEF Pure
    <3>2. serial' \in Content /\ serial'.keys = KeysAfter(w, OrStub(serial).keys)
      BY <2>0, <2>2, UpdatedType DEF Write, TypeOK, Updated
    <3>3. pc[w] = "write" /\ pc'[w] = "idle"
      BY <2>0, <2>2 DEF Write, TypeOK
    <3>4. \A a \in Actors : Busy(a)' => "unlocked" \in since'[a]
      BY <2>2, <3>3 DEF Write, Noticed, TypeOK, Busy
    <3>5. ASSUME Pure' PROVE file'.keys = serial'.keys
      <4>1. file' = buf[w]
        BY <2>2, <3>1, <3>5 DEF Write
      <4>2. KeysOfSerial(w)
        BY <2>0, <3>1, <3>3, <3>5 DEF EditsInv, Busy
      <4> QED
        BY <3>2, <3>3, <4>1, <4>2 DEF KeysOfSerial, Pending
    <3> QED
      BY <3>2, <3>4, <3>5 DEF EditsInv
  <2>3. CASE WriteDetached(w)
    <3>1. pc' = [pc EXCEPT ![w] = "idle"] /\ blind' = blind \ {w} /\ since' = since
          /\ buf' = [buf EXCEPT ![w] = Stub] /\ UNCHANGED <<file, serial, clobbers, stubbed>>
      BY <2>3 DEF WriteDetached
    <3> QED
      BY <2>0, <3>1, <1>h, QuietEdits DEF Busy, TypeOK
  <2> QED
    BY <1>7, <2>1, <2>2, <2>3 DEF Unlocked
<1>8. CASE Delete
  <2>1. Nobody \notin Actors
    BY ActorsAssumption, EditorsAssumption DEF Actors, Holders, Writers
  <2>2. \A a \in Actors : Busy(a)' => "deleted" \in since'[a]
    BY <1>8, <2>1 DEF Delete, Detached, Noticed, Busy, TypeOK
  <2>3. file' = Absent
    BY <1>8 DEF Delete
  <2> QED
    BY <2>2, <2>3, FileAssumption DEF EditsInv, Readable
<1>9. ASSUME NEW P \in Processes, Crash(P) PROVE EditsInv'
  <2>1. \A a \in Actors : \/ pc'[a] = "idle"
                          \/ /\ pc'[a] = pc[a] /\ since'[a] = since[a] /\ buf'[a] = buf[a]
                             /\ (a \in blind => a \in blind')
    BY <1>9 DEF Crash, TypeOK
  <2>2. UNCHANGED <<file, serial, clobbers, stubbed>>
    BY <1>9 DEF Crash
  <2> QED
    BY <2>1, <2>2, <1>h, QuietEdits DEF Busy
<1>10. CASE UNCHANGED vars
  BY <1>10 DEF vars, EditsInv, Pure, Readable, Busy, KeysOfSerial, Pending
<1> QED
  BY <1>1, <1>2, <1>3, <1>4, <1>5, <1>6, <1>7, <1>8, <1>9, <1>10
  DEF Next, Ingest

\* A human's alias and the refactor history are in the file that is read
\* next, whoever voted, edited, ingested or died in between, unless someone
\* wrote over a newer file or took a torn one for empty (process_genome,
\* naming, refactor, stills).
THEOREM EditsStay == Spec => []EditsAreKept
<1>1. Init => LockInv
  BY DEF Init, LockInv, VotesDoNotClobber, Actors
<1>2. Init => TallyInv /\ EditsInv
  <2> SUFFICES ASSUME Init PROVE TallyInv /\ EditsInv
    OBVIOUS
  <2>1. \A a \in Actors : pc[a] = "idle"
    BY DEF Init
  <2>2. serial = file /\ (Readable => serial \in Content)
    BY DEF Init, Readable
  <2> QED
    BY <2>1, <2>2 DEF TallyInv, EditsInv, Busy, Actors
<1>3. EditsInv => EditsAreKept
  BY DEF EditsInv, EditsAreKept, Pure, Steady
<1> QED
  BY <1>1, <1>2, <1>3, TypeInit, TypeStep, LockStep, TallyStep, EditsStep, PTL DEF Spec
=============================================================================
