----------------------------- MODULE ClaimProofs -----------------------------
(***************************************************************************)
(* What the worker claims, and when: the order of the inbox (InboxFifo) for *)
(* every set of names, inodes and clock bound, and at the end the idle gate *)
(* that lets it claim (IdleGate) for every delay, poll interval and number  *)
(* of crashes.  The names of the gate's specification begin with Gate.      *)
(***************************************************************************)
EXTENDS InboxFifo, IdleGate, FiniteSetTheorems, TLAPS

(***************************************************************************)
(* The ledger arithmetic: a scan that appends its unknown files gives them  *)
(* numbers from next_seq up and leaves next_seq above all of them.          *)
(***************************************************************************)
LEMMA SyncNumbers ==
  ASSUME TypeOK, SeqInv, NEW r \in Rankings
  PROVE  /\ Cardinality(Unknown) \in Nat
         /\ r \in [Unknown -> Nat]
         /\ \A n \in Unknown : r[n] < Cardinality(Unknown)
         /\ SyncedNext = nextSeq + Cardinality(Unknown)
<1>1. IsFiniteSet(Unknown) /\ Cardinality(Unknown) \in Nat
  BY InboxAssumption, FS_Subset, FS_CardinalityType DEF Unknown, Present
<1>2. r \in [Unknown -> 0..(Cardinality(Unknown) - 1)]
  BY DEF Rankings
<1>3. ~ \E n \in Known : seq[n] >= NextFree
  BY <1>1 DEF NextFree, SeqInv, TypeOK, Known, Present
<1>4. SyncedNext = nextSeq + Cardinality(Unknown)
  BY <1>3 DEF SyncedNext, NextFree
<1> QED
  BY <1>1, <1>2, <1>4

LEMMA SyncedSeqType ==
  ASSUME TypeOK, SeqInv, NEW r \in Rankings
  PROVE  /\ SyncedSeq(r) \in [Names -> Nat]
         /\ \A n \in Known : SyncedSeq(r)[n] = seq[n]
         /\ \A n \in Unknown : SyncedSeq(r)[n] = nextSeq + r[n]
         /\ \A n \in Names : n \notin Present => SyncedSeq(r)[n] = 0
<1>1. Known \subseteq Present /\ Unknown = Present \ Known /\ Present \subseteq Names
  BY DEF Known, Unknown, Present
<1>2. r \in [Unknown -> Nat]
  BY SyncNumbers
<1> QED
  BY <1>1, <1>2 DEF SyncedSeq, TypeOK

-----------------------------------------------------------------------------
IInv == TypeOK /\ SeqInv

LEMMA InitIInv == Init => IInv
  BY InboxAssumption DEF Init, IInv, TypeOK, SeqInv, Times, Stamps

\* A sync preserves the types and the ledger arithmetic.
LEMMA SyncIInv == IInv /\ Sync => IInv'
<1> SUFFICES ASSUME IInv, Sync PROVE IInv'
  OBVIOUS
<1> USE DEF IInv
<1>1. PICK r \in Rankings :
        /\ seq' = SyncedSeq(r)
        /\ entry' = SyncedEntry
        /\ nextSeq' = SyncedNext
        /\ ledger' \in {ledger, "ok"}
        /\ head' \in Names \cup {NoFile}
  BY DEF Sync, Present
<1>2. /\ Cardinality(Unknown) \in Nat
      /\ r \in [Unknown -> Nat]
      /\ \A n \in Unknown : r[n] < Cardinality(Unknown)
      /\ nextSeq' = nextSeq + Cardinality(Unknown)
  BY <1>1, SyncNumbers
<1>3. /\ seq' \in [Names -> Nat]
      /\ \A n \in Known : seq'[n] = seq[n]
      /\ \A n \in Unknown : seq'[n] = nextSeq + r[n]
      /\ \A n \in Names : n \notin Present => seq'[n] = 0
  BY <1>1, SyncedSeqType
<1>4. UNCHANGED <<diskVars, working>>
  BY DEF Sync
<1>5. TypeOK'
  <2>1. nextSeq' \in Nat \ {0}
    BY <1>2 DEF TypeOK
  <2>2. entry' \in [Names -> Inodes \cup {NoFile}]
    BY <1>1 DEF SyncedEntry, TypeOK
  <2>3. ledger' \in {"absent", "ok", "unreadable"}
    BY <1>1 DEF TypeOK
  <2> QED
    BY <1>1, <1>3, <1>4, <2>1, <2>2, <2>3
       DEF TypeOK, diskVars, fileVars, stagerVars, changeVars
<1>6. \A n \in Names : \/ n \in Known
                       \/ n \in Unknown
                       \/ n \notin Present
  BY DEF Unknown
<1>7. \A n \in Known : n \in Names /\ seq[n] \in Nat /\ 0 < seq[n] /\ seq[n] < nextSeq
  BY DEF Known, Present, SeqInv, TypeOK
<1>8. \A n \in Unknown : n \in Names
  BY DEF Unknown, Present
<1>9. SeqInv'
  <2>1. \A n \in Names : seq'[n] < nextSeq'
    BY <1>2, <1>3, <1>6, <1>7 DEF TypeOK
  <2>2. ASSUME NEW m \in Names, NEW n \in Names, m # n, seq'[m] > 0, seq'[n] > 0
        PROVE  seq'[m] # seq'[n]
    <3>1. CASE m \in Known /\ n \in Known
      BY <2>2, <3>1, <1>3, <1>7 DEF SeqInv
    <3>2. CASE m \in Known /\ n \in Unknown
      BY <3>2, <1>2, <1>3, <1>7 DEF TypeOK
    <3>3. CASE m \in Unknown /\ n \in Known
      BY <3>3, <1>2, <1>3, <1>7 DEF TypeOK
    <3>4. CASE m \in Unknown /\ n \in Unknown
      <4>1. r[m] # r[n]
        BY <2>2, <3>4 DEF Rankings
      <4> QED
        BY <4>1, <3>4, <1>2, <1>3 DEF TypeOK
    <3> QED
      BY <2>2, <1>3, <1>6, <3>1, <3>2, <3>3, <3>4
  <2> QED
    BY <2>1, <2>2 DEF SeqInv
<1> QED
  BY <1>5, <1>9

LEMMA ChangedType ==
  ASSUME TypeOK, NEW n \in Names, NEW p \in Stagers \cup {NoFile}, now' \in Times,
         Changed(n, p)
  PROVE  /\ ctime' \in [Names -> Times] /\ later' \subseteq Names \X Names
         /\ stamper' \in [Names -> Stagers \cup {NoFile}] /\ steady' \subseteq Names
<1>1. Present \subseteq Names
  BY DEF Present
<1>2. later' \subseteq Names \X Names
  BY <1>1 DEF Changed, TypeOK
<1> QED
  BY <1>2 DEF Changed, StillSteady, TypeOK

\* A file that leaves disturbs no type, wherever the worker is.
LEMMA LeavesType ==
  ASSUME IInv, NEW n \in Names, Leaves(n),
         head' \in Names \cup {NoFile}, working' \in Inodes \cup {NoFile}
  PROVE  IInv'
<1>1. later' \subseteq Names \X Names
  BY DEF Leaves, IInv, TypeOK
<1>2. 0 \in Times /\ 0 \in Stamps
  BY InboxAssumption DEF Times, Stamps
<1> QED
  BY <1>1, <1>2 DEF Leaves, IInv, TypeOK, SeqInv, stagerVars, ledgerVars

LEMMA NextIInv == IInv /\ [Next]_vars => IInv'
<1> SUFFICES ASSUME IInv, [Next]_vars PROVE IInv'
  OBVIOUS
<1> USE InboxAssumption DEF IInv
<1> USE DEF diskVars, fileVars, stagerVars, changeVars, ledgerVars, workerVars
<1>1. ASSUME NEW p \in Stagers, NEW n \in Names, Land(p, n) PROVE IInv'
  <2>1. PICK i \in Allocatable :
          /\ inbox' = [inbox EXCEPT ![n] = i]
          /\ used' = used \cup {i}
    BY <1>1 DEF Land
  <2>2. i \in Inodes /\ now' \in Times /\ 0 \in Stamps /\ now' \in Stamps
    BY <1>1 DEF Allocatable, Land, ReadClock, Times, Stamps
  <2>3. /\ ctime' \in [Names -> Times] /\ later' \subseteq Names \X Names
        /\ stamper' \in [Names -> Stagers \cup {NoFile}] /\ steady' \subseteq Names
    BY <1>1, <2>2, ChangedType DEF Land
  <2>4. /\ inbox' \in [Names -> Inodes \cup {NoFile}] /\ used' \subseteq Inodes
        /\ mtime' \in [Names -> Stamps] /\ hand' \in [Stagers -> Names \cup {NoFile}]
    BY <1>1, <2>1, <2>2 DEF Land, TypeOK
  <2>5. last' = last /\ UNCHANGED <<ledgerVars, workerVars>>
    BY <1>1 DEF Land
  <2> QED
    BY <2>2, <2>3, <2>4, <2>5 DEF TypeOK, SeqInv
<1>2. ASSUME NEW p \in Stagers, NEW n \in Names, CopyOver(p, n) PROVE IInv'
  <2>1. now' \in Times /\ 0 \in Stamps
    BY <1>2 DEF CopyOver, ReadClock, Stamps
  <2>2. /\ ctime' \in [Names -> Times] /\ later' \subseteq Names \X Names
        /\ stamper' \in [Names -> Stagers \cup {NoFile}] /\ steady' \subseteq Names
    BY <1>2, <2>1, ChangedType DEF CopyOver
  <2> QED
    BY <1>2, <2>1, <2>2 DEF CopyOver, TypeOK, SeqInv
<1>3. ASSUME NEW p \in Stagers, Stamp(p) PROVE IInv'
  <2>1. /\ now' \in Times /\ StampOf(p) \in Stamps /\ hand[p] \in Names
        /\ last' \in [Stagers -> Stamps] /\ hand' \in [Stagers -> Names \cup {NoFile}]
    BY <1>3 DEF Stamp, ReadClock, TypeOK
  <2>2. CASE inbox[hand[p]] = NoFile
    BY <1>3, <2>1, <2>2 DEF Stamp, StillSteady, TypeOK, SeqInv
  <2>3. CASE inbox[hand[p]] # NoFile
    <3>1. Changed(hand[p], p) /\ mtime' = [mtime EXCEPT ![hand[p]] = StampOf(p)]
      BY <1>3, <2>3 DEF Stamp
    <3>2. /\ ctime' \in [Names -> Times] /\ later' \subseteq Names \X Names
          /\ stamper' \in [Names -> Stagers \cup {NoFile}] /\ steady' \subseteq Names
      BY <2>1, <3>1, ChangedType
    <3> QED
      BY <1>3, <2>1, <3>1, <3>2 DEF Stamp, TypeOK, SeqInv
  <2> QED
    BY <2>2, <2>3
<1>4. ASSUME NEW p \in Stagers, Quit(p) PROVE IInv'
  BY <1>4 DEF Quit, TypeOK, SeqInv, Stamps
<1>5. ASSUME NEW n \in Names, Withdraw(n) PROVE IInv'
  BY <1>5, LeavesType DEF Withdraw, TypeOK
<1>6. CASE LoseLedger
  BY <1>6 DEF LoseLedger, TypeOK, SeqInv
<1>7. CASE Sync
  BY <1>7, SyncIInv
<1>8. CASE Claim
  <2>1. head \in Names /\ head' = NoFile /\ working' \in Inodes \cup {NoFile}
    BY <1>8 DEF Claim, TypeOK
  <2>2. CASE inbox[head] = NoFile
    BY <1>8, <2>1, <2>2 DEF Claim, TypeOK, SeqInv
  <2>3. CASE inbox[head] # NoFile
    BY <1>8, <2>1, <2>3, LeavesType DEF Claim
  <2> QED
    BY <2>2, <2>3
<1>9. CASE Finish
  BY <1>9 DEF Finish, TypeOK, SeqInv
<1>10. CASE Crash
  BY <1>10 DEF Crash, TypeOK, SeqInv
<1>11. CASE UNCHANGED vars
  BY <1>11 DEF TypeOK, SeqInv, vars
<1> QED
  BY <1>1, <1>2, <1>3, <1>4, <1>5, <1>6, <1>7, <1>8, <1>9, <1>10, <1>11 DEF Next

\* Types hold in every reachable state, whatever the file system and the clock
\* do (all of pipeline/inbox_queue.py, with its landings and its worker).
THEOREM TypeCorrect == Spec => []TypeOK
<1>1. IInv => TypeOK
  BY DEF IInv
<1> QED
  BY <1>1, InitIInv, NextIInv, PTL DEF Spec

\* Sequence numbers in the ledger are unique and below next_seq in every
\* reachable state, also with inode reuse, clock steps and ledger loss
\* (sync_inbox_fifo).
THEOREM SequenceNumbersUnique == Spec => []SeqInv
<1>1. IInv => SeqInv
  BY DEF IInv
<1> QED
  BY <1>1, InitIInv, NextIInv, PTL DEF Spec

-----------------------------------------------------------------------------
(* No overtaking, when the file system does not reuse inodes.               *)

\* Every inode in the directory or in the ledger was handed out before.
HandedOut ==
  /\ \A n \in Names : inbox[n] \in used \cup {NoFile}
  /\ \A n \in Names : entry[n] \in used \cup {NoFile}

LEMMA InitHandedOut == Init => HandedOut
  BY DEF Init, HandedOut

LEMMA NextHandedOut == IInv /\ HandedOut /\ [Next]_vars => HandedOut'
<1> SUFFICES ASSUME IInv, HandedOut, [Next]_vars PROVE HandedOut'
  OBVIOUS
<1> USE DEF HandedOut, IInv, TypeOK
<1> USE DEF diskVars, fileVars, ledgerVars
<1>1. ASSUME NEW p \in Stagers, NEW n \in Names, Land(p, n) PROVE HandedOut'
  BY <1>1 DEF Land
<1>2. ASSUME NEW p \in Stagers, NEW n \in Names, CopyOver(p, n) PROVE HandedOut'
  BY <1>2 DEF CopyOver
<1>3. ASSUME NEW p \in Stagers, Stamp(p) \/ Quit(p) PROVE HandedOut'
  BY <1>3 DEF Stamp, Quit
<1>4. ASSUME NEW n \in Names, Withdraw(n) PROVE HandedOut'
  BY <1>4 DEF Withdraw, Leaves
<1>5. CASE LoseLedger
  BY <1>5 DEF LoseLedger
<1>6. CASE Sync
  BY <1>6 DEF Sync, SyncedEntry
<1>7. CASE Claim
  BY <1>7 DEF Claim, Leaves
<1>8. CASE Finish
  BY <1>8 DEF Finish
<1>9. CASE Crash
  BY <1>9 DEF Crash
<1>10. CASE UNCHANGED vars
  BY <1>10 DEF vars
<1> QED
  BY <1>1, <1>2, <1>3, <1>4, <1>5, <1>6, <1>7, <1>8, <1>9, <1>10 DEF Next

\* A step that leaves the ledger alone and puts only inodes the ledger has not
\* recorded into the directory makes no file known that was not known before.
LEMMA LedgerKept ==
  ASSUME TypeOK, UNCHANGED <<seq, entry>>,
         \A n \in Names : \/ inbox'[n] = inbox[n]
                          \/ inbox'[n] = NoFile
                          \/ inbox'[n] # entry[n]
  PROVE  /\ \A n \in Known' : n \in Known /\ inbox'[n] = inbox[n]
         /\ \A n \in Names : Ahead(n)' \subseteq Ahead(n)
<1>1. ASSUME NEW n \in Known' PROVE n \in Known /\ inbox'[n] = inbox[n]
  BY <1>1 DEF Known, Present
<1>2. ASSUME NEW n \in Names PROVE Ahead(n)' \subseteq Ahead(n)
  BY <1>1 DEF Ahead
<1> QED
  BY <1>1, <1>2

\* The body of NoOvertaking.
Overtaken ==
  \E n \in Names, i \in Inodes :
    Waiting(n, i) /\ Waiting(n, i)' /\ ~(Ahead(n)' \subseteq Ahead(n))

LEMMA StepNoOvertaking ==
  ASSUME ~InodeReuse, IInv, HandedOut, [Next]_vars
  PROVE  ~Overtaken
<1> USE DEF IInv
<1> SUFFICES ASSUME NEW n \in Names, NEW i \in Inodes,
                    Waiting(n, i), Waiting(n, i)'
             PROVE  Ahead(n)' \subseteq Ahead(n)
  BY DEF Overtaken
<1> USE DEF diskVars, fileVars, ledgerVars
<1>1. ASSUME NEW p \in Stagers, NEW m \in Names, Land(p, m) PROVE Ahead(n)' \subseteq Ahead(n)
  <2>1. PICK j \in Inodes \ used : inbox' = [inbox EXCEPT ![m] = j]
    BY <1>1 DEF Land, Allocatable
  <2>2. j # NoFile
    BY InboxAssumption
  <2>3. \A k \in Names : inbox'[k] = inbox[k] \/ inbox'[k] # entry[k]
    BY <2>1, <2>2 DEF HandedOut, TypeOK
  <2> QED
    BY <1>1, <2>3, LedgerKept DEF Land
<1>2. ASSUME NEW p \in Stagers, (\E m \in Names : CopyOver(p, m)) \/ Stamp(p) \/ Quit(p)
      PROVE  Ahead(n)' \subseteq Ahead(n)
  BY <1>2, LedgerKept DEF CopyOver, Stamp, Quit
<1>3. ASSUME NEW m \in Names, Withdraw(m) PROVE Ahead(n)' \subseteq Ahead(n)
  BY <1>3, LedgerKept DEF Withdraw, Leaves, TypeOK
<1>4. CASE LoseLedger
  BY <1>4 DEF LoseLedger, Waiting, Known, Present
<1>5. CASE Sync
  <2>1. PICK r \in Rankings : seq' = SyncedSeq(r)
    BY <1>5 DEF Sync
  <2>2. /\ r \in [Unknown -> Nat]
        /\ \A k \in Known : seq'[k] = seq[k]
        /\ \A k \in Unknown : seq'[k] = nextSeq + r[k]
    BY <2>1, SyncNumbers, SyncedSeqType
  <2>3. inbox' = inbox
    BY <1>5 DEF Sync, diskVars
  <2>4. n \in Known /\ seq[n] \in Nat /\ seq[n] < nextSeq /\ nextSeq \in Nat
    BY DEF Waiting, SeqInv, TypeOK
  <2>5. ASSUME NEW k \in Known', seq'[k] < seq'[n]
        PROVE  k \in Known /\ seq[k] < seq[n]
    <3>1. k \in Known \/ k \in Unknown
      BY <2>3 DEF Unknown, Known, Present
    <3>2. k \notin Unknown
      BY <2>2, <2>4, <2>5
    <3> QED
      BY <3>1, <3>2, <2>2, <2>4, <2>5
  <2> QED
    BY <2>3, <2>5 DEF Ahead
<1>6. CASE Claim
  BY <1>6, LedgerKept DEF Claim, Leaves, TypeOK
<1>7. CASE Finish \/ Crash
  BY <1>7, LedgerKept DEF Finish, Crash
<1>8. CASE UNCHANGED vars
  BY <1>8, LedgerKept DEF vars, diskVars, ledgerVars
<1> QED
  BY <1>1, <1>2, <1>3, <1>4, <1>5, <1>6, <1>7, <1>8 DEF Next

\* Nobody overtakes a waiting genome, for any number of names and inodes, with
\* clock steps, ledger loss, worker crashes and replacement of the head, as long
\* as the file system does not hand out a freed inode again.
THEOREM WaitingIsBounded ==
  ASSUME ~InodeReuse
  PROVE  Spec => NoOvertaking
<1>1. IInv /\ HandedOut /\ [Next]_vars => ~Overtaken
  BY StepNoOvertaking
<1>2. ~Overtaken
        => \A n \in Names, i \in Inodes :
             Waiting(n, i) /\ Waiting(n, i)' => Ahead(n)' \subseteq Ahead(n)
  BY DEF Overtaken
<1>3. IInv /\ HandedOut /\ [Next]_vars
        => [\A n \in Names, i \in Inodes :
              Waiting(n, i) /\ Waiting(n, i)' => Ahead(n)' \subseteq Ahead(n)]_vars
  BY <1>1, <1>2
<1> QED
  BY <1>3, InitIInv, NextIInv, InitHandedOut, NextHandedOut, PTL
     DEF Spec, NoOvertaking

-----------------------------------------------------------------------------
(* The claim takes the head of the queue, when nobody touches the head.     *)

\* While the worker waits to claim, its head is still the file of the last
\* scan and is ahead of every other file of the ledger, unless the ledger was
\* lost meanwhile.
HeadInv ==
  head # NoFile =>
    /\ head \in Present
    /\ \/ Known = {}
       \/ head \in Known /\ \A m \in Known \ {head} : seq[head] < seq[m]

LEMMA InitHeadInv == Init => HeadInv
  BY DEF Init, HeadInv

\* A step that keeps the head and the head's entry, and makes no file known,
\* keeps HeadInv.
LEMMA HeadKept ==
  ASSUME IInv, HeadInv, head' = head, UNCHANGED <<seq, entry>>,
         head # NoFile => inbox'[head] = inbox[head],
         \A n \in Names : \/ inbox'[n] = inbox[n]
                          \/ inbox'[n] = NoFile
                          \/ inbox'[n] # entry[n]
  PROVE  HeadInv'
<1> SUFFICES ASSUME head # NoFile PROVE HeadInv'
  BY DEF HeadInv
<1>1. \A n \in Known' : n \in Known
  BY LedgerKept DEF IInv
<1>2. head \in Present'
  BY DEF HeadInv, Present
<1>3. head \in Known => head \in Known'
  BY DEF Known, Present
<1> QED
  BY <1>1, <1>2, <1>3 DEF HeadInv

LEMMA NextHeadInv ==
  ASSUME ~InodeReuse, ~TouchHead, IInv, HandedOut, HeadInv, [Next]_vars
  PROVE  HeadInv'
<1> USE InboxAssumption
<1> USE DEF diskVars, fileVars, ledgerVars, workerVars
<1>1. ASSUME NEW p \in Stagers, NEW m \in Names, Land(p, m) PROVE HeadInv'
  <2>1. PICK j \in Inodes \ used : inbox' = [inbox EXCEPT ![m] = j]
    BY <1>1 DEF Land, Allocatable
  <2>2. \A k \in Names : inbox'[k] = inbox[k] \/ inbox'[k] # entry[k]
    BY <2>1 DEF HandedOut, IInv, TypeOK
  <2>3. head # NoFile => inbox'[head] = inbox[head]
    BY <1>1, <2>1 DEF Land, Touchable, HeadInv, Present, IInv, TypeOK
  <2> QED
    BY <1>1, <2>2, <2>3, HeadKept DEF Land
<1>2. ASSUME NEW p \in Stagers, (\E m \in Names : CopyOver(p, m)) \/ Stamp(p) \/ Quit(p)
      PROVE  HeadInv'
  BY <1>2, HeadKept DEF CopyOver, Stamp, Quit
<1>3. ASSUME NEW m \in Names, Withdraw(m) PROVE HeadInv'
  BY <1>3, HeadKept DEF Withdraw, Leaves, Touchable, IInv, TypeOK
<1>4. CASE LoseLedger
  BY <1>4 DEF LoseLedger, HeadInv, Known, Present, diskVars, workerVars
<1>5. CASE Sync
  <2>1. PICK r \in Rankings : seq' = SyncedSeq(r) /\ entry' = SyncedEntry
    BY <1>5 DEF Sync
  <2>2. inbox' = inbox /\ SeqInv' /\ TypeOK'
    BY <1>5, SyncIInv DEF Sync, diskVars, IInv
  <2>3. /\ r \in [Unknown -> Nat]
        /\ \A k \in Known : seq'[k] = seq[k]
        /\ \A k \in Unknown : seq'[k] = nextSeq + r[k]
    BY <2>1, SyncNumbers, SyncedSeqType DEF IInv
  <2>4. \A k \in Present : seq'[k] > 0
    BY <2>3 DEF Unknown, Known, IInv, TypeOK
  <2>5. Present' = Present /\ Known' = Present
    BY <2>1, <2>2, <2>4 DEF Present, Known, SyncedEntry
  <2>6. ASSUME head' # NoFile PROVE HeadInv'
    <3>1. head' \in Present /\ \A m \in Present : seq'[head'] <= seq'[m]
      BY <1>5, <2>6 DEF Sync
    <3>2. \A m \in Present \ {head'} : seq'[head'] # seq'[m]
      BY <2>2, <2>4, <3>1 DEF SeqInv, Present
    <3>3. \A m \in Present : seq'[m] \in Nat
      BY <2>2 DEF TypeOK, Present
    <3> QED
      BY <2>5, <3>1, <3>2, <3>3 DEF HeadInv
  <2> QED
    BY <2>6 DEF HeadInv
<1>6. CASE Claim
  BY <1>6 DEF Claim, HeadInv
<1>7. CASE Finish
  BY <1>7, HeadKept DEF Finish, diskVars, ledgerVars
<1>8. CASE Crash
  BY <1>8 DEF Crash, HeadInv
<1>9. CASE UNCHANGED vars
  BY <1>9, HeadKept DEF vars, diskVars, ledgerVars, workerVars
<1> QED
  BY <1>1, <1>2, <1>3, <1>4, <1>5, <1>6, <1>7, <1>8, <1>9 DEF Next

\* The body of ClaimsLongestWaiting.
ClaimInOrder ==
  working = NoFile /\ working' \in Inodes
    => \A m \in Known \ {head} : head \in Known /\ seq[head] < seq[m]

LEMMA StepClaimInOrder == HeadInv /\ [Next]_vars => ClaimInOrder
<1> SUFFICES ASSUME HeadInv, [Next]_vars, working = NoFile, working' \in Inodes
             PROVE  \A m \in Known \ {head} : head \in Known /\ seq[head] < seq[m]
  BY DEF ClaimInOrder
<1>1. working' # working
  BY InboxAssumption
<1>2. Claim
  BY <1>1, InboxAssumption
     DEF Next, Land, CopyOver, Stamp, Quit, Withdraw, LoseLedger, Sync, Finish,
         Crash, vars, workerVars
<1> QED
  BY <1>2 DEF Claim, HeadInv

\* The worker always claims the genome that has waited longest, as long as no
\* command replaces or removes the head while it waits on the gate and the file
\* system does not hand out a freed inode again (poll_inbox, claim_inbox_genome).
THEOREM ClaimsHead ==
  ASSUME ~InodeReuse, ~TouchHead
  PROVE  Spec => ClaimsLongestWaiting
<1>1. HeadInv /\ [Next]_vars => [ClaimInOrder]_vars
  BY StepClaimInOrder
<1>2. IInv /\ HandedOut /\ HeadInv /\ [Next]_vars => HeadInv'
  BY NextHeadInv
<1> QED
  BY <1>1, <1>2, InitIInv, NextIInv, InitHandedOut, NextHandedOut, InitHeadInv, PTL
     DEF Spec, ClaimsLongestWaiting, ClaimInOrder

-----------------------------------------------------------------------------
(* The order within a batch, whatever the clock and the file system do.     *)

\* A stamp is not below the ctime that it refreshes, nor above the last its process
\* has given; and a steady file's ctime is no later than the clock.
StampInv ==
  /\ \A n \in Names : stamper[n] # NoFile =>
       ctime[n] <= mtime[n] /\ mtime[n] <= last[stamper[n]]
  /\ \A n \in steady : ctime[n] <= now

\* So a file that changed later has the later ctime, if the clock has only moved
\* on since the earlier change, and the later stamp, if one process gave both.
LaterInv ==
  \A m, n \in Names : <<m, n>> \in later =>
    /\ m # n
    /\ m \in steady => n \in steady /\ ctime[m] < ctime[n]
    /\ stamper[m] # NoFile /\ stamper[m] = stamper[n] => mtime[m] < mtime[n]

OrderInv == StampInv /\ LaterInv

LEMMA InitOrderInv == Init => OrderInv
  BY DEF Init, OrderInv, StampInv, LaterInv

\* A change of n, with a stamp above all of its process or with none.
LEMMA ChangedOrder ==
  ASSUME IInv, OrderInv, NEW n \in Names, NEW p \in Stagers \cup {NoFile}, NEW t \in Stamps,
         now' \in Times, Changed(n, p), mtime' = [mtime EXCEPT ![n] = t],
         \A q \in Stagers : last[q] <= last'[q] /\ last'[q] \in Stamps,
         p # NoFile => now' <= t /\ last[p] < t /\ t <= last'[p]
  PROVE  OrderInv'
<1> USE DEF IInv, TypeOK, OrderInv, StampInv, Times, Stamps
<1>1. /\ ctime' = [ctime EXCEPT ![n] = now'] /\ stamper' = [stamper EXCEPT ![n] = p]
      /\ steady' = StillSteady \cup {n}
      /\ now' <= now => steady' = {n}
      /\ steady' \subseteq steady \cup {n}
  BY DEF Changed, StillSteady
<1>2. ASSUME NEW k \in Names, stamper'[k] # NoFile
      PROVE  ctime'[k] <= mtime'[k] /\ mtime'[k] <= last'[stamper'[k]]
  <2>1. CASE k = n
    BY <1>1, <1>2, <2>1
  <2>2. CASE k # n
    <3>1. stamper[k] \in Stagers /\ stamper'[k] = stamper[k]
      BY <1>1, <1>2, <2>2
    <3>2. last[stamper[k]] <= last'[stamper[k]] /\ mtime[k] <= last[stamper[k]]
      BY <3>1, <1>2
    <3>3. mtime[k] \in Int /\ last[stamper[k]] \in Int /\ last'[stamper[k]] \in Int
      BY <3>1
    <3> QED
      BY <1>1, <1>2, <2>2, <3>1, <3>2, <3>3
  <2> QED
    BY <2>1, <2>2
<1>3. \A k \in steady' : ctime'[k] <= now'
  BY <1>1
<1>4. ASSUME NEW m \in Names, NEW k \in Names, <<m, k>> \in later'
      PROVE  /\ m # k
             /\ m \in steady' => k \in steady' /\ ctime'[m] < ctime'[k]
             /\ stamper'[m] # NoFile /\ stamper'[m] = stamper'[k] => mtime'[m] < mtime'[k]
  <2>1. CASE <<m, k>> \in later /\ m # n /\ k # n
    <3>1. m \in steady' => m \in steady /\ steady' = steady \cup {n}
      BY <1>1, <2>1 DEF StillSteady
    <3> QED
      BY <1>1, <2>1, <3>1 DEF LaterInv
  <2>2. CASE m \in Present \ {n} /\ k = n
    <3>1. m \in steady' => ctime'[m] < ctime'[k]
      BY <1>1, <2>2
    <3>2. stamper'[m] # NoFile /\ stamper'[m] = stamper'[k] => mtime'[m] < mtime'[k]
      BY <1>1, <2>2
    <3> QED
      BY <1>1, <2>2, <3>1, <3>2
  <2> QED
    BY <1>4, <2>1, <2>2 DEF Changed
<1> QED
  BY <1>2, <1>3, <1>4 DEF LaterInv

LEMMA LeavesOrder ==
  ASSUME IInv, OrderInv, NEW n \in Names, Leaves(n)
  PROVE  OrderInv'
BY DEF Leaves, OrderInv, StampInv, LaterInv, IInv, TypeOK, stagerVars

LEMMA NextOrderInv == IInv /\ OrderInv /\ [Next]_vars => OrderInv'
<1> SUFFICES ASSUME IInv, OrderInv, [Next]_vars PROVE OrderInv'
  OBVIOUS
<1>1. ASSUME NEW p \in Stagers, NEW n \in Names, Land(p, n) \/ CopyOver(p, n)
      PROVE  OrderInv'
  <2>1. now' \in Times /\ last' = last /\ Changed(n, NoFile)
    BY <1>1 DEF Land, CopyOver, ReadClock
  <2>2. PICK t \in {0, now'} : mtime' = [mtime EXCEPT ![n] = t]
    BY <1>1 DEF Land, CopyOver
  <2>3. t \in Stamps
    BY <2>1, InboxAssumption DEF Times, Stamps
  <2>4. \A q \in Stagers : last[q] <= last'[q] /\ last'[q] \in Stamps
    BY <2>1 DEF IInv, TypeOK, Stamps
  <2> QED
    BY <2>1, <2>2, <2>3, <2>4, ChangedOrder
<1>2. ASSUME NEW p \in Stagers, Stamp(p) PROVE OrderInv'
  <2>1. /\ now' \in Times /\ hand[p] \in Names /\ StampOf(p) \in Stamps
        /\ last' = [last EXCEPT ![p] = StampOf(p)]
    BY <1>2 DEF Stamp, ReadClock, IInv, TypeOK
  <2>2. now' <= StampOf(p) /\ last[p] < StampOf(p) /\ StampOf(p) = last'[p]
    BY <2>1 DEF StampOf, IInv, TypeOK, Times, Stamps
  <2>3. \A q \in Stagers : last[q] <= last'[q] /\ last'[q] \in Stamps
    BY <2>1, <2>2 DEF IInv, TypeOK, Stamps
  <2>4. CASE inbox[hand[p]] = NoFile
    <3>1. /\ UNCHANGED <<ctime, mtime, later, stamper>> /\ steady' = StillSteady
      BY <1>2, <2>4 DEF Stamp
    <3>2. ASSUME NEW n \in Names, stamper[n] # NoFile
          PROVE  mtime[n] <= last'[stamper[n]]
      <4>1. stamper[n] \in Stagers /\ mtime[n] \in Int
        BY <3>2 DEF IInv, TypeOK, Stamps
      <4>2. last[stamper[n]] \in Int /\ last'[stamper[n]] \in Int
        BY <2>1, <4>1 DEF IInv, TypeOK, Stamps
      <4>3. last[stamper[n]] <= last'[stamper[n]] /\ mtime[n] <= last[stamper[n]]
        BY <2>3, <3>2, <4>1 DEF OrderInv, StampInv
      <4> QED
        BY <4>1, <4>2, <4>3
    <3>3. \A n \in steady' : n \in steady /\ steady' = steady /\ ctime[n] <= now'
      BY <2>1, <3>1 DEF StillSteady, OrderInv, StampInv, IInv, TypeOK, Times
    <3> QED
      BY <3>1, <3>2, <3>3 DEF OrderInv, StampInv, LaterInv
  <2>5. CASE inbox[hand[p]] # NoFile
    <3>1. Changed(hand[p], p) /\ mtime' = [mtime EXCEPT ![hand[p]] = StampOf(p)]
      BY <1>2, <2>5 DEF Stamp
    <3>2. StampOf(p) <= last'[p]
      BY <2>1, <2>2 DEF Stamps
    <3> QED
      BY <2>1, <2>2, <2>3, <3>1, <3>2, ChangedOrder
  <2> QED
    BY <2>4, <2>5
<1>3. ASSUME NEW p \in Stagers, Quit(p) PROVE OrderInv'
  BY <1>3 DEF Quit, OrderInv, StampInv, LaterInv, IInv, TypeOK, fileVars
<1>4. ASSUME NEW n \in Names, Withdraw(n) PROVE OrderInv'
  BY <1>4, LeavesOrder DEF Withdraw
<1>5. CASE LoseLedger \/ Sync \/ Finish \/ Crash \/ UNCHANGED vars
  BY <1>5 DEF LoseLedger, Sync, Finish, Crash, vars, diskVars, fileVars, stagerVars,
              changeVars, OrderInv, StampInv, LaterInv
<1>6. CASE Claim
  <2>1. CASE inbox[head] = NoFile
    BY <1>6, <2>1 DEF Claim, diskVars, fileVars, stagerVars, changeVars, OrderInv,
                      StampInv, LaterInv
  <2>2. CASE inbox[head] # NoFile
    BY <1>6, <2>2, LeavesOrder DEF Claim, IInv, TypeOK
  <2> QED
    BY <2>1, <2>2
<1> QED
  BY <1>1, <1>2, <1>3, <1>4, <1>5, <1>6 DEF Next

\* Only a scan makes two files known in one step: a landing may bring back one
\* inode that the ledger still has under its name, a lost ledger knows nothing.
LEMMA BatchNeedsSync ==
  ASSUME IInv, [Next]_vars,
         NEW m \in Unknown, NEW n \in Unknown, m # n, m \in Known', n \in Known'
  PROVE  Sync
<1> SUFFICES ASSUME ~Sync PROVE FALSE
  OBVIOUS
<1> USE DEF IInv, TypeOK, Unknown, Known, Present
<1> USE DEF diskVars, fileVars, ledgerVars
<1>1. ASSUME NEW p \in Stagers, NEW k \in Names, Land(p, k) PROVE FALSE
  BY <1>1 DEF Land
<1>2. ASSUME NEW p \in Stagers, (\E k \in Names : CopyOver(p, k)) \/ Stamp(p) \/ Quit(p)
      PROVE  FALSE
  BY <1>2 DEF CopyOver, Stamp, Quit
<1>3. ASSUME NEW k \in Names, Withdraw(k) PROVE FALSE
  BY <1>3 DEF Withdraw, Leaves
<1>4. CASE LoseLedger
  BY <1>4 DEF LoseLedger
<1>5. CASE Claim
  BY <1>5 DEF Claim, Leaves
<1>6. CASE Finish \/ Crash \/ UNCHANGED vars
  BY <1>6 DEF Finish, Crash, vars
<1> QED
  BY <1>1, <1>2, <1>3, <1>4, <1>5, <1>6 DEF Next

\* The body of BatchInArrivalOrder.
BatchOrdered ==
  \A m, n \in Names :
    m \in Unknown /\ n \in Unknown /\ m \in Known' /\ n \in Known'
         /\ <<m, n>> \in later /\ (OneHand(m, n) \/ MovedOn(m))
      => seq'[m] < seq'[n]

LEMMA StepBatchOrdered ==
  ASSUME IInv, OrderInv, [Next]_vars
  PROVE  BatchOrdered
<1> SUFFICES ASSUME NEW m \in Names, NEW n \in Names, m \in Unknown, n \in Unknown,
                    m \in Known', n \in Known',
                    <<m, n>> \in later, OneHand(m, n) \/ MovedOn(m)
             PROVE  seq'[m] < seq'[n]
  BY DEF BatchOrdered
<1>1. /\ ctime[m] \in Int /\ ctime[n] \in Int /\ mtime[m] \in Int /\ mtime[n] \in Int
      /\ m # n
  BY DEF IInv, TypeOK, Times, Stamps, OrderInv, LaterInv
<1>2. OrderKey(m) < OrderKey(n)
  <2>1. CASE OneHand(m, n)
    <3>1. mtime[m] < mtime[n] /\ ctime[m] <= mtime[m] /\ ctime[n] <= mtime[n]
      BY <2>1 DEF OneHand, OrderInv, StampInv, LaterInv
    <3> QED
      BY <1>1, <2>1, <3>1 DEF OneHand, OrderKey, MaxOf
  <2>2. CASE MovedOn(m)
    <3>1. ctime[m] < ctime[n] /\ mtime[m] <= ctime[m]
      BY <2>2 DEF MovedOn, OrderInv, LaterInv
    <3> QED
      BY <1>1, <3>1 DEF OrderKey, MaxOf
  <2> QED
    BY <2>1, <2>2
<1>3. SortsBefore(m, n)
  BY <1>2 DEF SortsBefore
<1>4. Sync
  BY <1>1, BatchNeedsSync
<1>5. PICK r \in Rankings : seq' = SyncedSeq(r)
  BY <1>4 DEF Sync
<1>6. r[m] < r[n]
  BY <1>1, <1>3 DEF Rankings
<1>7. /\ r \in [Unknown -> Nat]
      /\ seq'[m] = nextSeq + r[m] /\ seq'[n] = nextSeq + r[n]
  BY <1>5, SyncNumbers, SyncedSeqType DEF IInv
<1> QED
  BY <1>6, <1>7 DEF IInv, TypeOK

\* Files that a scan queues together are queued in the order of their last changes
\* where the clock moved on, and, however it steps, within what one process has
\* stamped, for any file names, carried-over modification times, reused inodes
\* and lost ledgers (stamp_inbox_arrival, _order_key, the sort of the unknown).
THEOREM BatchesAreOrdered == Spec => BatchInArrivalOrder
<1>1. IInv /\ OrderInv /\ [Next]_vars => [BatchOrdered]_vars
  BY StepBatchOrdered
<1> QED
  BY <1>1, InitIInv, NextIInv, InitOrderInv, NextOrderInv, PTL
     DEF Spec, BatchInArrivalOrder, BatchOrdered

-----------------------------------------------------------------------------
(* The ledger implements the arrival queue.                                 *)

\* No two names hold one inode, and the worker that waits to claim holds none.
OneName ==
  /\ \A m, n \in Present : inbox[m] = inbox[n] => m = n
  /\ head # NoFile => working = NoFile

LEMMA InitOneName == Init => OneName
  BY DEF Init, OneName, Present

LEMMA NextOneName ==
  ASSUME ~InodeReuse, IInv, HandedOut, OneName, [Next]_vars
  PROVE  OneName'
<1> USE DEF OneName, IInv, TypeOK, Present
<1> USE DEF diskVars, fileVars, workerVars
<1>1. ASSUME NEW p \in Stagers, NEW n \in Names, Land(p, n) PROVE OneName'
  <2>1. PICK i \in Inodes \ used : inbox' = [inbox EXCEPT ![n] = i]
    BY <1>1 DEF Land, Allocatable
  <2> QED
    BY <1>1, <2>1 DEF Land, HandedOut
<1>2. ASSUME NEW p \in Stagers, (\E n \in Names : CopyOver(p, n)) \/ Stamp(p) \/ Quit(p)
      PROVE  OneName'
  BY <1>2 DEF CopyOver, Stamp, Quit
<1>3. ASSUME NEW n \in Names, Withdraw(n) PROVE OneName'
  BY <1>3 DEF Withdraw, Leaves
<1>4. CASE LoseLedger \/ Sync \/ Finish \/ Crash \/ UNCHANGED vars
  BY <1>4 DEF LoseLedger, Sync, Finish, Crash, vars
<1>5. CASE Claim
  BY <1>5 DEF Claim, Leaves
<1> QED
  BY <1>1, <1>2, <1>3, <1>4, <1>5 DEF Next

\* Which pairs are in order, name by name, when no two names hold one inode.
LEMMA InOrderIs ==
  ASSUME NEW d, NEW K, NEW s,
         \A m, n \in K : d[m] = d[n] => m = n
  PROVE  /\ \A m, n \in K : <<d[m], d[n]>> \in InOrder(d, K, s) <=> s[m] < s[n]
         /\ \A p \in InOrder(d, K, s) :
              \E m, n \in K : p = <<d[m], d[n]>> /\ s[m] < s[n]
<1>1. ASSUME NEW m \in K, NEW n \in K, <<d[m], d[n]>> \in InOrder(d, K, s)
      PROVE  s[m] < s[n]
  <2>1. PICK q \in K \X K : s[q[1]] < s[q[2]] /\ <<d[m], d[n]>> = <<d[q[1]], d[q[2]]>>
    BY <1>1 DEF InOrder
  <2>2. q[1] = m /\ q[2] = n
    BY <2>1
  <2> QED
    BY <2>1, <2>2
<1>2. ASSUME NEW m \in K, NEW n \in K, s[m] < s[n]
      PROVE  <<d[m], d[n]>> \in InOrder(d, K, s)
  <2>1. <<m, n>> \in {q \in K \X K : s[q[1]] < s[q[2]]}
    BY <1>2
  <2>2. <<d[m], d[n]>> = <<d[<<m, n>>[1]], d[<<m, n>>[2]]>>
    OBVIOUS
  <2> QED
    BY <2>1, <2>2 DEF InOrder
<1>3. ASSUME NEW p \in InOrder(d, K, s)
      PROVE  \E m, n \in K : p = <<d[m], d[n]>> /\ s[m] < s[n]
  <2>1. PICK q \in K \X K : s[q[1]] < s[q[2]] /\ p = <<d[q[1]], d[q[2]]>>
    BY DEF InOrder
  <2>2. q[1] \in K /\ q[2] \in K
    OBVIOUS
  <2> QED
    BY <2>1, <2>2
<1> QED
  BY <1>1, <1>2, <1>3

\* When the same files are known, under the same names and numbers, the queue
\* is the same.
LEMMA QueueKept ==
  ASSUME Known' = Known, \A n \in Known : inbox'[n] = inbox[n] /\ seq'[n] = seq[n]
  PROVE  Queued' = Queued /\ QueuedBefore' = QueuedBefore
BY DEF Queued, QueuedBefore, InOrder

\* When just one file is not known any more, it leaves the queue.
LEMMA QueueLeft ==
  ASSUME OneName, NEW x \in Known, Known' = Known \ {x},
         \A n \in Known \ {x} : inbox'[n] = inbox[n], seq' = seq
  PROVE  inbox[x] \in Queued /\ Abstract!Leave(inbox[x])
<1>1. Known \subseteq Present
  BY DEF Known
<1>2. \A n \in Known \ {x} : inbox[n] # inbox[x]
  BY <1>1 DEF OneName
<1>3. inbox[x] \in Queued /\ Queued' = Queued \ {inbox[x]}
  BY <1>2 DEF Queued
<1>4. QueuedBefore' = {p \in QueuedBefore : p[1] # inbox[x] /\ p[2] # inbox[x]}
  <2>1. QueuedBefore' = InOrder(inbox, Known \ {x}, seq)
    BY DEF QueuedBefore, InOrder
  <2>2. /\ \A m, n \in Known : inbox[m] = inbox[n] => m = n
        /\ \A m, n \in Known \ {x} : inbox[m] = inbox[n] => m = n
    BY <1>1 DEF OneName
  <2>3. ASSUME NEW p \in InOrder(inbox, Known \ {x}, seq)
        PROVE  p \in QueuedBefore /\ p[1] # inbox[x] /\ p[2] # inbox[x]
    <3>1. PICK m \in Known \ {x}, n \in Known \ {x} :
            p = <<inbox[m], inbox[n]>> /\ seq[m] < seq[n]
      BY <2>2, <2>3, InOrderIs
    <3> QED
      BY <1>2, <2>2, <3>1, InOrderIs DEF QueuedBefore
  <2>4. ASSUME NEW p \in QueuedBefore, p[1] # inbox[x], p[2] # inbox[x]
        PROVE  p \in InOrder(inbox, Known \ {x}, seq)
    <3>1. PICK m \in Known, n \in Known : p = <<inbox[m], inbox[n]>> /\ seq[m] < seq[n]
      BY <2>2, <2>4, InOrderIs DEF QueuedBefore
    <3>2. m \in Known \ {x} /\ n \in Known \ {x}
      BY <2>4, <3>1
    <3> QED
      BY <2>2, <3>1, <3>2, InOrderIs
  <2> QED
    BY <2>1, <2>3, <2>4
<1> QED
  BY <1>3, <1>4 DEF Abstract!Leave

\* When one name changes to a file the ledger has not recorded, or to none, the
\* file it had leaves the queue, if it was there.
LEMMA OneNameChanged ==
  ASSUME OneName, NEW x \in Names, UNCHANGED <<seq, entry>>,
         \A n \in Names \ {x} : inbox'[n] = inbox[n],
         inbox'[x] = NoFile \/ inbox'[x] # entry[x]
  PROVE  /\ x \in Known => inbox[x] \in Queued /\ Abstract!Leave(inbox[x])
         /\ x \notin Known => Queued' = Queued /\ QueuedBefore' = QueuedBefore
<1>1. Known' = Known \ {x}
  BY DEF Known, Present
<1>2. \A n \in Known \ {x} : inbox'[n] = inbox[n]
  BY DEF Known, Present
<1>3. CASE x \in Known
  BY <1>1, <1>2, <1>3, QueueLeft
<1>4. CASE x \notin Known
  <2>1. Known' = Known /\ \A n \in Known : inbox'[n] = inbox[n] /\ seq'[n] = seq[n]
    BY <1>1, <1>2, <1>4
  <2> QED
    BY <1>4, <2>1, QueueKept
<1> QED
  BY <1>3, <1>4

\* After a scan every file is known, behind those that were.
LEMMA SyncOrder ==
  ASSUME IInv, NEW r \in Rankings, inbox' = inbox,
         seq' = SyncedSeq(r), entry' = SyncedEntry
  PROVE  /\ Known' = Known \cup Unknown
         /\ \A m, n \in Known : seq'[m] < seq'[n] <=> seq[m] < seq[n]
         /\ \A m \in Known, n \in Unknown : seq'[m] < seq'[n] /\ ~(seq'[n] < seq'[m])
         /\ \A m, n \in Unknown : seq'[m] < seq'[n] <=> r[m] < r[n]
<1>1. /\ r \in [Unknown -> Nat]
      /\ \A n \in Known : seq'[n] = seq[n]
      /\ \A n \in Unknown : seq'[n] = nextSeq + r[n]
  BY SyncNumbers, SyncedSeqType DEF IInv
<1>2. \A n \in Known : n \in Present /\ seq[n] \in Nat /\ 0 < seq[n] /\ seq[n] < nextSeq
  BY DEF Known, Present, IInv, SeqInv, TypeOK
<1>3. nextSeq \in Nat \ {0} /\ \A n \in Unknown : r[n] \in Nat
  BY <1>1 DEF IInv, TypeOK
<1>4. Present = Known \cup Unknown
  BY DEF Unknown, Known
<1>5. \A n \in Present : seq'[n] > 0
  BY <1>1, <1>2, <1>3, <1>4
<1>6. Known' = Present
  BY <1>5 DEF Known, Present, SyncedEntry
<1> QED
  BY <1>1, <1>2, <1>3, <1>4, <1>6

\* A scan admits its unknown files behind the queue, in the order of its sort.
LEMMA SyncAdmits ==
  ASSUME IInv, OneName, Sync, Unknown # {}
  PROVE  Abstract!Admit
<1> DEFINE S == {inbox[n] : n \in Unknown}
<1>1. PICK r \in Rankings : seq' = SyncedSeq(r) /\ entry' = SyncedEntry
  BY DEF Sync
<1>2. inbox' = inbox /\ working = NoFile /\ working' = working
  BY DEF Sync, diskVars, fileVars
<1> DEFINE R == InOrder(inbox, Unknown, r)
<1>3. /\ Known' = Known \cup Unknown
      /\ \A m, n \in Known : seq'[m] < seq'[n] <=> seq[m] < seq[n]
      /\ \A m \in Known, n \in Unknown : seq'[m] < seq'[n] /\ ~(seq'[n] < seq'[m])
      /\ \A m, n \in Unknown : seq'[m] < seq'[n] <=> r[m] < r[n]
  BY <1>1, <1>2, SyncOrder
<1>4. /\ Known \subseteq Present /\ Unknown \subseteq Present
      /\ \A n \in Unknown : n \notin Known
  BY DEF Known, Unknown
<1>5. /\ \A m, n \in Known : inbox[m] = inbox[n] => m = n
      /\ \A m, n \in Unknown : inbox[m] = inbox[n] => m = n
      /\ \A m, n \in Known \cup Unknown : inbox[m] = inbox[n] => m = n
  BY <1>4 DEF OneName
<1>6. S \in (SUBSET (Inodes \ Queued)) \ {{}}
  <2>1. \A n \in Unknown : inbox[n] \in Inodes
    BY <1>4 DEF Present, IInv, TypeOK
  <2>2. \A n \in Unknown : inbox[n] \notin Queued
    BY <1>4, <1>5 DEF Queued
  <2> QED
    BY <2>1, <2>2
<1> HIDE DEF R
<1>7. R \in Abstract!Orders(S)
  <2>1. r \in [Unknown -> Nat] /\ \A m, n \in Unknown : m # n => r[m] # r[n]
    BY SyncNumbers DEF Rankings, IInv
  <2>2. \A m, n \in Unknown : <<inbox[m], inbox[n]>> \in R <=> r[m] < r[n]
    BY <1>5, InOrderIs DEF R
  <2>3. R \subseteq S \X S
    <3>1. \A p \in R : \E m, n \in Unknown : p = <<inbox[m], inbox[n]>> /\ r[m] < r[n]
      BY <1>5, InOrderIs DEF R
    <3> QED
      BY <3>1
  <2>4. \A x \in S : <<x, x>> \notin R
    BY <2>1, <2>2
  <2>5. ASSUME NEW x \in S, NEW y \in S, x # y
        PROVE  <<x, y>> \in R \/ <<y, x>> \in R
    <3>1. PICK m \in Unknown, n \in Unknown : x = inbox[m] /\ y = inbox[n]
      OBVIOUS
    <3>2. r[m] < r[n] \/ r[n] < r[m]
      BY <2>1, <2>5, <3>1
    <3> QED
      BY <2>2, <3>1, <3>2
  <2>6. ASSUME NEW x \in S, NEW y \in S, NEW z \in S, <<x, y>> \in R, <<y, z>> \in R
        PROVE  <<x, z>> \in R
    <3>1. PICK k \in Unknown, m \in Unknown, n \in Unknown :
            x = inbox[k] /\ y = inbox[m] /\ z = inbox[n]
      OBVIOUS
    <3>2. r[k] < r[m] /\ r[m] < r[n]
      BY <2>2, <2>6, <3>1
    <3>3. r[k] < r[n]
      BY <2>1, <3>2
    <3> QED
      BY <2>2, <3>1, <3>3
  <2> QED
    BY <2>3, <2>4, <2>5, <2>6 DEF Abstract!Orders
<1>8. Queued' = Queued \cup S
  BY <1>2, <1>3 DEF Queued
<1>9. QueuedBefore' = QueuedBefore \cup (Queued \X S) \cup R
  <2>1. QueuedBefore' = InOrder(inbox, Known \cup Unknown, seq')
    BY <1>2, <1>3 DEF QueuedBefore, InOrder
  <2>2. \A m, n \in Known \cup Unknown :
          <<inbox[m], inbox[n]>> \in QueuedBefore' <=> seq'[m] < seq'[n]
    BY <1>5, <2>1, InOrderIs
  <2>3. \A p \in QueuedBefore' :
          \E m, n \in Known \cup Unknown : p = <<inbox[m], inbox[n]>> /\ seq'[m] < seq'[n]
    BY <1>5, <2>1, InOrderIs
  <2>4. /\ \A m, n \in Known : <<inbox[m], inbox[n]>> \in QueuedBefore <=> seq[m] < seq[n]
        /\ \A p \in QueuedBefore :
             \E m, n \in Known : p = <<inbox[m], inbox[n]>> /\ seq[m] < seq[n]
    BY <1>5, InOrderIs DEF QueuedBefore
  <2>5. /\ \A m, n \in Unknown : <<inbox[m], inbox[n]>> \in R <=> r[m] < r[n]
        /\ \A p \in R : \E m, n \in Unknown : p = <<inbox[m], inbox[n]>> /\ r[m] < r[n]
    BY <1>5, InOrderIs DEF R
  <2>6. ASSUME NEW p \in QueuedBefore' PROVE p \in QueuedBefore \cup (Queued \X S) \cup R
    <3>1. PICK m \in Known \cup Unknown, n \in Known \cup Unknown :
            p = <<inbox[m], inbox[n]>> /\ seq'[m] < seq'[n]
      BY <2>3, <2>6
    <3>2. CASE m \in Known /\ n \in Known
      BY <1>3, <2>4, <3>1, <3>2
    <3>3. CASE m \in Known /\ n \in Unknown
      BY <3>1, <3>3 DEF Queued
    <3>4. CASE m \in Unknown /\ n \in Unknown
      BY <1>3, <2>5, <3>1, <3>4
    <3> QED
      BY <1>3, <3>1, <3>2, <3>3, <3>4
  <2>7. \A p \in QueuedBefore : p \in QueuedBefore'
    BY <1>3, <2>2, <2>4
  <2>8. ASSUME NEW p \in Queued \X S PROVE p \in QueuedBefore'
    <3>1. PICK m \in Known, n \in Unknown : p = <<inbox[m], inbox[n]>>
      BY DEF Queued
    <3> QED
      BY <1>3, <2>2, <3>1
  <2>9. \A p \in R : p \in QueuedBefore'
    BY <1>3, <2>2, <2>5
  <2> QED
    BY <2>6, <2>7, <2>8, <2>9
<1> QED
  BY <1>2, <1>6, <1>7, <1>8, <1>9 DEF Abstract!Admit

\* A claim serves the first of the queue, or the picked file when the ledger was
\* lost after the pick.
LEMMA ClaimServes ==
  ASSUME IInv, HeadInv, OneName, Claim
  PROVE  Abstract!Serve
<1>1. /\ head \in Present /\ working = NoFile /\ working' = inbox[head]
      /\ inbox' = [inbox EXCEPT ![head] = NoFile] /\ UNCHANGED <<seq, entry>>
  BY DEF Claim, Leaves, HeadInv, OneName, Present, ledgerVars
<1>2. /\ head \in Names /\ inbox[head] \in Inodes
      /\ inbox'[head] = NoFile /\ \A n \in Names \ {head} : inbox'[n] = inbox[n]
  BY <1>1 DEF Present, IInv, TypeOK
<1>3. CASE head \in Known
  <2>1. inbox[head] \in Queued /\ Abstract!Leave(inbox[head])
    BY <1>1, <1>2, <1>3, OneNameChanged
  <2>2. \A m \in Known \ {head} : seq[head] < seq[m]
    BY <1>1, <1>2, <1>3, InboxAssumption DEF HeadInv
  <2>3. \A m, n \in Known : <<inbox[m], inbox[n]>> \in QueuedBefore <=> seq[m] < seq[n]
    BY InOrderIs DEF QueuedBefore, OneName, Known
  <2>4. ASSUME NEW y \in Queued \ {inbox[head]}
        PROVE  <<inbox[head], y>> \in QueuedBefore
    BY <1>3, <2>2, <2>3 DEF Queued
  <2> QED
    BY <1>1, <2>1, <2>4 DEF Abstract!Serve, Abstract!First
<1>4. CASE head \notin Known
  <2>1. Known = {}
    BY <1>1, <1>2, <1>4, InboxAssumption DEF HeadInv
  <2>2. Queued = {} /\ Queued' = Queued /\ QueuedBefore' = QueuedBefore
    BY <1>1, <1>2, <1>4, <2>1, OneNameChanged DEF Queued
  <2> QED
    BY <1>1, <1>2, <2>2 DEF Abstract!Serve
<1> QED
  BY <1>3, <1>4

\* Every step of ledger, directory and worker is a step of the arrival queue or
\* leaves it alone.
LEMMA StepRefines ==
  ASSUME ~InodeReuse, IInv, HandedOut, HeadInv, OneName, [Next]_vars
  PROVE  [Abstract!Next]_(Abstract!vars)
<1> DEFINE Same == Queued' = Queued /\ QueuedBefore' = QueuedBefore
<1>0. ASSUME Same, working' = working PROVE UNCHANGED Abstract!vars
  BY <1>0 DEF Abstract!vars
<1>1. ASSUME NEW x \in Names, UNCHANGED <<seq, entry, working>>,
             \A n \in Names \ {x} : inbox'[n] = inbox[n],
             inbox'[x] = NoFile \/ inbox'[x] # entry[x]
      PROVE  [Abstract!Next]_(Abstract!vars)
  <2>1. CASE x \in Known
    BY <1>1, <2>1, OneNameChanged DEF Abstract!Next, Abstract!Withdraw
  <2>2. CASE x \notin Known
    BY <1>0, <1>1, <2>2, OneNameChanged
  <2> QED
    BY <2>1, <2>2
<1>2. ASSUME UNCHANGED <<inbox, seq, entry>> PROVE Same
  <2>1. Known' = Known /\ \A n \in Known : inbox'[n] = inbox[n] /\ seq'[n] = seq[n]
    BY <1>2 DEF Known, Present
  <2> QED
    BY <2>1, QueueKept
<1> USE DEF diskVars, fileVars, ledgerVars, workerVars
<1>3. ASSUME NEW p \in Stagers, NEW m \in Names, Land(p, m)
      PROVE  [Abstract!Next]_(Abstract!vars)
  <2>1. PICK j \in Inodes \ used : inbox' = [inbox EXCEPT ![m] = j]
    BY <1>3 DEF Land, Allocatable
  <2>2. /\ \A n \in Names \ {m} : inbox'[n] = inbox[n]
        /\ inbox'[m] # entry[m]
    BY <2>1, InboxAssumption DEF HandedOut, IInv, TypeOK
  <2> QED
    BY <1>1, <1>3, <2>2 DEF Land
<1>4. ASSUME NEW p \in Stagers, (\E m \in Names : CopyOver(p, m)) \/ Stamp(p) \/ Quit(p)
      PROVE  [Abstract!Next]_(Abstract!vars)
  BY <1>0, <1>2, <1>4 DEF CopyOver, Stamp, Quit
<1>5. ASSUME NEW m \in Names, Withdraw(m) PROVE [Abstract!Next]_(Abstract!vars)
  BY <1>1, <1>5 DEF Withdraw, Leaves, IInv, TypeOK
<1>6. CASE LoseLedger
  <2>1. Known' = {} /\ working' = working
    BY <1>6 DEF LoseLedger, Known, Present, workerVars
  <2>2. Queued' = {} /\ QueuedBefore' = {}
    BY <2>1 DEF Queued, QueuedBefore, InOrder
  <2>3. CASE Queued # {}
    BY <2>1, <2>2, <2>3 DEF Abstract!Next, Abstract!Forget
  <2>4. CASE Queued = {}
    <3>1. QueuedBefore = {}
      BY <2>4 DEF Queued, QueuedBefore, InOrder
    <3> QED
      BY <1>0, <2>1, <2>2, <2>4, <3>1
  <2> QED
    BY <2>3, <2>4
<1>7. CASE Sync
  <2>1. CASE Unknown # {}
    BY <1>7, <2>1, SyncAdmits DEF Abstract!Next
  <2>2. CASE Unknown = {}
    <3>1. PICK r \in Rankings : seq' = SyncedSeq(r) /\ entry' = SyncedEntry
      BY <1>7 DEF Sync
    <3>2. inbox' = inbox /\ working' = working
      BY <1>7 DEF Sync, diskVars
    <3>3. Known' = Known /\ \A n \in Known : seq'[n] = seq[n]
      BY <2>2, <3>1, <3>2, SyncOrder, SyncedSeqType DEF IInv
    <3> QED
      BY <1>0, <3>2, <3>3, QueueKept
  <2> QED
    BY <2>1, <2>2
<1>8. CASE Claim
  BY <1>8, ClaimServes DEF Abstract!Next
<1>9. CASE Finish
  BY <1>2, <1>9 DEF Finish, diskVars, ledgerVars, Abstract!Next, Abstract!Done
<1>10. CASE Crash
  <2>1. Same /\ working' = NoFile
    BY <1>2, <1>10 DEF Crash, diskVars, ledgerVars
  <2> QED
    BY <1>0, <2>1 DEF Abstract!Next, Abstract!Done
<1>11. CASE UNCHANGED vars
  BY <1>0, <1>2, <1>11 DEF vars, diskVars, ledgerVars, workerVars
<1> QED
  BY <1>3, <1>4, <1>5, <1>6, <1>7, <1>8, <1>9, <1>10, <1>11 DEF Next

\* The ledger with the worker's pick and claim implements ArrivalQueue: files
\* join behind all who wait, only the first is served, and the rest stay in
\* place across replacements, withdrawals, crashes and a lost ledger, under the
\* assumptions of ClaimsHead (sync_inbox_fifo, poll_inbox, claim_inbox_genome).
THEOREM IsArrivalQueue ==
  ASSUME ~InodeReuse, ~TouchHead
  PROVE  Spec => ImplementsArrivalQueue
<1>1. Init => Abstract!Init
  <2> SUFFICES ASSUME Init PROVE Abstract!Init
    OBVIOUS
  <2>1. Known = {} /\ working = NoFile
    BY DEF Init, Known, Present
  <2> QED
    BY <2>1 DEF Abstract!Init, Queued, QueuedBefore, InOrder
<1>2. IInv /\ HandedOut /\ HeadInv /\ OneName /\ [Next]_vars
        => [Abstract!Next]_(Abstract!vars)
  BY StepRefines
<1>3. IInv /\ HandedOut /\ HeadInv /\ [Next]_vars => HeadInv'
  BY NextHeadInv
<1>4. IInv /\ HandedOut /\ OneName /\ [Next]_vars => OneName'
  BY NextOneName
<1> QED
  BY <1>1, <1>2, <1>3, <1>4, InitIInv, NextIInv, InitHandedOut, NextHandedOut,
     InitHeadInv, InitOneName, PTL
     DEF Spec, ImplementsArrivalQueue, Abstract!Spec

-----------------------------------------------------------------------------
(* The idle gate.                                                         *)

LEMMA OlderType ==
  ASSUME NEW cap \in Nat, NEW n \in Nat, NEW a \in Age(cap) \cup {None}
  PROVE  /\ Older(a, n, cap) \in Age(cap) \cup {None}
         /\ a # None => Older(a, n, cap) \in Age(cap)
         /\ a = None => Older(a, n, cap) = None
  BY IdleGateAssumption DEF Older, Age

LEMMA Caps == Delay \in Nat /\ Stale + 1 \in Nat /\ Blind + 1 \in Nat
  BY IdleGateAssumption DEF Stale, Blind

LEMMA PassType ==
  ASSUME GateTypeOK, NEW n \in Nat, Pass(n)
  PROVE  /\ status' \in Status \cup {None}
         /\ status' = None <=> status = None
         /\ clear' \in [Supervisors -> Age(Delay) \cup {None}]
<1>1. \A p \in Supervisors : Older(clear[p], n, Delay) \in Age(Delay) \cup {None}
  BY OlderType, Caps DEF GateTypeOK
<1>2. clear' \in [Supervisors -> Age(Delay) \cup {None}]
  BY <1>1 DEF Pass
<1>3. CASE status = None
  BY <1>2, <1>3 DEF Pass
<1>4. CASE status # None
  <2>1. status \in Status
    BY <1>4 DEF GateTypeOK
  <2>2. status.age \in Age(Stale + 1) /\ status.age # None
    BY <2>1, IdleGateAssumption DEF Status, Age
  <2>3. Older(status.age, n, Stale + 1) \in Age(Stale + 1)
    BY <2>2, OlderType, Caps
  <2>4. Older(status.since, n, Delay) \in Age(Delay) \cup {None}
    BY <2>1, OlderType, Caps DEF Status
  <2>5. status' \in Status
    BY <1>4, <2>1, <2>3, <2>4 DEF Pass, Status
  <2> QED BY <1>2, <1>4, <2>5, IdleGateAssumption
<1> QED BY <1>3, <1>4

LEMMA WriteType ==
  ASSUME NEW gate \in {"open", "closed"},
         NEW reason \in {"idle", "active", "idle_delay", "error"},
         NEW since \in Age(Delay) \cup {None},
         Write(gate, reason, since)
  PROVE  /\ status' # None
         /\ status'.gate = gate /\ status'.reason = reason
         /\ status'.since = since
<1>1. status' \in Status
  BY Caps DEF Write, Status, Age
<1> QED BY <1>1, IdleGateAssumption DEF Write

LEMMA GateTypeInit == GateInit => GateTypeOK
<1> SUFFICES ASSUME GateInit PROVE GateTypeOK
  OBVIOUS
<1>1. /\ quiet \in Age(Delay) /\ watching \in Age(Blind + 1)
      /\ crashes \in 0..MaxCrashes
  BY IdleGateAssumption, Caps DEF GateInit, Age
<1>2. /\ clear \in [Supervisors -> Age(Delay) \cup {None}]
      /\ lastOpen \in [Supervisors -> BOOLEAN \cup {None}]
  BY DEF GateInit
<1> QED BY <1>1, <1>2 DEF GateInit, GateTypeOK

LEMMA GateTypeStep == GateTypeOK /\ [GateNext]_gateVars => GateTypeOK'
<1> SUFFICES ASSUME GateTypeOK, [GateNext]_gateVars PROVE GateTypeOK'
  OBVIOUS
<1> USE IdleGateAssumption, Caps DEF env, ramVars
<1>1. ASSUME NEW p \in Supervisors, Start(p) PROVE GateTypeOK'
  BY <1>1 DEF GateTypeOK, Start, Status
<1>2. ASSUME NEW p \in Supervisors, Fetch(p) PROVE GateTypeOK'
  BY <1>2 DEF GateTypeOK, Fetch
<1>3. ASSUME NEW p \in Supervisors, Decide(p) PROVE GateTypeOK'
  <2>1. CASE DecideBlocked(p)
    BY <2>1 DEF GateTypeOK, DecideBlocked, Write, Status, Age
  <2>2. CASE DecideCold(p)
    BY <2>2 DEF GateTypeOK, DecideCold, Write, Status, Age
  <2>3. CASE DecideDelay(p)
    BY <2>3 DEF GateTypeOK, DecideDelay, Write, Status, Age
  <2>4. CASE DecideError(p)
    BY <2>4 DEF GateTypeOK, DecideError, Write, Rest, Status, Age
  <2> QED BY <1>3, <2>1, <2>2, <2>3, <2>4 DEF Decide
<1>4. ASSUME NEW p \in Supervisors, MaybeFreeze(p) PROVE GateTypeOK'
  BY <1>4 DEF GateTypeOK, MaybeFreeze, Rest
<1>5. ASSUME NEW p \in Supervisors, Wake(p) PROVE GateTypeOK'
  BY <1>5 DEF GateTypeOK, Wake
<1>6. CASE CrashSupervisor
  <2>1. crashes' \in 0..MaxCrashes
    BY <1>6 DEF GateTypeOK, CrashSupervisor
  <2> QED BY <1>6, <2>1 DEF GateTypeOK, CrashSupervisor
<1>7. CASE Unlink \/ Sessions \/ Reach
  <2>1. watching' \in Age(Blind + 1)
    BY <1>7 DEF GateTypeOK, Unlink, Sessions, Reach, Age
  <2>2. blocking' \in BOOLEAN /\ jellyfin' \in BOOLEAN
    BY <1>7 DEF GateTypeOK, Unlink, Sessions, Reach
  <2> QED BY <1>7, <2>1, <2>2 DEF GateTypeOK, Unlink, Sessions, Reach
<1>8. CASE Tick
  <2>1. status' \in Status \cup {None}
        /\ clear' \in [Supervisors -> Age(Delay) \cup {None}]
    BY <1>8, PassType DEF Tick
  <2>2. wake' \in [Supervisors -> Nat]
    BY <1>8 DEF GateTypeOK, Tick
  <2>3. quiet' \in Age(Delay) /\ watching' \in Age(Blind + 1)
    BY <1>8 DEF GateTypeOK, Tick, Older, Age
  <2> QED BY <1>8, <2>1, <2>2, <2>3 DEF GateTypeOK, Tick
<1>9. CASE Jump
  <2>1. status' \in Status \cup {None}
        /\ clear' \in [Supervisors -> Age(Delay) \cup {None}]
    BY <1>9, PassType, Delay + Stale + 1 \in Nat DEF Jump, Stale
  <2> QED BY <1>9, <2>1 DEF GateTypeOK, Jump
<1>10. CASE UNCHANGED gateVars BY <1>10 DEF GateTypeOK, gateVars
<1> QED BY <1>1, <1>2, <1>3, <1>4, <1>5, <1>6, <1>7, <1>8, <1>9, <1>10
        DEF GateNext, Supervise

\* Every step of a supervisor, a CLI run, Hammer or the clock keeps the status
\* file well formed and the ages in their range.
THEOREM GateTypeCorrect == GateSpec => []GateTypeOK
  BY GateTypeInit, GateTypeStep, PTL DEF GateSpec

-----------------------------------------------------------------------------
(* The delay survives restarts.                                            *)

Closed == status # None /\ status.gate = "closed"

\* What the unit knows of the last block, in memory or in the file it will
\* read when it starts again, is never older than the truth.
DelayInv ==
  /\ ~Closed => quiet = Delay
  /\ Closed /\ status.reason = "idle_delay" /\ status.since # None
       => status.since <= quiet
  /\ pc[Unit] # "down" =>
       /\ ~seen[Unit] => quiet = Delay
       /\ clear[Unit] # None => clear[Unit] <= quiet

LEMMA DelayStep ==
  ASSUME OnceRuns = {}, ~Hammer, ~ClockJumps
  PROVE  GateTypeOK /\ DelayInv /\ [GateNext]_gateVars => DelayInv'
<1> SUFFICES ASSUME OnceRuns = {}, ~Hammer, ~ClockJumps,
                    GateTypeOK, DelayInv, [GateNext]_gateVars
             PROVE  DelayInv'
  OBVIOUS
<1>1. Supervisors = {Unit}
  BY DEF Supervisors
<1> USE IdleGateAssumption, <1>1 DEF env, ramVars, Closed
<1>2. CASE Start(Unit)
  BY <1>2 DEF GateTypeOK, DelayInv, Start, Status
<1>3. CASE Fetch(Unit) \/ Wake(Unit)
  BY <1>3 DEF GateTypeOK, DelayInv, Fetch, Wake
<1>4. CASE DecideBlocked(Unit)
  <2>1. status' # None /\ status'.gate = "closed" /\ status'.reason = "active"
    BY <1>4, WriteType DEF DecideBlocked
  <2>2. seen'[Unit] /\ clear'[Unit] = None
    BY <1>4 DEF DecideBlocked, GateTypeOK
  <2> QED BY <2>1, <2>2 DEF DelayInv
<1>5. CASE DecideCold(Unit)
  BY <1>5 DEF GateTypeOK, DelayInv, DecideCold, Write
<1>6. CASE DecideDelay(Unit)
  <2> DEFINE elapsed == IF clear[Unit] = None THEN 0 ELSE clear[Unit]
  <2>1. /\ elapsed \in 0..Delay /\ elapsed <= quiet /\ quiet \in 0..Delay
        /\ seen[Unit] /\ pc[Unit] # "down"
    BY <1>6 DEF DelayInv, DecideDelay, GateTypeOK, Age
  <2>2. quiet' = quiet /\ seen' = seen /\ clear'[Unit] = elapsed
    BY <1>6 DEF DecideDelay, GateTypeOK
  <2>3. CASE Delay - elapsed > 0
    <3>1. status' # None /\ status'.gate = "closed" /\ status'.since = elapsed
      BY <1>6, <2>1, <2>3, WriteType DEF DecideDelay, Age
    <3> QED BY <2>1, <2>2, <3>1 DEF DelayInv
  <2>4. CASE ~(Delay - elapsed > 0)
    <3>1. status'.gate = "open"
      BY <1>6, <2>4 DEF DecideDelay, Write
    <3>2. quiet = Delay
      BY <2>1, <2>4
    <3> QED BY <2>1, <2>2, <3>1, <3>2 DEF DelayInv
  <2> QED BY <2>3, <2>4
<1>7. CASE DecideError(Unit) \/ MaybeFreeze(Unit)
  <2>1. CASE DecideError(Unit)
    <3>1. status' # None /\ status'.gate = "closed" /\ status'.reason = "error"
      BY <2>1, WriteType DEF DecideError
    <3> QED BY <2>1, <3>1 DEF DelayInv, DecideError
  <2>2. CASE MaybeFreeze(Unit)
    BY <2>2 DEF DelayInv, MaybeFreeze
  <2> QED BY <1>7, <2>1, <2>2
<1>8. CASE CrashSupervisor \/ Sessions \/ Reach
  BY <1>8 DEF GateTypeOK, DelayInv, CrashSupervisor, Sessions, Reach
<1>9. CASE Tick
  <2>1. quiet \in 0..Delay /\ quiet' = IF quiet < Delay THEN quiet + 1 ELSE Delay
    BY <1>9 DEF Tick, GateTypeOK, Older, Age
  <2>2. clear[Unit] \in 0..Delay \cup {None}
        /\ clear'[Unit] = Older(clear[Unit], 1, Delay)
    BY <1>9 DEF Tick, Pass, GateTypeOK, Age
  <2>3. clear'[Unit] # None =>
          /\ clear[Unit] # None
          /\ clear'[Unit] = IF clear[Unit] < Delay THEN clear[Unit] + 1 ELSE Delay
    BY <2>2 DEF Older
  <2>4. status = None <=> status' = None
    BY <1>9, PassType DEF Tick
  <2>5. status # None =>
          /\ status \in Status
          /\ status'.gate = status.gate /\ status'.reason = status.reason
          /\ status'.since = Older(status.since, 1, Delay)
    BY <1>9 DEF Tick, Pass, GateTypeOK, Status
  <2>6. status # None /\ status'.since # None =>
          /\ status.since # None /\ status.since \in 0..Delay
          /\ status'.since = IF status.since < Delay THEN status.since + 1 ELSE Delay
    BY <2>5 DEF Older, Status, Age
  <2>7. pc' = pc /\ seen' = seen
    BY <1>9 DEF Tick
  <2>8. ~Closed' => quiet' = Delay
    BY <2>1, <2>4, <2>5 DEF DelayInv
  <2>9. Closed' /\ status'.reason = "idle_delay" /\ status'.since # None
          => status'.since <= quiet'
    BY <2>1, <2>4, <2>5, <2>6 DEF DelayInv
  <2>10. pc'[Unit] # "down" =>
           /\ ~seen'[Unit] => quiet' = Delay
           /\ clear'[Unit] # None => clear'[Unit] <= quiet'
    BY <2>1, <2>2, <2>3, <2>7 DEF DelayInv
  <2> QED BY <2>8, <2>9, <2>10 DEF DelayInv
<1>10. CASE UNCHANGED gateVars
  BY <1>10 DEF DelayInv, gateVars
<1> QED BY <1>2, <1>3, <1>4, <1>5, <1>6, <1>7, <1>8, <1>9, <1>10
        DEF GateNext, Supervise, Decide, Unlink, Jump

LEMMA DelayAlways ==
  ASSUME OnceRuns = {}, ~Hammer, ~ClockJumps
  PROVE  GateSpec => [](GateTypeOK /\ DelayInv)
<1>1. GateInit => DelayInv
  BY IdleGateAssumption DEF GateInit, DelayInv, Closed, Supervisors
<1>2. GateTypeOK /\ DelayInv /\ [GateNext]_gateVars => (GateTypeOK /\ DelayInv)'
  BY GateTypeStep, DelayStep
<1> QED BY <1>1, <1>2, GateTypeInit, PTL DEF GateSpec

\* One supervisor that keeps the file to itself holds the gate closed for
\* idle_delay_sec after every reported block, however often it dies, restarts
\* or loses Jellyfin in between.
THEOREM HoldSurvivesRestart ==
  ASSUME OnceRuns = {}, ~Hammer, ~ClockJumps
  PROVE  GateSpec => []DelayIsKept
<1>1. GateTypeOK /\ DelayInv => DelayIsKept
  BY DEF DelayInv, DelayIsKept, Closed, GateTypeOK, Status
<1> QED BY <1>1, DelayAlways, PTL

-----------------------------------------------------------------------------
(* The freezer follows the gate.                                           *)

\* What the unit remembers of an open gate was carried out.
FreezerInv ==
  /\ frozen => FreezeWorker /\ lastOpen[Unit] # TRUE
  /\ FrozenOnlyWhileClosed

LEMMA FreezerStep ==
  ASSUME OnceRuns = {}, ~SystemctlFails
  PROVE  GateTypeOK /\ FreezerInv /\ [GateNext]_gateVars => FreezerInv'
<1> SUFFICES ASSUME OnceRuns = {}, ~SystemctlFails,
                    GateTypeOK, FreezerInv, [GateNext]_gateVars
             PROVE  FreezerInv'
  OBVIOUS
<1>1. Supervisors = {Unit}
  BY DEF Supervisors
<1> USE IdleGateAssumption, <1>1
        DEF env, ramVars, FreezerInv, FrozenOnlyWhileClosed
<1>2. CASE Start(Unit) \/ Fetch(Unit) \/ Wake(Unit)
  <2>1. /\ frozen' = frozen /\ pc'[Unit] # "sleep"
        /\ lastOpen'[Unit] = lastOpen[Unit] \/ lastOpen'[Unit] = None
    BY <1>2 DEF GateTypeOK, Start, Fetch, Wake
  <2> QED BY <2>1
<1>3. CASE DecideBlocked(Unit) \/ DecideCold(Unit) \/ DecideDelay(Unit)
  <2>1. frozen' = frozen /\ lastOpen' = lastOpen /\ pc'[Unit] # "sleep"
    BY <1>3 DEF GateTypeOK, DecideBlocked, DecideCold, DecideDelay
  <2> QED BY <2>1
<1>4. CASE DecideError(Unit)
  <2>1. status'.gate = "closed"
    BY <1>4 DEF DecideError, Write
  <2>2. frozen' = frozen /\ lastOpen' = lastOpen
    BY <1>4 DEF DecideError
  <2> QED BY <2>1, <2>2
<1>5. CASE MaybeFreeze(Unit)
  <2> DEFINE open == status # None /\ status.gate = "open"
  <2>1. ~open => status = None \/ status.gate = "closed"
    BY DEF GateTypeOK, Status
  <2>2. status' = status
    BY <1>5 DEF MaybeFreeze
  <2>3. CASE ~FreezeWorker \/ lastOpen[Unit] = open
    <3>1. lastOpen' = lastOpen /\ frozen' = frozen
      BY <1>5, <2>3 DEF MaybeFreeze
    <3> QED BY <2>1, <2>2, <2>3, <3>1
  <2>4. CASE ~(~FreezeWorker \/ lastOpen[Unit] = open)
    <3>1. lastOpen'[Unit] = open /\ frozen' = ~open
      BY <1>5, <2>4 DEF MaybeFreeze, GateTypeOK
    <3>2. frozen' => FreezeWorker /\ lastOpen'[Unit] # TRUE
      BY <2>4, <3>1
    <3> QED BY <2>1, <2>2, <3>1, <3>2
  <2> QED BY <2>3, <2>4
<1>6. CASE CrashSupervisor \/ Unlink \/ Sessions \/ Reach
  <2>1. /\ frozen' = frozen /\ lastOpen' = lastOpen
        /\ pc' = pc \/ pc'[Unit] # "sleep"
        /\ status' = status \/ status' = None
    BY <1>6 DEF GateTypeOK, CrashSupervisor, Unlink, Sessions, Reach
  <2> QED BY <2>1
<1>7. CASE Tick \/ Jump
  <2>1. /\ pc' = pc /\ lastOpen' = lastOpen /\ frozen' = frozen
        /\ status = None => status' = None
        /\ status # None => status'.gate = status.gate
    BY <1>7 DEF Tick, Jump, Pass, GateTypeOK, Status
  <2> QED BY <2>1
<1>8. CASE UNCHANGED gateVars
  BY <1>8 DEF gateVars
<1> QED BY <1>2, <1>3, <1>4, <1>5, <1>6, <1>7, <1>8 DEF GateNext, Supervise, Decide

\* While systemctl works and the unit alone writes the file, a worker is frozen
\* between two polls only if the file says closed, whatever crashed, was
\* unlinked or jumped before.
THEOREM FreezerFollowsGate ==
  ASSUME OnceRuns = {}, ~SystemctlFails
  PROVE  GateSpec => []FrozenOnlyWhileClosed
<1>1. GateInit => FreezerInv
  BY IdleGateAssumption DEF GateInit, FreezerInv, FrozenOnlyWhileClosed, Supervisors
<1>2. GateTypeOK /\ FreezerInv /\ [GateNext]_gateVars => FreezerInv'
  BY FreezerStep
<1>3. FreezerInv => FrozenOnlyWhileClosed
  BY DEF FreezerInv
<1> QED BY <1>1, <1>2, <1>3, GateTypeInit, GateTypeStep, PTL DEF GateSpec

-----------------------------------------------------------------------------
(* The contract with the readers.                                          *)

LEMMA ContractStep ==
  ASSUME OnceRuns = {}, ~Hammer, ~ClockJumps
  PROVE  GateTypeOK /\ DelayInv /\ (GateTypeOK /\ DelayInv)' /\ [GateNext]_gateVars
           => [Contract!Next]_<<GateOpen, quiet>>
<1> SUFFICES ASSUME OnceRuns = {}, ~Hammer, ~ClockJumps,
                    GateTypeOK, DelayInv, GateTypeOK', DelayInv', [GateNext]_gateVars
             PROVE  [Contract!Next]_<<GateOpen, quiet>>
  OBVIOUS
<1>1. GateOpen \in BOOLEAN /\ GateOpen' \in BOOLEAN
  BY DEF GateOpen
<1>2. GateOpen' => quiet' = Delay
  BY DEF DelayInv, GateOpen, Closed
<1> USE DEF Contract!Next, Contract!Open, Contract!Close, env, ramVars
<1>3. CASE quiet' = quiet
  BY <1>1, <1>2, <1>3
<1>4. ASSUME NEW p \in Supervisors, DecideBlocked(p)
      PROVE  Contract!Block
  BY <1>4 DEF DecideBlocked, Write, GateOpen, Contract!Block
<1>5. CASE Tick
  <2>1. quiet' = IF quiet < Delay THEN quiet + 1 ELSE Delay
    BY <1>5, IdleGateAssumption DEF Tick, Older, GateTypeOK, Age
  <2>2. GateOpen' => GateOpen
    BY <1>5, IdleGateAssumption
       DEF Tick, Pass, Older, GateTypeOK, Age, Status, GateOpen, Stale
  <2> QED BY <1>1, <2>1, <2>2 DEF Contract!Pass
<1>6. quiet' = quiet \/ (\E p \in Supervisors : DecideBlocked(p)) \/ Tick
  BY DEF GateNext, Supervise, Decide, Start, Fetch, DecideCold, DecideDelay,
         DecideError, MaybeFreeze, Wake, CrashSupervisor, Unlink, Sessions, Reach, Jump,
         gateVars
<1> QED BY <1>3, <1>4, <1>5, <1>6

\* To its readers the status file is the contract's gate.
THEOREM Implements ==
  ASSUME OnceRuns = {}, ~Hammer, ~ClockJumps
  PROVE  GateSpec => ImplementsGateContract
<1>1. GateInit => Contract!Init
  BY DEF GateInit, Contract!Init, GateOpen
<1> QED BY <1>1, ContractStep, DelayAlways, PTL
       DEF GateSpec, ImplementsGateContract, Contract!Spec

-----------------------------------------------------------------------------
(* The gate fails closed.                                                  *)

\* A blocking session has lasted no longer than since the sample that missed
\* it, and the sample is no older than the answer may take and the file's age.
UnseenInv ==
  /\ ~blocking => watching = 0
  /\ \A p \in Supervisors :
       pc[p] = "decide" /\ sample[p] = "idle" => watching + wake[p] <= MaxFetch
  /\ status # None /\ status.gate = "open" => watching <= status.age + MaxFetch

LEMMA UnseenStep == GateTypeOK /\ UnseenInv /\ [GateNext]_gateVars => UnseenInv'
<1> SUFFICES ASSUME GateTypeOK, UnseenInv, [GateNext]_gateVars PROVE UnseenInv'
  OBVIOUS
<1> USE IdleGateAssumption DEF env, ramVars, UnseenInv
<1>1. ASSUME NEW p \in Supervisors, Start(p) \/ Wake(p) \/ MaybeFreeze(p)
      PROVE  UnseenInv'
  <2>1. /\ UNCHANGED <<blocking, watching, status, sample>>
        /\ pc'[p] # "decide"
        /\ \A q \in Supervisors \ {p} : pc'[q] = pc[q] /\ wake'[q] = wake[q]
    BY <1>1 DEF GateTypeOK, Start, Wake, MaybeFreeze, Rest
  <2> QED BY <2>1
<1>2. ASSUME NEW p \in Supervisors, Fetch(p) PROVE UnseenInv'
  <2>1. /\ UNCHANGED <<blocking, watching, status>>
        /\ sample'[p] = "idle" => watching = 0
        /\ wake'[p] = MaxFetch
        /\ \A q \in Supervisors \ {p} :
             pc'[q] = pc[q] /\ wake'[q] = wake[q] /\ sample'[q] = sample[q]
    BY <1>2 DEF GateTypeOK, Fetch
  <2> QED BY <2>1
<1>3. ASSUME NEW p \in Supervisors, Decide(p) PROVE UnseenInv'
  <2>1. /\ UNCHANGED <<blocking, watching, sample>>
        /\ pc'[p] # "decide"
        /\ \A q \in Supervisors \ {p} : pc'[q] = pc[q] /\ wake'[q] = wake[q]
    BY <1>3 DEF GateTypeOK, Decide, DecideBlocked, DecideCold, DecideDelay, DecideError, Rest
  <2>2. status'.gate = "open" => sample[p] = "idle" /\ pc[p] = "decide"
    BY <1>3 DEF Decide, DecideBlocked, DecideCold, DecideDelay, DecideError, Write
  <2>3. status'.age = 0
    BY <1>3 DEF Decide, DecideBlocked, DecideCold, DecideDelay, DecideError, Write
  <2>4. watching \in Nat /\ wake[p] \in Nat
    BY DEF GateTypeOK, Age, Blind, Stale
  <2>5. status'.gate = "open" => watching' <= status'.age + MaxFetch
    BY <2>1, <2>2, <2>3, <2>4
  <2> QED BY <2>1, <2>5
<1>4. CASE CrashSupervisor \/ Unlink \/ Reach
  <2>1. /\ UNCHANGED <<blocking, watching, sample, wake>>
        /\ \A q \in Supervisors : pc'[q] = "decide" => pc[q] = "decide"
        /\ status' = status \/ status' = None
    BY <1>4 DEF GateTypeOK, CrashSupervisor, Unlink, Reach
  <2> QED BY <2>1
<1>5. CASE Sessions
  <2>1. /\ watching' = 0 /\ UNCHANGED <<pc, sample, wake, status>>
        /\ \A q \in Supervisors : wake[q] \in Nat /\ watching \in Nat
    BY <1>5 DEF GateTypeOK, Sessions, Age, Blind, Stale
  <2>2. status # None => status.age \in Nat
    BY DEF GateTypeOK, Status, Age, Stale
  <2> QED BY <2>1, <2>2
<1>6. CASE Jump
  <2>1. /\ UNCHANGED <<blocking, watching, pc, sample, wake>>
        /\ status' = None <=> status = None
    BY <1>6, PassType, Delay + Stale + 1 \in Nat DEF Jump, Stale
  <2>2. status # None =>
          /\ status'.gate = status.gate
          /\ status.age \in Nat /\ status'.age \in Nat /\ status.age <= status'.age
    BY <1>6 DEF Jump, Pass, GateTypeOK, Status, Older, Age, Stale
  <2>3. watching \in Nat
    BY DEF GateTypeOK, Age, Blind, Stale
  <2> QED BY <2>1, <2>2, <2>3
<1>7. CASE Tick
  <2>1. /\ UNCHANGED <<blocking, pc, sample>>
        /\ status' = None <=> status = None
    BY <1>7, PassType DEF Tick
  <2>2. /\ watching \in 0..(Stale + MaxFetch + 1) /\ Stale \in Nat
        /\ watching' = IF ~blocking THEN 0
                       ELSE IF watching < Stale + MaxFetch + 1 THEN watching + 1
                                                               ELSE watching
    BY <1>7 DEF Tick, GateTypeOK, Age, Older, Blind, Stale
  <2>3. status # None =>
          /\ status'.gate = status.gate /\ status.age \in 0..(Stale + 1)
          /\ status'.age = IF status.age < Stale + 1 THEN status.age + 1 ELSE Stale + 1
    BY <1>7, <2>2 DEF Tick, Pass, GateTypeOK, Status, Older, Age
  <2>4. \A p \in Supervisors : pc[p] = "decide" =>
          wake[p] \in Nat /\ wake[p] > 0 /\ wake'[p] = wake[p] - 1
    BY <1>7 DEF Tick, GateTypeOK
  <2>5. \A p \in Supervisors :
          pc'[p] = "decide" /\ sample'[p] = "idle" => watching' + wake'[p] <= MaxFetch
    BY <2>1, <2>2, <2>4
  <2>6. status' # None /\ status'.gate = "open" => watching' <= status'.age + MaxFetch
    BY <2>1, <2>2, <2>3
  <2> QED BY <2>1, <2>2, <2>5, <2>6
<1>8. CASE UNCHANGED gateVars
  BY <1>8 DEF gateVars
<1> QED BY <1>1, <1>2, <1>3, <1>4, <1>5, <1>6, <1>7, <1>8 DEF GateNext, Supervise

\* With any number of supervisors and CLI runs that die, hang or lose Jellyfin,
\* a deleted file, a failing systemctl and a clock that is set forward, no
\* reader finds the gate open when a session has blocked for three polls and an
\* answer.
THEOREM GateFailsClosed == GateSpec => []FailsClosed
<1>1. GateInit => UnseenInv
  BY DEF GateInit, UnseenInv
<1>2. GateTypeOK /\ UnseenInv => FailsClosed
  <2> SUFFICES ASSUME GateTypeOK, UnseenInv, GateOpen PROVE watching <= Blind
    BY DEF FailsClosed
  <2>1. status # None /\ status.gate = "open" /\ status.age <= Stale
    BY DEF GateOpen
  <2>2. status.age \in Nat /\ watching \in Nat /\ Stale \in Nat /\ MaxFetch \in Nat
    BY <2>1, IdleGateAssumption DEF GateTypeOK, Status, Age, Blind, Stale
  <2> QED BY <2>1, <2>2 DEF UnseenInv, Blind
<1> QED BY <1>1, <1>2, GateTypeInit, GateTypeStep, UnseenStep, PTL DEF GateSpec
=============================================================================
