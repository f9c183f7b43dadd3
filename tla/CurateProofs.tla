---------------------------- MODULE CurateProofs ----------------------------
(***************************************************************************)
(* Proofs about Curate, for any sheep, verdicts, floor, budget and bounds.  *)
(***************************************************************************)
EXTENDS Curate, SequenceTheorems, FiniteSetTheorems, TLAPS

-----------------------------------------------------------------------------
(* Positions in sequences.                                                 *)

\* The first position that passes a test.
LEMMA FirstIs ==
  ASSUME NEW I \in SUBSET Nat, NEW i \in I, \A j \in I : i <= j
  PROVE  Min(I) = i
<1>1. \A k \in I : (\A j \in I : k <= j) => k = i
  <2> SUFFICES ASSUME NEW k \in I, \A j \in I : k <= j PROVE k = i
    OBVIOUS
  <2>1. k <= i /\ i <= k /\ k \in Int /\ i \in Int
    OBVIOUS
  <2> QED
    BY <2>1
<1> QED
  BY <1>1 DEF Min

LEMMA RemoveIs ==
  ASSUME NEW S, NEW q \in Seq(S), NEW i \in 1..Len(q)
  PROVE  /\ RemoveAt(q, i) \in Seq(S)
         /\ Len(RemoveAt(q, i)) = Len(q) - 1
         /\ \A j \in 1..Len(q) - 1 : RemoveAt(q, i)[j] = IF j < i THEN q[j] ELSE q[j + 1]
<1> DEFINE u == SubSeq(q, 1, i - 1)
           v == SubSeq(q, i + 1, Len(q))
<1>1. Len(q) \in Nat /\ \A j \in 1..Len(q) : q[j] \in S
  OBVIOUS
<1>2. u \in Seq(S) /\ Len(u) = i - 1 /\ \A j \in 1..i - 1 : u[j] = q[j]
  BY <1>1, SubSeqProperties
<1>3. v \in Seq(S) /\ Len(v) = Len(q) - i /\ \A j \in 1..Len(q) - i : v[j] = q[i + j]
  BY <1>1, SubSeqProperties
<1> HIDE DEF u, v
<1> DEFINE w == u \o v
<1>4. /\ w \in Seq(S) /\ Len(w) = Len(u) + Len(v)
      /\ \A j \in 1..Len(u) + Len(v) : w[j] = IF j <= Len(u) THEN u[j] ELSE v[j - Len(u)]
  BY <1>2, <1>3, ConcatProperties
<1>5. RemoveAt(q, i) = w
  BY DEF RemoveAt, u, v
<1> HIDE DEF w
<1>6. ASSUME NEW j \in 1..Len(q) - 1 PROVE w[j] = IF j < i THEN q[j] ELSE q[j + 1]
  <2>1. Len(u) + Len(v) = Len(q) - 1
    BY <1>1, <1>2, <1>3
  <2>2. CASE j < i
    BY <1>1, <1>2, <1>4, <2>1, <2>2
  <2>3. CASE j >= i
    <3>1. w[j] = v[j - Len(u)] /\ j - Len(u) = j + 1 - i
      BY <1>1, <1>2, <1>4, <2>1, <2>3
    <3>2. j + 1 - i \in 1..Len(q) - i /\ i + (j + 1 - i) = j + 1
      BY <1>1, <2>3
    <3> QED
      BY <1>3, <2>3, <3>1, <3>2
  <2> QED
    BY <1>1, <2>2, <2>3
<1>7. w \in Seq(S) /\ Len(w) = Len(q) - 1
  BY <1>1, <1>2, <1>3, <1>4
<1> QED
  BY <1>5, <1>6, <1>7

\* Taking a sheep out of the flock.
LEMMA WithoutIs ==
  ASSUME flock \in Seq(Sheep), IsInjective(flock), NEW s
  PROVE  /\ Without(s) \in Seq(Sheep) /\ IsInjective(Without(s))
         /\ ToSet(Without(s)) = Live \ {s}
         /\ Len(Without(s)) = IF s \in Live THEN Len(flock) - 1 ELSE Len(flock)
<1>1. Len(flock) \in Nat /\ DOMAIN flock = 1..Len(flock)
  OBVIOUS
<1>2. CASE s \in Live
  <2>1. PICK i \in 1..Len(flock) : flock[i] = s
    BY <1>1, <1>2 DEF Live, ToSet
  <2>2. {j \in 1..Len(flock) : flock[j] = s} = {i}
    BY <1>1, <2>1 DEF IsInjective
  <2>3. SelectInSeq(flock, LAMBDA v : v = s) = i
    BY <2>2, FirstIs DEF SelectInSeq
  <2>4. Without(s) = RemoveAt(flock, i)
    BY <2>1, <2>3 DEF Without, RemoveFirst
  <2>5. /\ Without(s) \in Seq(Sheep) /\ Len(Without(s)) = Len(flock) - 1
        /\ \A j \in 1..Len(flock) - 1 : Without(s)[j] = IF j < i THEN flock[j] ELSE flock[j + 1]
    BY <2>4, RemoveIs
  <2> HIDE DEF Without
  <2>6. DOMAIN Without(s) = 1..Len(flock) - 1
    BY <2>5
  <2>7. IsInjective(Without(s))
    <3> SUFFICES ASSUME NEW j \in 1..Len(flock) - 1, NEW k \in 1..Len(flock) - 1,
                        Without(s)[j] = Without(s)[k]
                 PROVE  j = k
      BY <2>6 DEF IsInjective
    <3>1. \A m, n \in 1..Len(flock) : flock[m] = flock[n] => m = n
      BY <1>1 DEF IsInjective
    <3>2. (IF j < i THEN flock[j] ELSE flock[j + 1]) = (IF k < i THEN flock[k] ELSE flock[k + 1])
      BY <2>5
    <3>3. (IF j < i THEN j ELSE j + 1) = (IF k < i THEN k ELSE k + 1)
      BY <1>1, <3>1, <3>2
    <3> QED
      BY <1>1, <3>3
  <2>8. ASSUME NEW t \in ToSet(Without(s)) PROVE t \in Live \ {s}
    BY <1>1, <2>1, <2>5, <2>6, <2>8 DEF ToSet, Live, IsInjective
  <2>9. ASSUME NEW t \in Live \ {s} PROVE t \in ToSet(Without(s))
    <3>1. PICK j \in 1..Len(flock) : flock[j] = t
      BY <1>1, <2>9 DEF Live, ToSet
    <3>2. CASE j < i
      BY <1>1, <2>1, <2>5, <2>6, <3>1, <3>2 DEF ToSet
    <3>3. CASE j > i
      <4>1. j - 1 \in 1..Len(flock) - 1 /\ Without(s)[j - 1] = t
        BY <1>1, <2>1, <2>5, <3>1, <3>3
      <4> QED
        BY <2>6, <4>1 DEF ToSet
    <3> QED
      BY <2>1, <2>9, <3>1, <3>2, <3>3
  <2> QED
    BY <1>2, <2>5, <2>7, <2>8, <2>9
<1>3. CASE s \notin Live
  <2>1. Without(s) = flock
    BY <1>1, <1>3 DEF Without, RemoveFirst, Live, ToSet
  <2> QED
    BY <1>3, <2>1 DEF Live
<1> QED
  BY <1>2, <1>3

\* A new MP4 is the youngest.
LEMMA AppendIs ==
  ASSUME NEW q \in Seq(Sheep), IsInjective(q), NEW s \in Sheep, s \notin ToSet(q)
  PROVE  /\ Append(q, s) \in Seq(Sheep) /\ IsInjective(Append(q, s))
         /\ ToSet(Append(q, s)) = ToSet(q) \cup {s}
         /\ Len(Append(q, s)) = Len(q) + 1
<1> DEFINE a == Append(q, s)
<1>1. /\ Len(q) \in Nat /\ DOMAIN q = 1..Len(q)
      /\ a \in Seq(Sheep) /\ Len(a) = Len(q) + 1 /\ DOMAIN a = 1..Len(q) + 1
      /\ \A i \in 1..Len(q) : a[i] = q[i]
      /\ a[Len(q) + 1] = s
  OBVIOUS
<1> HIDE DEF a
<1>2. \A i \in 1..Len(q) : q[i] # s
  BY <1>1 DEF ToSet
<1>3. IsInjective(a)
  BY <1>1, <1>2 DEF IsInjective
<1>4. ToSet(a) = ToSet(q) \cup {s}
  <2>1. ASSUME NEW t \in ToSet(a) PROVE t \in ToSet(q) \cup {s}
    BY <1>1, <2>1 DEF ToSet
  <2>2. ASSUME NEW t \in ToSet(q) PROVE t \in ToSet(a)
    BY <1>1, <2>2 DEF ToSet
  <2>3. s \in ToSet(a)
    BY <1>1 DEF ToSet
  <2> QED
    BY <2>1, <2>2, <2>3
<1> QED
  BY <1>1, <1>3, <1>4 DEF a

\* The next file of a list is on it.
LEMMA NextFile ==
  ASSUME NEW L \in SUBSET ToSet(Files), L # {}
  PROVE  Files[SelectInSeq(Files, LAMBDA g : g \in L)] \in L
<1> DEFINE I == {i \in 1..Len(Files) : Files[i] \in L}
<1>1. Len(Files) = 7 /\ DOMAIN Files = 1..7
  BY DEF Files
<1>2. I # {} /\ I \subseteq 1..7
  BY <1>1 DEF ToSet
<1>3. \E k \in I : \A j \in I : k <= j
  <2>1. \A j \in I : j \in Int /\ (j = 1 \/ j = 2 \/ j = 3 \/ j = 4 \/ j = 5 \/ j = 6 \/ j = 7)
    BY <1>2
  <2> HIDE DEF I
  <2>2. CASE 1 \in I
    BY <2>1, <2>2
  <2>3. CASE 1 \notin I /\ 2 \in I
    BY <2>1, <2>3
  <2>4. CASE 1 \notin I /\ 2 \notin I /\ 3 \in I
    BY <2>1, <2>4
  <2>5. CASE 1 \notin I /\ 2 \notin I /\ 3 \notin I /\ 4 \in I
    BY <2>1, <2>5
  <2>6. CASE 1 \notin I /\ 2 \notin I /\ 3 \notin I /\ 4 \notin I /\ 5 \in I
    BY <2>1, <2>6
  <2>7. CASE 1 \notin I /\ 2 \notin I /\ 3 \notin I /\ 4 \notin I /\ 5 \notin I /\ 6 \in I
    BY <2>1, <2>7
  <2>8. CASE 1 \notin I /\ 2 \notin I /\ 3 \notin I /\ 4 \notin I /\ 5 \notin I /\ 6 \notin I /\ 7 \in I
    BY <2>1, <2>8
  <2> QED
    BY <1>2, <2>1, <2>2, <2>3, <2>4, <2>5, <2>6, <2>7, <2>8
<1>4. SelectInSeq(Files, LAMBDA g : g \in L) = Min(I)
  BY <1>2 DEF SelectInSeq
<1>5. Min(I) \in I
  BY <1>3 DEF Min
<1> QED
  BY <1>4, <1>5

-----------------------------------------------------------------------------
(* What no step but the named ones changes.                                *)

\* Any command but Hammer begins.
Starts == \/ Sweep \/ Batch
          \/ \E s \in Sheep : Delete(s) \/ \E c \in {"quarantine", "apply"} : Refactor(c, s)

\* A cascade takes a file of a tuple.
CutsKin(p) == \E k \in kin[p] : CutKin(p, k)

LEMMA PoolsFrame ==
  ASSUME [Next]_vars
  PROVE  \/ UNCHANGED <<at, spare>>
         \/ \E s \in Sheep : Land(s) \/ Claim(s)
         \/ Fail \/ Archive \/ Apply \/ MoveGenome
         \/ \E class \in ToSet(Wipes("all")) : Wipe(class)
         \/ \E p \in Procs : Cut(p) \/ CutsKin(p)
<1>1. CASE Work
  BY <1>1 DEF Work, Render, MoveAside, Install, ReadTags, WriteSidecar, StartWorker
<1>2. CASE Operate
  BY <1>2 DEF Operate, Delete, TakeNext, Refactor, Sweep, CutDone, NoneLeft, Batch, Score,
              GiveUp, ParkMp4, ParkSide, ParkNothing, Hammer
<1>3. CASE Rotate
  BY <1>3 DEF Rotate, RotStart, RotPick, RotStat, RotNext, RotStop
<1>4. CASE \E p \in Procs : Cascade(p)
  BY <1>4 DEF Cascade, CutsKin, ListPools, ListRest
<1>5. CASE UNCHANGED vars
  BY <1>5 DEF vars
<1> QED
  BY <1>1, <1>2, <1>3, <1>4, <1>5 DEF Next, Cascade

LEMMA FlockFrame ==
  ASSUME [Next]_vars
  PROVE  \/ UNCHANGED flockVars
         \/ MoveAside \/ Install \/ WriteSidecar \/ ParkMp4 \/ ParkSide
         \/ \E class \in ToSet(Wipes("all")) : Wipe(class)
         \/ \E p \in Procs : Cut(p) \/ CutsKin(p)
<1>1. CASE Work
  BY <1>1 DEF Work, Land, Claim, Fail, Render, ReadTags, Archive, StartWorker
<1>2. CASE Operate
  BY <1>2 DEF Operate, Delete, TakeNext, Refactor, Sweep, CutDone, NoneLeft, Batch, Score,
              Apply, GiveUp, MoveGenome, ParkNothing, Hammer
<1>3. CASE Rotate
  BY <1>3 DEF Rotate, RotStart, RotPick, RotStat, RotNext, RotStop
<1>4. CASE \E p \in Procs : Cascade(p)
  BY <1>4 DEF Cascade, CutsKin, ListPools, ListRest
<1>5. CASE UNCHANGED vars
  BY <1>5 DEF vars
<1> QED
  BY <1>1, <1>2, <1>3, <1>4, <1>5 DEF Next, Cascade

Working ==
  \/ \E s \in Sheep : Claim(s)
  \/ Fail \/ Render \/ MoveAside \/ Install \/ ReadTags \/ WriteSidecar \/ Archive \/ StartWorker

LEMMA WorkerFrame ==
  ASSUME [Next]_vars
  PROVE  \/ UNCHANGED worker
         \/ Working
         \/ \E tier \in Tiers : Hammer(tier)
         \/ \E class \in ToSet(Wipes("all")) : Wipe(class)
         \/ \E p \in Procs : Cut(p)
<1>1. CASE Work
  BY <1>1 DEF Work, Working, Land
<1>2. CASE Operate
  BY <1>2 DEF Operate, Delete, TakeNext, Refactor, Sweep, CutDone, NoneLeft, Batch, Score,
              Apply, GiveUp, MoveGenome, ParkMp4, ParkSide, ParkNothing
<1>3. CASE Rotate
  BY <1>3 DEF Rotate, RotStart, RotPick, RotStat, RotNext, RotStop
<1>4. CASE \E p \in Procs : Cascade(p)
  BY <1>4 DEF Cascade, ListPools, ListRest, CutKin
<1>5. CASE UNCHANGED vars
  BY <1>5 DEF vars
<1> QED
  BY <1>1, <1>2, <1>3, <1>4, <1>5 DEF Next, Cascade

\* Each process goes its way by itself.
LEMMA PlanFrame ==
  ASSUME [Next]_vars
  PROVE  \/ UNCHANGED <<pc, kind, aim, todo>> /\ (\E s \in Sheep : Land(s))
         \/ UNCHANGED <<pc, kind, aim, todo>> /\ Working
         \/ Operate
         \/ Rotate /\ UNCHANGED <<kind, todo>>
         \/ \E p \in Procs : Cascade(p) /\ UNCHANGED <<kind, aim, todo>>
         \/ UNCHANGED vars
<1>1. CASE Work
  BY <1>1 DEF Work, Working, Land, Claim, Fail, Render, MoveAside, Install, ReadTags,
              WriteSidecar, Archive, StartWorker, cascade
<1>2. CASE Rotate
  BY <1>2 DEF Rotate, RotStart, RotPick, RotStat, RotNext, RotStop
<1>3. CASE \E p \in Procs : Cascade(p)
  BY <1>3 DEF Cascade, ListPools, ListRest, Cut, CutKin
<1> QED
  BY <1>1, <1>2, <1>3 DEF Next

-----------------------------------------------------------------------------
(* The inductive invariant of the types.                                   *)

Wiping    == {"jobs", "inbox", "quarantine", "done", "media"}
Cutting   == {"pools", "rest", "cut"}
OpSteps   == {"idle", "next", "score", "move", "park", "parkSide"} \cup Cutting \cup Wiping
RotSteps  == {"idle", "pick", "stat"} \cup Cutting
WorkSteps == {"off", "idle", "render", "aside", "install", "tags", "sidecar", "archive"}
AtHand    == {"stat", "score", "move", "park", "parkSide"} \cup Cutting

PoolsOK == at \in [Sheep -> SUBSET Pools] /\ spare \in [Sheep -> SUBSET {"done", "quarantine"}]

FlockOK ==
  /\ flock \in Seq(Sheep) /\ IsInjective(flock)
  /\ side \subseteq Sheep /\ prev \subseteq Sheep /\ parked \subseteq Sheep

WorkerOK ==
  /\ wk \in WorkSteps /\ cur \in Sheep \cup {None} /\ job \in BOOLEAN
  /\ wk = "idle" => cur = None
  /\ wk \notin {"off", "idle"} => cur \in Sheep
  /\ job => cur # None

\* Whoever has a sheep in hand knows which; a command is one of Hammer's exactly
\* while it wipes.
PlanOK ==
  /\ pc \in [Procs -> OpSteps \cup RotSteps] /\ pc["op"] \in OpSteps /\ pc["rot"] \in RotSteps
  /\ kind \in Commands \cup {"none"} /\ todo \subseteq Sheep
  /\ aim \in [Procs -> Sheep \cup {None}] /\ list \in [Procs -> SUBSET ToSet(Files)]
  /\ \A p \in Procs : pc[p] \in AtHand => aim[p] \in Sheep
  /\ kind = "none" <=> pc["op"] = "idle"
  /\ kind \in Tiers <=> pc["op"] \in Wiping
  /\ kind \in Tiers => pc["op"] \in ToSet(Wipes(kind))
  /\ kind = "sweep" => pc["op"] \in Cutting \cup {"next"}

CountsOK ==
  /\ cands \in Seq(Sheep) /\ planned \in 0..Budget
  /\ ran \in [op : 0..MaxCommands, rot : 0..MaxRotations, land : 0..MaxLandings]
  /\ crossed \subseteq Sheep /\ gone \subseteq Sheep /\ thin \in BOOLEAN

\* Hammer has stopped the worker, and the first it wipes is the job directories.
StoppedOK == /\ kind \in Tiers => wk = "off"
             /\ wk = "off" => ~job \/ pc["op"] = "jobs"

\* A rotation that has picked a sheep may take it.
TakingOK == pc["rot"] \in {"pools", "rest", "stat"} => MayTake

\* What a cascade is to take of tuples is of tuples that name its sheep.
KinOK ==
  /\ kin \in [Procs -> SUBSET (Sheep \X ToSet(Files) \X BOOLEAN)] /\ along \in Nat
  /\ \A p \in Procs : \A k \in kin[p] : pc[p] \in {"stat", "cut"} /\ aim[p] \in Parents(k[1])

CurateInv == PoolsOK /\ FlockOK /\ WorkerOK /\ PlanOK /\ CountsOK /\ StoppedOK /\ TakingOK /\ KinOK

LEMMA InvIsTyped == CurateInv => TypeOK
<1> SUFFICES ASSUME CurateInv PROVE TypeOK
  OBVIOUS
<1> USE DEF CurateInv
<1>1. at \in [Sheep -> SUBSET Pools] /\ spare \in [Sheep -> SUBSET {"done", "quarantine"}]
  BY DEF PoolsOK
<1>2. /\ flock \in Seq(Sheep) /\ IsInjective(flock)
      /\ side \cup prev \cup parked \cup todo \cup gone \cup crossed \subseteq Sheep
  BY DEF FlockOK, PlanOK, CountsOK
<1>3. /\ wk \in WorkSteps /\ cur \in Sheep \cup {None} /\ (wk = "idle" => cur = None)
      /\ (job => cur # None) /\ job \in BOOLEAN
  BY DEF WorkerOK
<1>4. /\ pc \in [Procs -> OpSteps \cup RotSteps] /\ kind \in Commands \cup {"none"}
      /\ aim \in [Procs -> Sheep \cup {None}] /\ list \in [Procs -> SUBSET ToSet(Files)]
  BY DEF PlanOK
<1>5. /\ cands \in Seq(Sheep) /\ planned \in 0..Budget /\ thin \in BOOLEAN
      /\ ran \in [op : 0..MaxCommands, rot : 0..MaxRotations, land : 0..MaxLandings]
  BY DEF CountsOK
<1>6. OpSteps \cup RotSteps \subseteq
        {"idle", "pools", "rest", "stat", "cut", "pick", "next", "score", "move", "park",
         "parkSide", "jobs", "inbox", "quarantine", "done", "media"}
  BY DEF OpSteps, RotSteps, Cutting, Wiping
<1>7. {job, thin} \subseteq BOOLEAN
  BY <1>3, <1>5
<1>8. kin \in [Procs -> SUBSET (Sheep \X ToSet(Files) \X BOOLEAN)] /\ along \in Nat
  BY DEF KinOK
<1> QED
  BY <1>1, <1>2, <1>3, <1>4, <1>5, <1>6, <1>7, <1>8 DEF TypeOK, WorkSteps

LEMMA CurateInit == Init => CurateInv
<1> SUFFICES ASSUME Init PROVE CurateInv
  OBVIOUS
<1>1. PoolsOK
  BY DEF Init, PoolsOK, Pools
<1>2. FlockOK
  <2>1. Cardinality(Sheep) \in Nat
    BY CurateAssumption, FS_CardinalityType
  <2>2. /\ flock \in [1..Cardinality(Sheep) -> Sheep]
        /\ \A i, j \in 1..Cardinality(Sheep) : i # j => flock[i] # flock[j]
    BY CurateAssumption DEF Init, SetToSeqs
  <2>3. flock \in Seq(Sheep) /\ IsInjective(flock)
    BY <2>1, <2>2 DEF IsInjective
  <2> QED
    BY <2>3 DEF Init, FlockOK
<1>3. WorkerOK
  BY DEF Init, WorkerOK, WorkSteps
<1>4. PlanOK
  BY DEF Init, PlanOK, OpSteps, RotSteps, Cutting, Wiping, Tiers, AtHand, Procs
<1>5. CountsOK
  <2>1. Budget \in Nat /\ MaxCommands \in Nat /\ MaxRotations \in Nat /\ MaxLandings \in Nat
    BY CurateAssumption
  <2>2. <<>> \in Seq(Sheep)
    OBVIOUS
  <2>3. ran \in [op : 0..MaxCommands, rot : 0..MaxRotations, land : 0..MaxLandings]
    BY <2>1 DEF Init
  <2>4. cands \in Seq(Sheep) /\ planned \in 0..Budget
    BY <2>1, <2>2 DEF Init
  <2>5. crossed \subseteq Sheep /\ gone \subseteq Sheep /\ thin \in BOOLEAN
    BY DEF Init
  <2> QED
    BY <2>3, <2>4, <2>5 DEF CountsOK
<1>6. StoppedOK
  BY DEF Init, StoppedOK, Tiers
<1>7. TakingOK
  BY DEF Init, TakingOK, Procs
<1>8. KinOK
  BY DEF Init, KinOK
<1> QED
  BY <1>1, <1>2, <1>3, <1>4, <1>5, <1>6, <1>7, <1>8 DEF CurateInv

-----------------------------------------------------------------------------
(* What the pieces of the steps do.                                        *)

LEMMA OnwardIs ==
  ASSUME Onward
  PROVE  /\ aim' = [aim EXCEPT !["op"] = None]
         /\ \/ /\ todo = {} /\ todo' = {} /\ kind' = "none"
               /\ pc' = [pc EXCEPT !["op"] = "idle"]
            \/ /\ todo # {} /\ UNCHANGED <<kind, todo>>
               /\ pc' = [pc EXCEPT !["op"] = "next"]
BY DEF Onward, Quit

\* The classes of each tier, in their order.
LEMMA TierIs ==
  /\ Wipes("worker") = <<"jobs">>
  /\ Wipes("inputs") = <<"jobs", "inbox", "quarantine">>
  /\ Wipes("outputs") = <<"jobs", "done", "media">>
  /\ Wipes("all") = <<"jobs", "inbox", "quarantine", "done", "media">>
BY DEF Wipes

Following == {<<"inputs", "jobs", "inbox">>, <<"inputs", "inbox", "quarantine">>,
              <<"outputs", "jobs", "done">>, <<"outputs", "done", "media">>,
              <<"all", "jobs", "inbox">>, <<"all", "inbox", "quarantine">>,
              <<"all", "quarantine", "done">>, <<"all", "done", "media">>}

Final == {<<"worker", "jobs">>, <<"inputs", "quarantine">>, <<"outputs", "media">>, <<"all", "media">>}

\* Hammer goes through the classes of its tier in their order.
LEMMA WipeIs ==
  ASSUME PlanOK, NEW class, Wipe(class)
  PROVE  /\ kind \in Tiers /\ pc["op"] = class
         /\ \/ Quit /\ <<kind, class>> \in Final
            \/ \E to \in Wiping : /\ <<kind, class, to>> \in Following
                                  /\ pc' = [pc EXCEPT !["op"] = to]
                                  /\ UNCHANGED <<aim, kind, todo>>
<1> DEFINE q == Wipes(kind)
           k == SelectInSeq(q, LAMBDA c : c = class)
<1>1. /\ kind \in Tiers /\ pc["op"] = class /\ class \in ToSet(q)
      /\ IF k + 1 > Len(q) THEN Quit
         ELSE pc' = [pc EXCEPT !["op"] = q[k + 1]] /\ UNCHANGED <<aim, kind, todo>>
  BY DEF Wipe, PlanOK
<1>2. ASSUME NEW n \in 1..Len(q), q[n] = class,
             \A j \in 1..Len(q) : q[j] = class => j = n
      PROVE  k = n
  <2>1. {j \in 1..Len(q) : q[j] = class} = {n} /\ n \in Nat
    BY <1>2
  <2> HIDE DEF q
  <2> QED
    BY <2>1, FirstIs DEF SelectInSeq
<1> HIDE DEF k
<1>3. CASE kind = "worker"
  <2>1. /\ Len(q) = 1
        /\ q[1] = "jobs"
    <3>1. q = <<"jobs">>
      BY <1>3, TierIs
    <3> HIDE DEF q
    <3> QED
      BY <3>1
  <2> HIDE DEF q
  <2>2. class = "jobs"
    BY <1>1, <2>1 DEF ToSet
  <2>3. CASE class = "jobs"
    <3>1. k = 1
      BY <1>2, <2>1, <2>3
    <3> QED
      BY <1>1, <1>3, <2>1, <2>3, <3>1 DEF Final, Following, Wiping
  <2> QED
    BY <2>2, <2>3
<1>4. CASE kind = "inputs"
  <2>1. /\ Len(q) = 3
        /\ q[1] = "jobs" /\ q[2] = "inbox" /\ q[3] = "quarantine"
    <3>1. q = <<"jobs", "inbox", "quarantine">>
      BY <1>4, TierIs
    <3> HIDE DEF q
    <3> QED
      BY <3>1
  <2> HIDE DEF q
  <2>2. class = "jobs" \/ class = "inbox" \/ class = "quarantine"
    BY <1>1, <2>1 DEF ToSet
  <2>3. CASE class = "jobs"
    <3>1. k = 1
      BY <1>2, <2>1, <2>3
    <3> QED
      BY <1>1, <1>4, <2>1, <2>3, <3>1 DEF Final, Following, Wiping
  <2>4. CASE class = "inbox"
    <3>1. k = 2
      BY <1>2, <2>1, <2>4
    <3> QED
      BY <1>1, <1>4, <2>1, <2>4, <3>1 DEF Final, Following, Wiping
  <2>5. CASE class = "quarantine"
    <3>1. k = 3
      BY <1>2, <2>1, <2>5
    <3> QED
      BY <1>1, <1>4, <2>1, <2>5, <3>1 DEF Final, Following, Wiping
  <2> QED
    BY <2>2, <2>3, <2>4, <2>5
<1>5. CASE kind = "outputs"
  <2>1. /\ Len(q) = 3
        /\ q[1] = "jobs" /\ q[2] = "done" /\ q[3] = "media"
    <3>1. q = <<"jobs", "done", "media">>
      BY <1>5, TierIs
    <3> HIDE DEF q
    <3> QED
      BY <3>1
  <2> HIDE DEF q
  <2>2. class = "jobs" \/ class = "done" \/ class = "media"
    BY <1>1, <2>1 DEF ToSet
  <2>3. CASE class = "jobs"
    <3>1. k = 1
      BY <1>2, <2>1, <2>3
    <3> QED
      BY <1>1, <1>5, <2>1, <2>3, <3>1 DEF Final, Following, Wiping
  <2>4. CASE class = "done"
    <3>1. k = 2
      BY <1>2, <2>1, <2>4
    <3> QED
      BY <1>1, <1>5, <2>1, <2>4, <3>1 DEF Final, Following, Wiping
  <2>5. CASE class = "media"
    <3>1. k = 3
      BY <1>2, <2>1, <2>5
    <3> QED
      BY <1>1, <1>5, <2>1, <2>5, <3>1 DEF Final, Following, Wiping
  <2> QED
    BY <2>2, <2>3, <2>4, <2>5
<1>6. CASE kind = "all"
  <2>1. /\ Len(q) = 5
        /\ q[1] = "jobs" /\ q[2] = "inbox" /\ q[3] = "quarantine" /\ q[4] = "done" /\ q[5] = "media"
    <3>1. q = <<"jobs", "inbox", "quarantine", "done", "media">>
      BY <1>6, TierIs
    <3> HIDE DEF q
    <3> QED
      BY <3>1
  <2> HIDE DEF q
  <2>2. class = "jobs" \/ class = "inbox" \/ class = "quarantine" \/ class = "done" \/ class = "media"
    BY <1>1, <2>1 DEF ToSet
  <2>3. CASE class = "jobs"
    <3>1. k = 1
      BY <1>2, <2>1, <2>3
    <3> QED
      BY <1>1, <1>6, <2>1, <2>3, <3>1 DEF Final, Following, Wiping
  <2>4. CASE class = "inbox"
    <3>1. k = 2
      BY <1>2, <2>1, <2>4
    <3> QED
      BY <1>1, <1>6, <2>1, <2>4, <3>1 DEF Final, Following, Wiping
  <2>5. CASE class = "quarantine"
    <3>1. k = 3
      BY <1>2, <2>1, <2>5
    <3> QED
      BY <1>1, <1>6, <2>1, <2>5, <3>1 DEF Final, Following, Wiping
  <2>6. CASE class = "done"
    <3>1. k = 4
      BY <1>2, <2>1, <2>6
    <3> QED
      BY <1>1, <1>6, <2>1, <2>6, <3>1 DEF Final, Following, Wiping
  <2>7. CASE class = "media"
    <3>1. k = 5
      BY <1>2, <2>1, <2>7
    <3> QED
      BY <1>1, <1>6, <2>1, <2>7, <3>1 DEF Final, Following, Wiping
  <2> QED
    BY <2>2, <2>3, <2>4, <2>5, <2>6, <2>7
<1> QED
  BY <1>1, <1>3, <1>4, <1>5, <1>6 DEF Tiers

\* One file of one sheep goes.
LEMMA CutIs ==
  ASSUME CurateInv, NEW p \in Procs, Cut(p)
  PROVE  /\ pc[p] = "cut" /\ aim[p] \in Sheep
         /\ \E f \in list[p] :
              /\ list' = [list EXCEPT ![p] = list[p] \ {f}]
              /\ at' = IF f \in Pools THEN [at EXCEPT ![aim[p]] = at[aim[p]] \ {f}] ELSE at
              /\ flock' = IF f = "mp4" THEN Without(aim[p]) ELSE flock
              /\ side' = IF f = "side" THEN side \ {aim[p]} ELSE side
              /\ job' = (job /\ ~(f = "job" /\ cur = aim[p]))
              /\ thin' = (thin \/ (p = "op" /\ f = "mp4"))
         /\ crossed' = IF p = "rot" THEN crossed \cup {aim[p]} ELSE crossed
         /\ UNCHANGED <<spare, prev, parked, wk, cur, pc, aim, kin, kind, todo, rotation, ran, along, gone>>
<1>1. pc[p] = "cut" /\ list[p] # {} /\ aim[p] \in Sheep
  BY DEF Cut, CurateInv, PlanOK, AtHand, Cutting
<1>2. list[p] \in SUBSET ToSet(Files) /\ at \in [Sheep -> SUBSET Pools]
  BY DEF CurateInv, PlanOK, PoolsOK
<1> DEFINE f == Files[SelectInSeq(Files, LAMBDA g : g \in list[p])]
<1>3. f \in list[p]
  BY <1>1, <1>2, NextFile
<1>4. /\ list' = [list EXCEPT ![p] = list[p] \ {f}]
      /\ at' = IF f \in Pools THEN [at EXCEPT ![aim[p]] = at[aim[p]] \ {f}] ELSE at
      /\ flock' = IF f = "mp4" THEN Without(aim[p]) ELSE flock
      /\ side' = IF f = "side" THEN side \ {aim[p]} ELSE side
      /\ job' = (job /\ ~(f = "job" /\ cur = aim[p]))
      /\ thin' = (thin \/ (p = "op" /\ f = "mp4"))
      /\ crossed' = IF p = "rot" THEN crossed \cup {aim[p]} ELSE crossed
      /\ UNCHANGED <<spare, prev, parked, wk, cur, pc, aim, kin, kind, todo, rotation, ran, along, gone>>
  BY DEF Cut, Drop
<1> HIDE DEF f
<1> QED
  BY <1>1, <1>3, <1>4

\* One file of one tuple goes.
LEMMA CutKinIs ==
  ASSUME CurateInv, NEW p \in Procs, CutsKin(p)
  PROVE  /\ pc[p] = "cut" /\ aim[p] \in Sheep
         /\ \E t \in Sheep, f \in ToSet(Files), own \in BOOLEAN :
              /\ <<t, f, own>> \in kin[p] /\ aim[p] \in Parents(t)
              /\ kin' = [kin EXCEPT ![p] = kin[p] \ {<<t, f, own>>}]
              /\ at' = IF own THEN [at EXCEPT ![t] = at[t] \ {f}] ELSE at
              /\ spare' = IF own THEN spare ELSE [spare EXCEPT ![t] = spare[t] \ {f}]
              /\ flock' = IF f = "mp4" THEN Without(t) ELSE flock
              /\ side' = IF f = "side" THEN side \ {t} ELSE side
              /\ thin' = (thin \/ (p = "op" /\ f = "mp4" /\ t \in Live))
              /\ along' = IF p = "rot" /\ f = "mp4" /\ t \in Live THEN along + 1 ELSE along
              /\ crossed' = IF p = "rot" THEN crossed \cup {t} ELSE crossed
         /\ UNCHANGED <<prev, parked, wk, cur, job, pc, aim, list, kind, todo, rotation, ran, gone>>
<1>1. PICK k \in kin[p] : CutKin(p, k)
  BY DEF CutsKin
<1>2. pc[p] = "cut" /\ aim[p] \in Sheep
  BY <1>1 DEF CutKin, CurateInv, PlanOK, AtHand, Cutting
<1>3. k \in Sheep \X ToSet(Files) \X BOOLEAN /\ aim[p] \in Parents(k[1])
  BY DEF CurateInv, KinOK
<1>4. PICK t \in Sheep, f \in ToSet(Files), own \in BOOLEAN : k = <<t, f, own>>
  BY <1>3
<1>5. k[1] = t /\ k[2] = f /\ k[3] = own
  BY <1>4
<1> HIDE DEF Without
<1>6. UNCHANGED <<prev, parked, wk, cur, job, pc, aim, list, kind, todo, rotation, ran, gone>>
  BY <1>1 DEF CutKin, worker
<1> QED
  BY <1>1, <1>2, <1>3, <1>4, <1>5, <1>6 DEF CutKin

-----------------------------------------------------------------------------
(* CurateInv is inductive.                                                 *)

LEMMA PoolsStep ==
  ASSUME CurateInv, [Next]_vars
  PROVE  PoolsOK'
<1>1. /\ at \in [Sheep -> SUBSET Pools] /\ spare \in [Sheep -> SUBSET {"done", "quarantine"}]
      /\ {"inbox", "done", "quarantine"} \subseteq Pools
  BY DEF CurateInv, PoolsOK, Pools
<1>2. CASE UNCHANGED <<at, spare>>
  BY <1>1, <1>2 DEF PoolsOK
<1>3. CASE \E s \in Sheep : Land(s) \/ Claim(s)
  BY <1>1, <1>3 DEF PoolsOK, Land, Claim, Put, Drop
<1>4. ASSUME NEW f \in {"done", "quarantine"}, cur \in Sheep, Shelve(f) PROVE PoolsOK'
  BY <1>1, <1>4 DEF PoolsOK, Shelve, Put
<1>5. CASE Fail
  <2>1. cur \in Sheep
    BY <1>5 DEF Fail, CurateInv, WorkerOK
  <2> QED
    BY <1>1, <1>4, <1>5, <2>1 DEF Fail, PoolsOK
<1>6. CASE Archive
  <2>1. cur \in Sheep
    BY <1>6 DEF Archive, CurateInv, WorkerOK
  <2> QED
    BY <1>4, <1>6, <2>1 DEF Archive
<1>7. CASE Apply
  BY <1>1, <1>7 DEF Apply, Put, PoolsOK
<1>8. CASE MoveGenome
  <2>1. at' \in [Sheep -> SUBSET Pools]
    BY <1>1, <1>8 DEF MoveGenome, Drop
  <2> QED
    BY <1>1, <1>8, <2>1 DEF MoveGenome, PoolsOK
<1>9. CASE \E class \in ToSet(Wipes("all")) : Wipe(class)
  BY <1>1, <1>9 DEF Wipe, Empty, EmptyMedia, PoolsOK
<1>10. CASE \E p \in Procs : Cut(p)
  <2>1. PICK p \in Procs : Cut(p)
    BY <1>10
  <2> QED
    BY <1>1, <2>1, CutIs DEF PoolsOK
<1>11. CASE \E p \in Procs : CutsKin(p)
  <2>1. PICK p \in Procs : CutsKin(p)
    BY <1>11
  <2>2. PICK t \in Sheep, f \in ToSet(Files), own \in BOOLEAN :
              /\ at' = IF own THEN [at EXCEPT ![t] = at[t] \ {f}] ELSE at
              /\ spare' = IF own THEN spare ELSE [spare EXCEPT ![t] = spare[t] \ {f}]
    <3> HIDE DEF Without
    <3> QED
      BY <2>1, CutKinIs
  <2>3. at' \in [Sheep -> SUBSET Pools]
    BY <1>1, <2>2
  <2>4. spare' \in [Sheep -> SUBSET {"done", "quarantine"}]
    BY <1>1, <2>2
  <2> QED
    BY <2>3, <2>4 DEF PoolsOK
<1> QED
  BY <1>2, <1>3, <1>5, <1>6, <1>7, <1>8, <1>9, <1>10, <1>11, PoolsFrame

LEMMA FlockStep ==
  ASSUME CurateInv, [Next]_vars
  PROVE  FlockOK'
<1>1. /\ flock \in Seq(Sheep) /\ IsInjective(flock)
      /\ side \subseteq Sheep /\ prev \subseteq Sheep /\ parked \subseteq Sheep
  BY DEF CurateInv, FlockOK
<1>2. \A s : Without(s) \in Seq(Sheep) /\ IsInjective(Without(s)) /\ ToSet(Without(s)) = Live \ {s}
  BY <1>1, WithoutIs
<1>3. wk \notin {"off", "idle"} => cur \in Sheep
  BY DEF CurateInv, WorkerOK
<1>4. CASE UNCHANGED flockVars
  BY <1>1, <1>4 DEF FlockOK, flockVars
<1>5. CASE MoveAside
  <2>1. cur \in Sheep
    BY <1>3, <1>5 DEF MoveAside, Goto
  <2> HIDE DEF Without
  <2> QED
    BY <1>1, <1>2, <1>5, <2>1 DEF MoveAside, FlockOK
<1>6. CASE Install
  <2>1. cur \in Sheep
    BY <1>3, <1>6 DEF Install, Goto
  <2> HIDE DEF Without
  <2>2. flock' \in Seq(Sheep) /\ IsInjective(flock')
    BY <1>2, <1>6, <2>1, AppendIs DEF Install
  <2> QED
    BY <1>1, <1>6, <2>2 DEF Install, FlockOK
<1>7. CASE WriteSidecar
  BY <1>1, <1>3, <1>7 DEF WriteSidecar, Goto, FlockOK
<1>8. CASE ParkMp4
  <2>1. aim["op"] \in Sheep
    BY <1>8 DEF ParkMp4, Step, CurateInv, PlanOK, AtHand, Procs
  <2> QED
    BY <1>1, <1>2, <1>8, <2>1 DEF ParkMp4, FlockOK
<1>9. CASE ParkSide
  BY <1>1, <1>9 DEF ParkSide, FlockOK
<1>10. CASE \E class \in ToSet(Wipes("all")) : Wipe(class)
  <2>1. <<>> \in Seq(Sheep) /\ IsInjective(<<>>)
    BY DEF IsInjective
  <2> QED
    BY <1>1, <1>10, <2>1 DEF Wipe, Empty, EmptyMedia, FlockOK, flockVars
<1>11. CASE \E p \in Procs : Cut(p)
  <2>1. PICK p \in Procs : Cut(p)
    BY <1>11
  <2> QED
    BY <1>1, <1>2, <2>1, CutIs DEF FlockOK
<1>12. CASE \E p \in Procs : CutsKin(p)
  <2>1. PICK p \in Procs : CutsKin(p)
    BY <1>12
  <2> HIDE DEF Without
  <2>2. PICK t \in Sheep, f \in ToSet(Files) :
              /\ flock' = IF f = "mp4" THEN Without(t) ELSE flock
              /\ side' = IF f = "side" THEN side \ {t} ELSE side
    BY <2>1, CutKinIs
  <2>3. UNCHANGED <<prev, parked>>
    BY <2>1, CutKinIs
  <2> QED
    BY <1>1, <1>2, <2>2, <2>3 DEF FlockOK
<1> QED
  BY <1>4, <1>5, <1>6, <1>7, <1>8, <1>9, <1>10, <1>11, <1>12, FlockFrame

LEMMA WorkerStep ==
  ASSUME CurateInv, [Next]_vars
  PROVE  WorkerOK'
<1>1. WorkerOK /\ None \notin Sheep
  BY CurateAssumption DEF CurateInv
<1>2. CASE UNCHANGED worker
  BY <1>1, <1>2 DEF WorkerOK, worker
<1>3. CASE Working
  BY <1>1, <1>3 DEF Working, WorkerOK, WorkSteps, Claim, Fail, Render, MoveAside, Install, ReadTags,
                    WriteSidecar, Archive, StartWorker, Goto, Rest
<1>4. CASE \E tier \in Tiers : Hammer(tier)
  BY <1>1, <1>4 DEF WorkerOK, WorkSteps, Hammer, StopWorker
<1>5. CASE \E class \in ToSet(Wipes("all")) : Wipe(class)
  BY <1>1, <1>5 DEF WorkerOK, Wipe
<1>6. CASE \E p \in Procs : Cut(p)
  BY <1>1, <1>6 DEF WorkerOK, Cut
<1> QED
  BY <1>2, <1>3, <1>4, <1>5, <1>6, WorkerFrame

LEMMA StoppedStep ==
  ASSUME CurateInv, [Next]_vars
  PROVE  StoppedOK'
<1>1. /\ kind \in Tiers => wk = "off"
      /\ wk = "off" => ~job \/ pc["op"] = "jobs"
      /\ job \in BOOLEAN /\ "none" \notin Tiers
      /\ kind = "none" <=> pc["op"] = "idle"
      /\ kind \in Tiers <=> pc["op"] \in Wiping
      /\ {"op", "rot"} = Procs /\ DOMAIN pc = Procs
  BY DEF CurateInv, StoppedOK, WorkerOK, PlanOK, Tiers, Procs
<1>2. CASE UNCHANGED <<pc, kind, aim, todo>> /\ (\E s \in Sheep : Land(s))
  BY <1>1, <1>2 DEF StoppedOK, Land, worker
<1>3. CASE UNCHANGED <<pc, kind, aim, todo>> /\ Working
  BY <1>1, <1>3 DEF StoppedOK, Working, Claim, Fail, Render, MoveAside, Install, ReadTags,
                    WriteSidecar, Archive, StartWorker, Goto, Rest
<1>4. CASE Operate
  <2>1. CASE \E tier \in Tiers : Hammer(tier)
    BY <1>1, <2>1 DEF StoppedOK, Hammer, Begin, StopWorker
  <2>2. CASE \E class \in ToSet(Wipes("all")) : Wipe(class)
    <3>1. PICK class \in ToSet(Wipes("all")) : Wipe(class)
      BY <2>2
    <3>2. /\ kind \in Tiers /\ pc["op"] = class /\ UNCHANGED wk
          /\ class = "jobs" => job' = FALSE
          /\ class # "jobs" => UNCHANGED job
      BY <3>1 DEF Wipe
    <3>3. ~ job'
      BY <1>1, <3>2
    <3>4. kind' = "none" \/ kind' = kind
      BY <3>1 DEF Wipe, Quit
    <3> QED
      BY <1>1, <3>2, <3>3, <3>4 DEF StoppedOK
  <2>3. CASE Starts
    <3>1. pc["op"] = "idle" /\ kind' \notin Tiers /\ UNCHANGED worker
      BY <2>3 DEF Starts, Sweep, Batch, Delete, Refactor, Begin, Tiers
    <3> QED
      BY <1>1, <3>1 DEF StoppedOK, worker
  <2>4. CASE \/ \E s \in Sheep : TakeNext(s)
             \/ CutDone \/ NoneLeft \/ Score \/ Apply \/ GiveUp \/ MoveGenome \/ ParkMp4
             \/ ParkSide \/ ParkNothing
    <3>1. /\ pc["op"] \in {"cut", "next", "score", "move", "park", "parkSide"}
          /\ UNCHANGED worker /\ kind' \in {kind, "none"}
      BY <2>4 DEF TakeNext, CutDone, NoneLeft, Score, Apply, GiveUp, MoveGenome, ParkMp4, ParkSide,
                  ParkNothing, Onward, Quit, Step, Emptied
    <3>2. wk = "off" => ~job
      BY <1>1, <3>1
    <3>3. kind \notin Tiers
      BY <1>1, <3>1 DEF Wiping
    <3> QED
      BY <1>1, <3>1, <3>2, <3>3 DEF StoppedOK, worker
  <2> QED
    BY <1>4, <2>1, <2>2, <2>3, <2>4 DEF Operate, Starts
<1>5. CASE Rotate /\ UNCHANGED <<kind, todo>>
  <2>1. UNCHANGED worker /\ pc'["op"] = pc["op"]
    BY <1>1, <1>5 DEF Rotate, RotStart, RotPick, RotStat, RotNext, RotStop, Step
  <2> QED
    BY <1>1, <1>5, <2>1 DEF StoppedOK, worker
<1>6. CASE \E p \in Procs : Cascade(p) /\ UNCHANGED <<kind, aim, todo>>
  <2>1. PICK p \in Procs : (ListPools(p) \/ ListRest(p) \/ Cut(p) \/ CutsKin(p)) /\ UNCHANGED kind
    BY <1>6 DEF Cascade, CutsKin
  <2>2. UNCHANGED wk /\ (job' => job)
    <3>1. CASE ListPools(p) \/ ListRest(p)
      BY <3>1 DEF ListPools, ListRest, worker
    <3>2. CASE Cut(p)
      BY <3>2, CutIs
    <3>3. CASE CutsKin(p)
      BY <3>3, CutKinIs
    <3> QED
      BY <2>1, <3>1, <3>2, <3>3
  <2>3. p = "rot" => pc'["op"] = pc["op"]
    BY <1>1, <2>1 DEF ListPools, ListRest, Cut, CutsKin, CutKin, Step
  <2>4. p = "op" => pc["op"] # "jobs"
    BY <2>1 DEF ListPools, ListRest, Cut, CutsKin, CutKin, Step
  <2> QED
    BY <1>1, <2>1, <2>2, <2>3, <2>4 DEF StoppedOK
<1>7. CASE UNCHANGED vars
  BY <1>1, <1>7 DEF StoppedOK, vars, worker, cascade
<1> QED
  BY <1>2, <1>3, <1>4, <1>5, <1>6, <1>7, PlanFrame

\* A step of the operator's command that has begun, and what it leaves to do.
LEMMA PlanGoes ==
  ASSUME CurateInv, [aim EXCEPT !["op"] = None] = aim',
         \/ todo' = {} /\ kind' = "none" /\ pc' = [pc EXCEPT !["op"] = "idle"]
         \/ UNCHANGED <<kind, todo>> /\ pc' = [pc EXCEPT !["op"] = "next"]
            /\ kind \notin Tiers \cup {"none"},
         list' \in [Procs -> SUBSET ToSet(Files)]
  PROVE  PlanOK'
<1>1. PlanOK /\ "op" \in Procs /\ "rot" \in Procs /\ Procs = {"op", "rot"} /\ "none" \notin Tiers
  BY DEF CurateInv, Procs, Tiers
<1>2. {"idle", "next"} \subseteq OpSteps /\ "idle" \notin Wiping /\ "next" \notin Wiping \cup AtHand
      /\ "idle" \notin AtHand
  BY DEF OpSteps, Wiping, AtHand, Cutting
<1>3. /\ pc'["op"] \in {"idle", "next"} /\ pc'["rot"] = pc["rot"]
      /\ pc' \in [Procs -> OpSteps \cup RotSteps]
      /\ aim' \in [Procs -> Sheep \cup {None}] /\ aim'["rot"] = aim["rot"]
  BY <1>1, <1>2 DEF PlanOK
<1>4. kind' \in Commands \cup {"none"} /\ todo' \subseteq Sheep
  BY <1>1 DEF PlanOK
<1>5. \A p \in Procs : pc'[p] \in AtHand => aim'[p] \in Sheep
  BY <1>1, <1>2, <1>3 DEF PlanOK
<1>6. /\ kind' = "none" <=> pc'["op"] = "idle"
      /\ kind' \in Tiers <=> pc'["op"] \in Wiping
      /\ kind' \notin Tiers
      /\ kind' = "sweep" => pc'["op"] = "next"
  <2>1. pc \in [Procs -> OpSteps \cup RotSteps]
    BY <1>1 DEF PlanOK
  <2>2. CASE kind' = "none" /\ pc'["op"] = "idle"
    BY <1>1, <1>2, <2>2
  <2>3. CASE kind' \notin Tiers \cup {"none"} /\ pc'["op"] = "next"
    BY <1>1, <1>2, <2>3
  <2> QED
    BY <1>1, <2>1, <2>2, <2>3
<1> QED
  BY <1>1, <1>2, <1>3, <1>4, <1>5, <1>6 DEF PlanOK

\* A step of process p that leaves its command as it is.
LEMMA PlanMoves ==
  ASSUME CurateInv, NEW p \in Procs, NEW to,
         pc' = [pc EXCEPT ![p] = to],
         to \in IF p = "rot" THEN RotSteps ELSE OpSteps \ ({"idle"} \cup Wiping),
         p = "op" => pc[p] \notin {"idle"} \cup Wiping /\ (kind = "sweep" => to \in Cutting \cup {"next"}),
         UNCHANGED kind, todo' \subseteq todo,
         aim' \in [Procs -> Sheep \cup {None}], \A o \in Procs : o # p => aim'[o] = aim[o],
         to \in AtHand => aim'[p] \in Sheep,
         list' \in [Procs -> SUBSET ToSet(Files)]
  PROVE  PlanOK'
<1>1. PlanOK /\ "op" \in Procs /\ "rot" \in Procs /\ Procs = {"op", "rot"} /\ "none" \notin Tiers
  BY DEF CurateInv, Procs, Tiers
<1>2. /\ pc' \in [Procs -> OpSteps \cup RotSteps] /\ pc'[p] = to
      /\ \A o \in Procs : o # p => pc'[o] = pc[o]
  BY <1>1 DEF PlanOK
<1>3. \A o \in Procs : pc'[o] \in AtHand => aim'[o] \in Sheep
  BY <1>1, <1>2 DEF PlanOK
<1>4. CASE p = "rot"
  <2>1. pc'["rot"] \in RotSteps /\ pc'["op"] = pc["op"]
    BY <1>1, <1>2, <1>4
  <2> QED
    BY <1>1, <1>2, <1>3, <2>1 DEF PlanOK
<1>5. CASE p = "op"
  <2>1. pc'["op"] = to /\ to \in OpSteps /\ to \notin {"idle"} \cup Wiping /\ pc'["rot"] = pc["rot"]
    BY <1>1, <1>2, <1>5
  <2>2. kind \notin Tiers \cup {"none"}
    BY <1>1, <1>5 DEF PlanOK
  <2> QED
    BY <1>1, <1>2, <1>3, <1>5, <2>1, <2>2 DEF PlanOK
<1> QED
  BY <1>1, <1>4, <1>5

\* A command begins.
LEMMA PlanBegins ==
  ASSUME CurateInv, NEW c, NEW to, Begin(c, to), c # "none",
         to \in OpSteps \ {"idle"},
         c \in Tiers => to \in ToSet(Wipes(c)),
         c \in Tiers <=> to \in Wiping,
         c = "sweep" => to = "next",
         todo' \subseteq Sheep,
         aim' \in [Procs -> Sheep \cup {None}], aim'["rot"] = aim["rot"],
         to \in AtHand => aim'["op"] \in Sheep,
         UNCHANGED list
  PROVE  PlanOK'
<1>1. PlanOK /\ "op" \in Procs /\ "rot" \in Procs /\ Procs = {"op", "rot"}
  BY DEF CurateInv, Procs
<1>2. c \in Commands /\ kind' = c /\ pc' = [pc EXCEPT !["op"] = to]
  BY DEF Begin
<1>3. /\ pc' \in [Procs -> OpSteps \cup RotSteps]
      /\ pc'["op"] = to /\ pc'["rot"] = pc["rot"]
  BY <1>1, <1>2 DEF PlanOK
<1>4. \A o \in Procs : pc'[o] \in AtHand => aim'[o] \in Sheep
  BY <1>1, <1>3 DEF PlanOK
<1> QED
  BY <1>1, <1>2, <1>3, <1>4 DEF PlanOK

LEMMA PlanStep ==
  ASSUME CurateInv, [Next]_vars
  PROVE  PlanOK'
<1>1. PlanOK /\ "op" \in Procs /\ "rot" \in Procs /\ Procs = {"op", "rot"} /\ "none" \notin Tiers
  BY DEF CurateInv, Procs, Tiers
<1>2. /\ list \in [Procs -> SUBSET ToSet(Files)] /\ aim \in [Procs -> Sheep \cup {None}]
      /\ pc \in [Procs -> OpSteps \cup RotSteps] /\ todo \subseteq Sheep
  BY <1>1 DEF PlanOK
<1>3. Pools \cup {"mp4", "side", "job"} = ToSet(Files)
  <2>1. /\ Len(Files) = 7 /\ DOMAIN Files = 1..7
        /\ Files[1] = "inbox" /\ Files[2] = "quarantine" /\ Files[3] = "done"
        /\ Files[4] = "git" /\ Files[5] = "mp4" /\ Files[6] = "side" /\ Files[7] = "job"
    BY DEF Files
  <2>2. \A f : f \in ToSet(Files) <=> \E i \in 1..7 : Files[i] = f
    BY <2>1 DEF ToSet
  <2>3. \A f : f \in ToSet(Files) <=> f \in {"inbox", "quarantine", "done", "git", "mp4", "side", "job"}
    BY <2>1, <2>2
  <2> QED
    BY <2>3 DEF Pools
<1>4. CASE UNCHANGED <<pc, kind, aim, todo>> /\ (\E s \in Sheep : Land(s))
  BY <1>1, <1>4 DEF PlanOK, Land, cascade
<1>5. CASE UNCHANGED <<pc, kind, aim, todo>> /\ Working
  <2>1. list' \in [Procs -> SUBSET ToSet(Files)]
    BY <1>2, <1>5 DEF Working, Claim, Fail, Render, MoveAside, Install, ReadTags, WriteSidecar,
                      Archive, StartWorker, cascade
  <2> QED
    BY <1>1, <1>5, <2>1 DEF PlanOK
<1>6. CASE Operate
  <2>1. CASE \E tier \in Tiers : Hammer(tier)
    <3>1. PICK tier \in Tiers : Hammer(tier)
      BY <2>1
    <3>2. "jobs" \in ToSet(Wipes(tier))
      <4>1. tier = "worker" \/ tier = "inputs" \/ tier = "outputs" \/ tier = "all"
        BY DEF Tiers
      <4>2. 1 \in DOMAIN Wipes(tier) /\ Wipes(tier)[1] = "jobs"
        BY <4>1, TierIs
      <4> QED
        BY <4>2 DEF ToSet
    <3>3. /\ Begin(tier, "jobs") /\ UNCHANGED <<aim, list, todo>>
      BY <3>1 DEF Hammer
    <3>4. tier # "sweep"
      BY DEF Tiers
    <3> QED
      BY <1>1, <1>2, <3>2, <3>3, <3>4, PlanBegins DEF OpSteps, Wiping, AtHand, Cutting
  <2>2. CASE \E class \in ToSet(Wipes("all")) : Wipe(class)
    <3>1. PICK class \in ToSet(Wipes("all")) : Wipe(class)
      BY <2>2
    <3>2. UNCHANGED list
      BY <3>1 DEF Wipe
    <3>3. CASE Quit
      BY <1>2, <3>2, <3>3, PlanGoes DEF Quit
    <3>4. CASE \E to \in Wiping : /\ <<kind, class, to>> \in Following
                                  /\ pc' = [pc EXCEPT !["op"] = to]
                                  /\ UNCHANGED <<aim, kind, todo>>
      <4>1. PICK to \in Wiping : /\ <<kind, class, to>> \in Following
                                 /\ pc' = [pc EXCEPT !["op"] = to]
                                 /\ UNCHANGED <<aim, kind, todo>>
        BY <3>4
      <4>2. kind \in Tiers /\ to \in ToSet(Wipes(kind))
        <5>1. \/ kind = "inputs" /\ to \in {"inbox", "quarantine"}
              \/ kind = "outputs" /\ to \in {"done", "media"}
              \/ kind = "all" /\ to \in {"inbox", "quarantine", "done", "media"}
          BY <4>1 DEF Following
        <5> QED
          BY <5>1, TierIs DEF Tiers, ToSet
      <4>3. to \in OpSteps /\ to # "idle" /\ to \notin AtHand
        BY DEF OpSteps, Wiping, AtHand, Cutting
      <4>4. /\ pc' \in [Procs -> OpSteps \cup RotSteps] /\ pc'["op"] = to /\ pc'["rot"] = pc["rot"]
        BY <1>1, <1>2, <4>1, <4>3
      <4>5. kind # "none" /\ kind # "sweep"
        BY <4>2 DEF Tiers
      <4> QED
        BY <1>1, <3>2, <4>1, <4>2, <4>3, <4>4, <4>5 DEF PlanOK
    <3> QED
      BY <1>1, <3>1, <3>3, <3>4, WipeIs
  <2>3. CASE Sweep \/ Batch
    <3>1. Orphans \subseteq Sheep /\ Live \subseteq Sheep
      BY DEF Orphans, Filmed, CurateInv, FlockOK, Live, ToSet
    <3>2. \/ Begin("sweep", "next") /\ UNCHANGED <<aim, list>> /\ todo' \subseteq Sheep
          \/ Begin("batch", "next") /\ UNCHANGED <<aim, list>> /\ todo' \subseteq Sheep
      BY <2>3, <3>1 DEF Sweep, Batch
    <3> QED
      BY <1>1, <1>2, <3>2, PlanBegins DEF OpSteps, Wiping, AtHand, Cutting, Tiers
  <2>4. CASE \E s \in Sheep : Delete(s) \/ \E c \in {"quarantine", "apply"} : Refactor(c, s)
    <3>1. PICK s \in Sheep : Delete(s) \/ \E c \in {"quarantine", "apply"} : Refactor(c, s)
      BY <2>4
    <3>2. /\ aim' = [aim EXCEPT !["op"] = s] /\ UNCHANGED <<list, todo>>
          /\ \/ Begin("delete", "pools")
             \/ Begin("quarantine", "score") \/ Begin("apply", "score")
      BY <3>1 DEF Delete, Refactor
    <3>3. aim' \in [Procs -> Sheep \cup {None}] /\ aim'["op"] = s /\ aim'["rot"] = aim["rot"]
      BY <1>1, <1>2, <3>2
    <3> QED
      BY <1>2, <3>2, <3>3, PlanBegins DEF OpSteps, Wiping, AtHand, Cutting, Tiers
  <2>5. ASSUME Onward, pc["op"] \in {"cut", "score", "move", "park", "parkSide"},
               list' \in [Procs -> SUBSET ToSet(Files)]
        PROVE  PlanOK'
    <3>1. kind \notin Tiers \cup {"none"}
      BY <1>1, <2>5 DEF PlanOK, Wiping
    <3> QED
      BY <2>5, <3>1, OnwardIs, PlanGoes
  <2>6. CASE CutDone \/ Apply \/ GiveUp \/ ParkSide \/ ParkNothing
    BY <1>2, <2>5, <2>6 DEF CutDone, Emptied, Apply, GiveUp, ParkSide, ParkNothing
  <2>7. CASE NoneLeft
    BY <1>2, <2>7, PlanGoes DEF NoneLeft, Quit
  <2>8. CASE MoveGenome
    <3>1. list' \in [Procs -> SUBSET ToSet(Files)]
      BY <1>2, <2>8 DEF MoveGenome
    <3>2. pc["op"] = "move" /\ (Onward \/ (Step("op", "move", "park") /\ UNCHANGED <<aim, kind, todo>>))
      BY <2>8 DEF MoveGenome
    <3>3. CASE Step("op", "move", "park") /\ UNCHANGED <<aim, kind, todo>>
      <4>1. aim["op"] \in Sheep /\ kind # "sweep"
        BY <1>1, <3>2 DEF PlanOK, AtHand, Cutting
      <4> QED
        BY <1>1, <1>2, <3>1, <3>3, <4>1, PlanMoves DEF Step, OpSteps, Wiping
    <3> QED
      BY <2>5, <3>1, <3>2, <3>3
  <2>9. CASE \E s \in Sheep : TakeNext(s)
    <3>1. PICK s \in Sheep : TakeNext(s)
      BY <2>9
    <3>2. aim' \in [Procs -> Sheep \cup {None}] /\ aim'["op"] = s /\ aim'["rot"] = aim["rot"]
      BY <1>1, <1>2, <3>1 DEF TakeNext
    <3>3. /\ pc["op"] = "next" /\ UNCHANGED <<list, kind>> /\ todo' \subseteq todo
          /\ \/ kind = "sweep" /\ pc' = [pc EXCEPT !["op"] = "pools"]
             \/ kind # "sweep" /\ pc' = [pc EXCEPT !["op"] = "score"]
      BY <3>1 DEF TakeNext, Step
    <3> QED
      BY <1>1, <1>2, <3>2, <3>3, PlanMoves DEF OpSteps, Wiping, Cutting
  <2>10. CASE Score
    <3>1. /\ pc["op"] = "score" /\ pc' = [pc EXCEPT !["op"] = "move"] /\ UNCHANGED <<aim, kind, todo>>
          /\ list' \in [Procs -> SUBSET ToSet(Files)]
      BY <1>2, <1>3, <2>10 DEF Score, Step
    <3>2. aim["op"] \in Sheep /\ kind # "sweep"
      BY <1>1, <3>1 DEF PlanOK, AtHand, Cutting
    <3> QED
      BY <1>1, <1>2, <3>1, <3>2, PlanMoves DEF OpSteps, Wiping
  <2>11. CASE ParkMp4
    <3>1. /\ pc["op"] = "park" /\ pc' = [pc EXCEPT !["op"] = "parkSide"] /\ UNCHANGED <<aim, kind, todo, list>>
      BY <2>11 DEF ParkMp4, Step
    <3>2. aim["op"] \in Sheep /\ kind # "sweep"
      BY <1>1, <3>1 DEF PlanOK, AtHand, Cutting
    <3> QED
      BY <1>1, <1>2, <3>1, <3>2, PlanMoves DEF OpSteps, Wiping
  <2> QED
    BY <1>6, <2>1, <2>2, <2>3, <2>4, <2>6, <2>7, <2>8, <2>9, <2>10, <2>11 DEF Operate
<1>7. CASE Rotate /\ UNCHANGED <<kind, todo>>
  <2>1. aim' \in [Procs -> Sheep \cup {None}] /\ aim'["op"] = aim["op"]
    <3>1. CASE RotPick
      <4>1. planned + 1 \in 1..Len(cands)
        <5>1. cands \in Seq(Sheep) /\ planned \in Nat /\ Floor \in Nat
          BY CurateAssumption DEF CurateInv, CountsOK
        <5>2. Len(cands) - planned > Floor /\ Len(cands) \in Nat
          BY <3>1, <5>1 DEF RotPick, MayTake
        <5> QED
          BY <5>1, <5>2
      <4>2. cands[planned + 1] \in Sheep
        BY <4>1 DEF CurateInv, CountsOK
      <4> QED
        BY <1>1, <1>2, <3>1, <4>2 DEF RotPick
    <3>2. CASE RotStart \/ RotStat \/ RotNext \/ RotStop
      BY <1>1, <1>2, <3>2 DEF RotStart, RotStat, RotNext, RotStop
    <3> QED
      BY <1>7, <3>1, <3>2 DEF Rotate
  <2>2. list' \in [Procs -> SUBSET ToSet(Files)]
    BY <1>2, <1>7 DEF Rotate, RotStart, RotPick, RotStat, RotNext, RotStop
  <2>3. \E to \in RotSteps : /\ pc' = [pc EXCEPT !["rot"] = to]
                             /\ to \in AtHand => aim'["rot"] \in Sheep
    <3>1. CASE RotPick
      <4>1. aim'["rot"] = cands[planned + 1] /\ pc' = [pc EXCEPT !["rot"] = "pools"]
        BY <1>1, <1>2, <3>1 DEF RotPick, Step
      <4>2. planned + 1 \in 1..Len(cands)
        <5>1. cands \in Seq(Sheep) /\ planned \in Nat /\ Floor \in Nat
          BY CurateAssumption DEF CurateInv, CountsOK
        <5>2. Len(cands) - planned > Floor /\ Len(cands) \in Nat
          BY <3>1, <5>1 DEF RotPick, MayTake
        <5> QED
          BY <5>1, <5>2
      <4>3. cands[planned + 1] \in Sheep
        BY <4>2 DEF CurateInv, CountsOK
      <4> QED
        BY <4>1, <4>3 DEF RotSteps, Cutting
    <3>2. CASE RotStat
      <4>1. pc["rot"] = "stat" /\ pc' = [pc EXCEPT !["rot"] = "cut"] /\ UNCHANGED aim
        BY <3>2 DEF RotStat, Step
      <4>2. aim["rot"] \in Sheep
        BY <1>1, <4>1 DEF PlanOK, AtHand
      <4> QED
        BY <4>1, <4>2 DEF RotSteps, Cutting
    <3>3. CASE RotStart \/ RotNext
      BY <3>3 DEF RotStart, RotNext, Step, RotSteps, AtHand, Cutting
    <3>4. CASE RotStop
      BY <3>4 DEF RotStop, RotSteps, AtHand, Cutting
    <3> QED
      BY <1>7, <3>1, <3>2, <3>3, <3>4 DEF Rotate
  <2> QED
    BY <1>1, <1>7, <2>1, <2>2, <2>3, PlanMoves
<1>8. CASE \E p \in Procs : Cascade(p) /\ UNCHANGED <<kind, aim, todo>>
  <2>1. PICK p \in Procs : /\ ListPools(p) \/ ListRest(p) \/ Cut(p) \/ CutsKin(p)
                           /\ UNCHANGED <<kind, aim, todo>>
    BY <1>8 DEF Cascade, CutsKin
  <2>2. CASE Cut(p)
    <3>1. list' \in [Procs -> SUBSET ToSet(Files)] /\ UNCHANGED pc
      BY <1>2, <2>2, CutIs
    <3> QED
      BY <1>1, <2>1, <3>1 DEF PlanOK
  <2>3. CASE ListPools(p) \/ ListRest(p)
    <3>1. pc[p] \in {"pools", "rest"}
      BY <2>3 DEF ListPools, ListRest, Step
    <3>2. aim[p] \in Sheep
      BY <1>1, <3>1 DEF PlanOK, AtHand, Cutting
    <3>3. list' \in [Procs -> SUBSET ToSet(Files)]
      <4>1. at[aim[p]] \subseteq Pools
        BY <3>2 DEF CurateInv, PoolsOK
      <4> QED
        BY <1>2, <1>3, <2>3, <4>1 DEF ListPools, ListRest
    <3>4. \E to \in {"rest", "stat", "cut"} : /\ pc' = [pc EXCEPT ![p] = to]
                                              /\ to = "stat" => p = "rot"
      BY <2>3 DEF ListPools, ListRest, Step
    <3> QED
      BY <1>1, <1>2, <2>1, <3>1, <3>2, <3>3, <3>4, PlanMoves DEF OpSteps, RotSteps, Cutting, Wiping
  <2>4. CASE CutsKin(p)
    <3>1. UNCHANGED <<pc, list>>
      BY <2>4, CutKinIs
    <3> QED
      BY <1>1, <2>1, <3>1 DEF PlanOK
  <2> QED
    BY <2>1, <2>2, <2>3, <2>4
<1>9. CASE UNCHANGED vars
  BY <1>1, <1>9 DEF PlanOK, vars, cascade
<1> QED
  BY <1>4, <1>5, <1>6, <1>7, <1>8, <1>9, PlanFrame

LEMMA CountsStep ==
  ASSUME CurateInv, [Next]_vars
  PROVE  CountsOK'
<1>1. /\ cands \in Seq(Sheep) /\ planned \in 0..Budget
      /\ ran \in [op : 0..MaxCommands, rot : 0..MaxRotations, land : 0..MaxLandings]
      /\ crossed \subseteq Sheep /\ gone \subseteq Sheep /\ thin \in BOOLEAN
  BY DEF CurateInv, CountsOK
<1>2. /\ Budget \in Nat /\ MaxCommands \in Nat /\ MaxRotations \in Nat /\ MaxLandings \in Nat
      /\ "op" \in Procs /\ "rot" \in Procs
  BY CurateAssumption DEF Procs
<1>3. /\ flock \in Seq(Sheep)
      /\ wk \notin {"off", "idle"} => cur \in Sheep
      /\ \A p \in Procs : pc[p] \in AtHand => aim[p] \in Sheep
      /\ aim \in [Procs -> Sheep \cup {None}]
  BY DEF CurateInv, FlockOK, WorkerOK, PlanOK
<1>4. InWork \cup InRotation \subseteq Sheep
  BY <1>2, <1>3 DEF InWork, InRotation
<1>5. CASE \E s \in Sheep : Land(s)
  <2>1. PICK s \in Sheep : Land(s)
    BY <1>5
  <2>2. ran.land \in 0..MaxLandings /\ ran.land < MaxLandings /\ ran' = [ran EXCEPT !.land = @ + 1]
    BY <1>1, <2>1 DEF Land
  <2>3. ran' \in [op : 0..MaxCommands, rot : 0..MaxRotations, land : 0..MaxLandings]
    <3>1. ran.land + 1 \in 0..MaxLandings
      BY <1>2, <2>2
    <3> QED
      BY <1>1, <2>2, <3>1
  <2> QED
    BY <1>1, <2>1, <2>3 DEF Land, Touch, CountsOK, rotation
<1>6. ASSUME NEW c, NEW to, Begin(c, to)
      PROVE  /\ ran' \in [op : 0..MaxCommands, rot : 0..MaxRotations, land : 0..MaxLandings]
             /\ crossed' \subseteq Sheep
  <2>1. ran.op \in 0..MaxCommands /\ ran.op < MaxCommands /\ ran' = [ran EXCEPT !.op = @ + 1]
    BY <1>1, <1>6 DEF Begin
  <2>2. ran.op + 1 \in 0..MaxCommands
    BY <1>2, <2>1
  <2> QED
    BY <1>1, <1>4, <1>6, <2>1, <2>2 DEF Begin
<1>7. CASE Working
  BY <1>1, <1>7 DEF CountsOK, Working, Claim, Fail, Render, MoveAside, Install, ReadTags,
                    WriteSidecar, Archive, StartWorker, rotation, history
<1>8. CASE Operate
  <2>1. CASE \E tier \in Tiers : Hammer(tier)
    BY <1>1, <1>6, <2>1 DEF Hammer, CountsOK, rotation
  <2>2. CASE Starts
    BY <1>1, <1>6, <2>2 DEF Starts, Sweep, Batch, Delete, Refactor, CountsOK, rotation
  <2>3. CASE \E class \in ToSet(Wipes("all")) : Wipe(class)
    BY <1>1, <2>3 DEF Wipe, Empty, EmptyMedia, CountsOK, rotation
  <2>4. CASE CutDone
    <3>1. aim["op"] \in Sheep
      BY <1>2, <1>3, <2>4 DEF CutDone, Emptied, AtHand, Cutting
    <3> QED
      BY <1>1, <2>4, <3>1 DEF CutDone, CountsOK, rotation
  <2>5. CASE Apply
    <3>1. aim["op"] \in Sheep
      BY <1>2, <1>3, <2>5 DEF Apply, AtHand
    <3> QED
      BY <1>1, <2>5, <3>1 DEF Apply, Touch, CountsOK, rotation
  <2>6. CASE \/ \E s \in Sheep : TakeNext(s)
             \/ NoneLeft \/ Score \/ GiveUp \/ MoveGenome \/ ParkMp4 \/ ParkSide \/ ParkNothing
    BY <1>1, <2>6 DEF TakeNext, NoneLeft, Score, GiveUp, MoveGenome, ParkMp4, ParkSide, ParkNothing,
                      CountsOK, rotation, history
  <2> QED
    BY <1>8, <2>1, <2>2, <2>3, <2>4, <2>5, <2>6 DEF Operate, Starts
<1>9. CASE Rotate
  <2>1. CASE RotStart
    <3>1. ran.rot \in 0..MaxRotations /\ ran.rot < MaxRotations /\ ran' = [ran EXCEPT !.rot = @ + 1]
      BY <1>1, <2>1 DEF RotStart
    <3>2. ran.rot + 1 \in 0..MaxRotations /\ 0 \in 0..Budget
      BY <1>2, <3>1
    <3> QED
      BY <1>1, <1>3, <2>1, <3>1, <3>2 DEF RotStart, CountsOK
  <2>2. CASE RotStat
    <3>1. planned < Budget
      BY <2>2 DEF RotStat, Step, CurateInv, TakingOK, MayTake
    <3>2. planned + 1 \in 0..Budget
      BY <1>1, <1>2, <3>1
    <3> QED
      BY <1>1, <2>2, <3>2 DEF RotStat, CountsOK, history
  <2>3. CASE RotPick \/ RotNext \/ RotStop
    BY <1>1, <2>3 DEF RotPick, RotNext, RotStop, CountsOK, rotation, history
  <2> QED
    BY <1>9, <2>1, <2>2, <2>3 DEF Rotate
<1>10. CASE \E p \in Procs : ListPools(p) \/ ListRest(p)
  BY <1>1, <1>10 DEF ListPools, ListRest, CountsOK, rotation, history
<1>11. CASE \E p \in Procs : Cut(p)
  <2>1. PICK p \in Procs : Cut(p)
    BY <1>11
  <2> QED
    BY <1>1, <2>1, CutIs DEF CountsOK, rotation
<1>12. CASE UNCHANGED vars
  BY <1>1, <1>12 DEF vars, CountsOK, rotation, history
<1>13. CASE \E p \in Procs : CutsKin(p)
  <2>1. PICK p \in Procs : CutsKin(p)
    BY <1>13
  <2> QED
    BY <1>1, <2>1, CutKinIs DEF CountsOK, rotation
<1> QED
  BY <1>5, <1>7, <1>8, <1>9, <1>10, <1>11, <1>12, <1>13 DEF Next, Cascade, CutsKin, Work, Working

LEMMA TakingStep ==
  ASSUME CurateInv, [Next]_vars
  PROVE  TakingOK'
<1>1. TakingOK /\ pc \in [Procs -> OpSteps \cup RotSteps] /\ Procs = {"op", "rot"}
  BY DEF CurateInv, PlanOK, Procs
<1>2. CASE Rotate
  BY <1>1, <1>2 DEF Rotate, RotStart, RotPick, RotStat, RotNext, RotStop, TakingOK, MayTake, Step,
                    rotation
<1>3. ASSUME UNCHANGED <<rotation, pc>> PROVE TakingOK'
  BY <1>1, <1>3 DEF TakingOK, MayTake, rotation
<1>4. CASE Operate
  <2>1. UNCHANGED rotation /\ pc'["rot"] = pc["rot"]
    <3>1. CASE \E class \in ToSet(Wipes("all")) : Wipe(class)
      BY <1>1, <3>1, WipeIs DEF Wipe, Quit, CurateInv
    <3>2. CASE \E tier \in Tiers : Hammer(tier)
      BY <1>1, <3>2 DEF Hammer, Begin
    <3>3. CASE Starts
      BY <1>1, <3>3 DEF Starts, Sweep, Batch, Delete, Refactor, Begin
    <3>4. CASE CutDone \/ Apply \/ GiveUp \/ ParkSide \/ ParkNothing \/ MoveGenome \/ NoneLeft
      BY <1>1, <3>4 DEF CutDone, Apply, GiveUp, ParkSide, ParkNothing, MoveGenome, NoneLeft,
                        Onward, Quit, Step
    <3>5. CASE (\E s \in Sheep : TakeNext(s)) \/ Score \/ ParkMp4
      BY <1>1, <3>5 DEF TakeNext, Score, ParkMp4, Step
    <3> QED
      BY <1>4, <3>1, <3>2, <3>3, <3>4, <3>5 DEF Operate, Starts
  <2> QED
    BY <1>1, <2>1 DEF TakingOK, MayTake, rotation
<1>5. CASE \E p \in Procs : ListPools(p) \/ ListRest(p)
  BY <1>1, <1>5 DEF ListPools, ListRest, Step, TakingOK, MayTake, rotation
<1>6. CASE \E p \in Procs : Cut(p)
  BY <1>3, <1>6 DEF Cut
<1>7. CASE Work
  BY <1>3, <1>7 DEF Work, Land, Claim, Fail, Render, MoveAside, Install, ReadTags,
                    WriteSidecar, Archive, StartWorker, cascade
<1>8. CASE UNCHANGED vars
  BY <1>3, <1>8 DEF vars, cascade
<1>9. CASE \E p \in Procs : CutsKin(p)
  BY <1>3, <1>9, CutKinIs
<1> QED
  BY <1>2, <1>4, <1>5, <1>6, <1>7, <1>8, <1>9 DEF Next, Cascade, CutsKin

\* Rotation only looks, until it cuts.
LEMMA RotateIs ==
  ASSUME CurateInv, Rotate
  PROVE  /\ pc'["op"] = pc["op"] /\ aim'["op"] = aim["op"] /\ list'["op"] = list["op"]
         /\ UNCHANGED <<at, spare, flockVars, worker, kind, todo, crossed, gone>>
<1>1. /\ pc \in [Procs -> OpSteps \cup RotSteps] /\ Procs = {"op", "rot"}
      /\ aim \in [Procs -> Sheep \cup {None}] /\ list \in [Procs -> SUBSET ToSet(Files)]
  BY DEF CurateInv, PlanOK, Procs
<1> QED
  BY <1>1 DEF Rotate, RotStart, RotPick, RotStat, RotNext, RotStop, Step, history

LEMMA KinStep ==
  ASSUME CurateInv, [Next]_vars
  PROVE  KinOK'
<1>1. /\ pc \in [Procs -> OpSteps \cup RotSteps] /\ Procs = {"op", "rot"} /\ KinOK
      /\ aim \in [Procs -> Sheep \cup {None}]
      /\ kind \in Tiers => pc["op"] \in Wiping
  BY DEF CurateInv, PlanOK, Procs
<1>2. \A p \in Procs : pc[p] \notin {"stat", "cut"} => kin[p] = {}
  BY <1>1 DEF KinOK
<1>3. ASSUME UNCHANGED <<kin, along, pc, aim>> PROVE KinOK'
  BY <1>1, <1>3 DEF KinOK
<1>4. CASE Work
  BY <1>3, <1>4 DEF Work, Land, Claim, Fail, Render, MoveAside, Install, ReadTags,
                    WriteSidecar, Archive, StartWorker, cascade, history
<1>5. CASE Operate
  <2>1. /\ UNCHANGED <<kin, along>> /\ kin["op"] = {}
        /\ pc'["rot"] = pc["rot"] /\ aim'["rot"] = aim["rot"]
    <3>1. CASE \E class \in ToSet(Wipes("all")) : Wipe(class)
      <4>1. PICK class \in ToSet(Wipes("all")) : Wipe(class)
        BY <3>1
      <4>2. UNCHANGED <<kin, along>> /\ kind \in Tiers
        BY <4>1 DEF Wipe, Empty, EmptyMedia
      <4>3. pc["op"] \notin {"stat", "cut"}
        BY <1>1, <4>2 DEF Wiping
      <4>4. pc'["rot"] = pc["rot"] /\ aim'["rot"] = aim["rot"]
        BY <1>1, <4>1, WipeIs DEF Quit, CurateInv
      <4> QED
        BY <1>1, <1>2, <4>2, <4>3, <4>4
    <3>2. CASE \E tier \in Tiers : Hammer(tier)
      BY <1>1, <1>2, <3>2 DEF Hammer, Begin
    <3>3. CASE Starts
      BY <1>1, <1>2, <3>3 DEF Starts, Sweep, Batch, Delete, Refactor, Begin
    <3>4. CASE CutDone
      BY <1>1, <3>4 DEF CutDone, Emptied, Onward, Quit
    <3>5. CASE Apply \/ GiveUp \/ ParkSide \/ ParkNothing \/ MoveGenome \/ NoneLeft
      <4>1. pc["op"] \in {"score", "parkSide", "park", "move", "next"} /\ UNCHANGED <<kin, along>>
        BY <3>5 DEF Apply, GiveUp, ParkSide, ParkNothing, MoveGenome, NoneLeft, history
      <4>2. pc'["rot"] = pc["rot"] /\ aim'["rot"] = aim["rot"]
        BY <1>1, <3>5 DEF Apply, GiveUp, ParkSide, ParkNothing, MoveGenome, NoneLeft, Onward, Quit, Step
      <4> QED
        BY <1>1, <1>2, <4>1, <4>2
    <3>6. CASE (\E s \in Sheep : TakeNext(s)) \/ Score \/ ParkMp4
      BY <1>1, <1>2, <3>6 DEF TakeNext, Score, ParkMp4, Step, history
    <3> QED
      BY <1>5, <3>1, <3>2, <3>3, <3>4, <3>5, <3>6 DEF Operate, Starts
  <2> QED
    BY <1>1, <2>1 DEF KinOK
<1>6. CASE Rotate
  <2>1. kin'["op"] = kin["op"] /\ pc'["op"] = pc["op"] /\ aim'["op"] = aim["op"]
        /\ kin' \in [Procs -> SUBSET (Sheep \X ToSet(Files) \X BOOLEAN)] /\ along' \in Nat
    <3>1. kin' = kin \/ kin' = [kin EXCEPT !["rot"] = {}]
      BY <1>6 DEF Rotate, RotStart, RotPick, RotStat, RotNext, RotStop
    <3>2. along' = along \/ along' = 0
      BY <1>6 DEF Rotate, RotStart, RotPick, RotStat, RotNext, RotStop, history
    <3> QED
      BY <1>1, <1>6, <3>1, <3>2, RotateIs DEF KinOK
  <2>2. CASE RotStat
    <3>1. pc'["rot"] = "cut" /\ aim'["rot"] = aim["rot"] /\ kin'["rot"] = kin["rot"]
      BY <1>1, <2>2 DEF RotStat, Step
    <3> QED
      BY <1>1, <2>1, <3>1 DEF KinOK
  <2>3. CASE RotStart \/ RotPick \/ RotNext \/ RotStop
    <3>1. kin'["rot"] = {}
      BY <1>1, <1>2, <2>3 DEF RotStart, RotPick, RotNext, RotStop, Step, Emptied, KinOK
    <3> QED
      BY <1>1, <2>1, <3>1 DEF KinOK
  <2> QED
    BY <1>6, <2>2, <2>3 DEF Rotate
<1>7. ASSUME NEW p \in Procs, ListPools(p) PROVE KinOK'
  <2>1. /\ UNCHANGED <<kin, along, aim>> /\ kin[p] = {}
        /\ \A o \in Procs : o # p => pc'[o] = pc[o]
    BY <1>1, <1>2, <1>7 DEF ListPools, Step, history
  <2> QED
    BY <1>1, <2>1 DEF KinOK
<1>8. ASSUME NEW p \in Procs, ListRest(p) PROVE KinOK'
  <2>1. /\ UNCHANGED <<along, aim>> /\ kin' = [kin EXCEPT ![p] = KinFiles(aim[p])]
        /\ pc'[p] \in {"stat", "cut"} /\ \A o \in Procs : o # p => pc'[o] = pc[o]
    BY <1>1, <1>8 DEF ListRest, Step, history
  <2>2. \A k \in KinFiles(aim[p]) : k \in Sheep \X ToSet(Files) \X BOOLEAN /\ aim[p] \in Parents(k[1])
    BY DEF KinFiles
  <2>3. kin'[p] = KinFiles(aim[p]) /\ \A o \in Procs : o # p => kin'[o] = kin[o]
    BY <1>1, <2>1 DEF KinOK
  <2>4. kin' \in [Procs -> SUBSET (Sheep \X ToSet(Files) \X BOOLEAN)]
    BY <1>1, <2>1, <2>2 DEF KinOK
  <2> QED
    BY <1>1, <2>1, <2>2, <2>3, <2>4 DEF KinOK
<1>9. ASSUME NEW p \in Procs, Cut(p) PROVE KinOK'
  BY <1>3, <1>9, CutIs
<1>10. ASSUME NEW p \in Procs, CutsKin(p) PROVE KinOK'
  <2>1. PICK k : /\ kin' = [kin EXCEPT ![p] = kin[p] \ {k}]
                 /\ along' = along \/ along' = along + 1
    <3> HIDE DEF Without
    <3> QED
      BY <1>10, CutKinIs
  <2>2. /\ kin' \in [Procs -> SUBSET (Sheep \X ToSet(Files) \X BOOLEAN)] /\ along' \in Nat
        /\ \A o \in Procs : kin'[o] \subseteq kin[o]
    BY <1>1, <2>1 DEF KinOK
  <2>3. UNCHANGED <<pc, aim>>
    BY <1>10, CutKinIs
  <2> QED
    BY <1>1, <2>2, <2>3 DEF KinOK
<1>11. CASE UNCHANGED vars
  BY <1>3, <1>11 DEF vars, cascade, history
<1> QED
  BY <1>4, <1>5, <1>6, <1>7, <1>8, <1>9, <1>10, <1>11 DEF Next, Cascade, CutsKin

LEMMA CurateStep == CurateInv /\ [Next]_vars => CurateInv'
BY PoolsStep, FlockStep, WorkerStep, PlanStep, CountsStep, StoppedStep, TakingStep, KinStep DEF CurateInv

LEMMA CurateHolds == Spec => []CurateInv
BY CurateInit, CurateStep, PTL DEF Spec

(* Whatever commands, rotations and landings run, every pool, list and      *)
(* plan keeps its range, and the flock never holds a sheep twice: every     *)
(* step of pipeline/shears.py, refactor_actions.py, hammer.py and           *)
(* library_rotate.py beside the worker.                                     *)
THEOREM TypeCorrect == Spec => []TypeOK
BY CurateHolds, InvIsTyped, PTL

-----------------------------------------------------------------------------
(* A delete takes all there is of a sheep, if nothing touches it.          *)

\* A sheep in work counts as touched by the command under way, Hammer excepted,
SeenOK == kind \notin Tiers \cup {"none"} => InWork \subseteq crossed

\* and the cascade of a sheep that nothing touched lists whatever the pools, and
\* then the catalog, still hold of it.
ListedOK ==
  LET s == aim["op"] IN s \notin crossed =>
    /\ pc["op"] \in {"rest", "cut"} => at[s] \subseteq list["op"]
    /\ pc["op"] = "cut" => /\ s \in Live => "mp4" \in list["op"]
                           /\ s \in side => "side" \in list["op"]

DeleteInv == CurateInv /\ SeenOK /\ ListedOK /\ DeletedStaysGone

LEMMA DeleteInit == Init => DeleteInv
<1> SUFFICES ASSUME Init PROVE DeleteInv
  OBVIOUS
<1>1. CurateInv
  BY CurateInit
<1>2. SeenOK /\ ListedOK /\ DeletedStaysGone
  BY DEF Init, SeenOK, ListedOK, DeletedStaysGone, Procs
<1> QED
  BY <1>1, <1>2 DEF DeleteInv

\* A step of the operator leaves the files to the cascade, and the worker alone.
LEMMA OperateIs ==
  ASSUME CurateInv, Operate
  PROVE  /\ pc'["op"] \notin {"rest", "cut"}
         /\ InWork' \subseteq InWork
         /\ \/ kind' \notin Tiers /\ crossed' = InWork \cup InRotation /\ gone' = gone
            \/ kind' \in Tiers
            \/ kind' \in {kind, "none"} /\ crossed \subseteq crossed'
<1>1. pc \in [Procs -> OpSteps \cup RotSteps] /\ Procs = {"op", "rot"} /\ "next" \notin {"rest", "cut"}
  BY DEF CurateInv, PlanOK, Procs
<1>2. CASE \E class \in ToSet(Wipes("all")) : Wipe(class)
  <2>1. PICK class \in ToSet(Wipes("all")) : Wipe(class)
    BY <1>2
  <2>2. UNCHANGED <<wk, cur, crossed>>
    BY <2>1 DEF Wipe
  <2>3. CASE Quit
    BY <1>1, <2>2, <2>3 DEF Quit, InWork
  <2>4. CASE \E to \in Wiping : pc' = [pc EXCEPT !["op"] = to] /\ UNCHANGED <<aim, kind, todo>>
    BY <1>1, <2>2, <2>4 DEF Wiping, InWork
  <2> QED
    BY <2>1, <2>3, <2>4, WipeIs DEF CurateInv
<1>3. CASE \E tier \in Tiers : Hammer(tier)
  BY <1>1, <1>3 DEF Hammer, Begin, StopWorker, InWork
<1>4. CASE Starts
  BY <1>1, <1>4 DEF Starts, Sweep, Batch, Delete, Refactor, Begin, worker, InWork, Tiers
<1>5. CASE CutDone \/ GiveUp \/ ParkSide \/ ParkNothing \/ MoveGenome \/ NoneLeft
  BY <1>1, <1>5 DEF CutDone, GiveUp, ParkSide, ParkNothing, MoveGenome, NoneLeft, Onward, Quit,
                    Step,
                    worker, history, InWork
<1>6. CASE (\E s \in Sheep : TakeNext(s)) \/ Score \/ ParkMp4
  BY <1>1, <1>6 DEF TakeNext, Score, ParkMp4, Step, worker, history, InWork
<1>7. CASE Apply
  BY <1>1, <1>7 DEF Apply, Touch, Onward, Quit, worker, InWork
<1> QED
  BY <1>2, <1>3, <1>4, <1>5, <1>6, <1>7 DEF Operate, Starts

LEMMA SeenStep ==
  ASSUME DeleteInv, [Next]_vars
  PROVE  SeenOK'
<1> USE DEF DeleteInv
<1>1. CASE Operate
  BY <1>1, OperateIs DEF SeenOK
<1>2. CASE Rotate
  BY <1>2, RotateIs DEF SeenOK, InWork, worker
<1>3. CASE \E s \in Sheep : Land(s)
  BY <1>3 DEF Land, Touch, SeenOK, InWork, worker
<1>4. CASE \E s \in Sheep : Claim(s)
  BY <1>4 DEF Claim, Goto, SeenOK, InWork
<1>5. CASE Fail \/ Archive \/ StartWorker
  BY <1>5 DEF Fail, Archive, StartWorker, Rest, SeenOK, InWork, history
<1>6. CASE Render \/ MoveAside \/ Install \/ ReadTags \/ WriteSidecar
  BY <1>6 DEF Render, MoveAside, Install, ReadTags, WriteSidecar, Goto, SeenOK, InWork, history
<1>7. CASE \E p \in Procs : ListPools(p) \/ ListRest(p)
  BY <1>7 DEF ListPools, ListRest, SeenOK, InWork, worker, history
<1>8. CASE \E p \in Procs : Cut(p)
  BY <1>8 DEF Cut, SeenOK, InWork
<1>9. CASE UNCHANGED vars
  BY <1>9 DEF vars, SeenOK, InWork, worker, history
<1>10. CASE \E p \in Procs : CutsKin(p)
  <2>1. UNCHANGED <<kind, wk, cur>> /\ crossed \subseteq crossed'
    BY <1>10, CutKinIs
  <2> QED
    BY <2>1 DEF SeenOK, InWork
<1> QED
  BY <1>1, <1>2, <1>3, <1>4, <1>5, <1>6, <1>7, <1>8, <1>9, <1>10 DEF Next, Cascade, CutsKin, Work

\* What the worker may add to, a cascade does not care about.
LEMMA ListedStep ==
  ASSUME DeleteInv, [Next]_vars
  PROVE  ListedOK'
<1>1. /\ pc \in [Procs -> OpSteps \cup RotSteps] /\ Procs = {"op", "rot"}
      /\ aim \in [Procs -> Sheep \cup {None}] /\ list \in [Procs -> SUBSET ToSet(Files)]
      /\ at \in [Sheep -> SUBSET Pools] /\ ListedOK /\ CurateInv /\ SeenOK
      /\ pc["op"] \in {"rest", "cut"} => aim["op"] \in Sheep
      /\ "mp4" \notin Pools /\ "side" \notin Pools /\ "job" \notin Pools
  BY DEF DeleteInv, CurateInv, PlanOK, PoolsOK, Procs, AtHand, Cutting, Pools
<1>2. pc["op"] \in {"rest", "cut"} => InWork \subseteq crossed
  BY <1>1 DEF SeenOK, CurateInv, PlanOK, Wiping, Cutting
<1> DEFINE s == aim["op"]
<1>3. ASSUME UNCHANGED aim, UNCHANGED pc, crossed \subseteq crossed',
             list'["op"] = list["op"] \/ list'["op"] = list["op"] \ {"job"},
             s \notin crossed' => /\ at'[s] \subseteq at[s]
                                  /\ (s \in Live' => s \in Live) /\ (s \in side' => s \in side),
             aim["op"] \in Sheep
      PROVE  ListedOK'
  <2> SUFFICES ASSUME s \notin crossed'
               PROVE  /\ pc["op"] \in {"rest", "cut"} => at'[s] \subseteq list'["op"]
                      /\ pc["op"] = "cut" => /\ s \in Live' => "mp4" \in list'["op"]
                                             /\ s \in side' => "side" \in list'["op"]
    BY <1>3 DEF ListedOK
  <2>1. /\ s \notin crossed /\ at'[s] \subseteq at[s] /\ at[s] \subseteq Pools
        /\ (s \in Live' => s \in Live) /\ (s \in side' => s \in side)
    BY <1>1, <1>3
  <2> HIDE DEF s
  <2> QED
    BY <1>1, <1>3, <2>1 DEF ListedOK, s
<1>4. CASE pc'["op"] \notin {"rest", "cut"}
  BY <1>4 DEF ListedOK
<1>5. CASE pc'["op"] \in {"rest", "cut"} /\ Work
  <2>1. UNCHANGED <<pc, aim>>
    BY <1>5 DEF Work, Land, Claim, Fail, Render, MoveAside, Install, ReadTags, WriteSidecar,
                Archive, StartWorker, cascade
  <2>2. s \in Sheep /\ InWork \subseteq crossed /\ kind \notin Tiers
    BY <1>1, <1>2, <1>5, <2>1 DEF CurateInv, PlanOK, Wiping
  <2>3. crossed \subseteq crossed'
    BY <1>5 DEF Work, Land, Claim, Fail, Render, MoveAside, Install, ReadTags, WriteSidecar,
                Archive, StartWorker,
                history, Touch
  <2>4. list'["op"] = list["op"] \/ list'["op"] = list["op"] \ {"job"}
    BY <1>1, <1>5 DEF Work, Land, Claim, Fail, Render, MoveAside, Install, ReadTags, WriteSidecar,
                      Archive, StartWorker,
                cascade
  <2>5. s \notin crossed' => at'[s] \subseteq at[s] /\ (s \in Live' => s \in Live) /\ (s \in side' => s \in side)
    <3> SUFFICES ASSUME s \notin crossed'
                 PROVE  at'[s] \subseteq at[s] /\ (s \in Live' => s \in Live) /\ (s \in side' => s \in side)
      OBVIOUS
    <3>1. s \notin InWork
      BY <2>2, <2>3
    <3> HIDE DEF s
    <3>2. CASE \E t \in Sheep : Land(t) \/ Claim(t)
      BY <1>1, <2>2, <3>2 DEF Land, Claim, Put, Drop, Touch, flockVars, Live
    <3>3. CASE Fail \/ Archive
      <4>1. cur # s
        BY <3>1, <3>3 DEF InWork, Fail, Archive
      <4>2. at'[s] \subseteq at[s]
        BY <1>1, <2>2, <3>3, <4>1 DEF Fail, Archive, Shelve, Put
      <4> QED
        BY <3>3, <4>2 DEF Fail, Archive, flockVars, Live
    <3>4. CASE MoveAside
      <4>1. ToSet(Without(cur)) = Live \ {cur}
        BY WithoutIs DEF DeleteInv, CurateInv, FlockOK
      <4> HIDE DEF Without
      <4> QED
        BY <3>4, <4>1 DEF MoveAside, Live
    <3>5. CASE Install
      <4>1. cur \in Sheep /\ cur # s
        BY <1>1, <3>1, <3>5 DEF InWork, Install, Goto, CurateInv, WorkerOK
      <4>2. /\ Without(cur) \in Seq(Sheep) /\ IsInjective(Without(cur)) /\ ToSet(Without(cur)) = Live \ {cur}
        BY WithoutIs DEF DeleteInv, CurateInv, FlockOK
      <4> HIDE DEF Without
      <4>3. ToSet(flock') = Live \cup {cur}
        BY <3>5, <4>1, <4>2, AppendIs DEF Install
      <4> QED
        BY <3>5, <4>1, <4>3 DEF Install, Live
    <3>6. CASE WriteSidecar
      BY <3>1, <3>6 DEF WriteSidecar, Goto, InWork, Live
    <3>7. CASE Render \/ ReadTags \/ StartWorker
      BY <3>7 DEF Render, ReadTags, StartWorker, flockVars, Live
    <3> QED
      BY <1>5, <3>2, <3>3, <3>4, <3>5, <3>6, <3>7 DEF Work
  <2> QED
    BY <1>3, <2>1, <2>2, <2>3, <2>4, <2>5
<1>6. CASE Operate
  BY <1>1, <1>4, <1>6, OperateIs
<1>7. CASE Rotate
  <2>1. /\ UNCHANGED <<at, flock, side, crossed>>
        /\ pc'["op"] = pc["op"] /\ aim'["op"] = aim["op"] /\ list'["op"] = list["op"]
    BY <1>1, <1>7, RotateIs DEF flockVars
  <2> QED
    BY <1>1, <2>1 DEF ListedOK, Live
<1>8. CASE ListPools("op")
  BY <1>1, <1>8 DEF ListPools, Step, ListedOK, history
<1>9. CASE ListRest("op")
  BY <1>1, <1>9 DEF ListRest, Step, ListedOK, history, flockVars, Live
<1>10. CASE ListPools("rot") \/ ListRest("rot")
  BY <1>1, <1>10 DEF ListPools, ListRest, Step, ListedOK, history, flockVars, Live
<1>11. CASE pc'["op"] \in {"rest", "cut"} /\ Cut("rot")
  <2>1. /\ UNCHANGED <<pc, aim>> /\ crossed' = crossed \cup {aim["rot"]} /\ aim["rot"] \in Sheep
        /\ \E f \in list["rot"] :
              /\ list' = [list EXCEPT !["rot"] = list["rot"] \ {f}]
              /\ at' = IF f \in Pools THEN [at EXCEPT ![aim["rot"]] = at[aim["rot"]] \ {f}] ELSE at
              /\ flock' = IF f = "mp4" THEN Without(aim["rot"]) ELSE flock
              /\ side' = IF f = "side" THEN side \ {aim["rot"]} ELSE side
    BY <1>1, <1>11, CutIs
  <2>2. ToSet(Without(aim["rot"])) = Live \ {aim["rot"]}
    BY WithoutIs DEF DeleteInv, CurateInv, FlockOK
  <2> HIDE DEF Without
  <2>3. Live' \subseteq Live /\ side' \subseteq side /\ list'["op"] = list["op"]
    BY <1>1, <2>1, <2>2 DEF Live
  <2>4. s \in Sheep /\ at'[s] \subseteq at[s]
    BY <1>1, <1>11, <2>1
  <2> QED
    BY <1>3, <2>1, <2>3, <2>4
<1>12. CASE pc'["op"] \in {"rest", "cut"} /\ Cut("op")
  <2>1. /\ pc["op"] = "cut" /\ UNCHANGED <<pc, aim, crossed>> /\ s \in Sheep
        /\ \E f \in list["op"] :
              /\ list' = [list EXCEPT !["op"] = list["op"] \ {f}]
              /\ at' = IF f \in Pools THEN [at EXCEPT ![s] = at[s] \ {f}] ELSE at
              /\ flock' = IF f = "mp4" THEN Without(s) ELSE flock
              /\ side' = IF f = "side" THEN side \ {s} ELSE side
    BY <1>1, <1>12, CutIs
  <2>2. ToSet(Without(s)) = Live \ {s}
    BY WithoutIs DEF DeleteInv, CurateInv, FlockOK
  <2> HIDE DEF Without
  <2>3. PICK f \in list["op"] :
              /\ list' = [list EXCEPT !["op"] = list["op"] \ {f}]
              /\ at' = IF f \in Pools THEN [at EXCEPT ![s] = at[s] \ {f}] ELSE at
              /\ flock' = IF f = "mp4" THEN Without(s) ELSE flock
              /\ side' = IF f = "side" THEN side \ {s} ELSE side
    BY <2>1
  <2>4. list'["op"] = list["op"] \ {f}
    BY <1>1, <2>3
  <2>5. Live' = IF f = "mp4" THEN Live \ {s} ELSE Live
    BY <2>2, <2>3 DEF Live
  <2>6. at'[s] = at[s] \ {f}
    BY <1>1, <2>1, <2>3
  <2> SUFFICES ASSUME s \notin crossed
               PROVE  /\ at'[s] \subseteq list'["op"]
                      /\ s \in Live' => "mp4" \in list'["op"]
                      /\ s \in side' => "side" \in list'["op"]
    BY <2>1 DEF ListedOK
  <2>7. /\ at[s] \subseteq list["op"]
        /\ (s \in Live => "mp4" \in list["op"]) /\ (s \in side => "side" \in list["op"])
    BY <1>1, <2>1 DEF ListedOK
  <2> HIDE DEF s
  <2> QED
    BY <2>3, <2>4, <2>5, <2>6, <2>7
<1>13. CASE UNCHANGED vars
  BY <1>1, <1>13 DEF vars, cascade, flockVars, history, ListedOK, Live
<1>14. CASE pc'["op"] \in {"rest", "cut"} /\ \E p \in Procs : CutsKin(p)
  <2>1. PICK p \in Procs : CutsKin(p)
    BY <1>14
  <2>2. PICK t \in Sheep, f \in ToSet(Files), own \in BOOLEAN :
              /\ at' = IF own THEN [at EXCEPT ![t] = at[t] \ {f}] ELSE at
              /\ flock' = IF f = "mp4" THEN Without(t) ELSE flock
              /\ side' = IF f = "side" THEN side \ {t} ELSE side
    BY <1>1, <2>1, CutKinIs
  <2>3. ToSet(Without(t)) = Live \ {t}
    BY WithoutIs DEF DeleteInv, CurateInv, FlockOK
  <2> HIDE DEF Without
  <2>4. UNCHANGED <<pc, aim, list>> /\ crossed \subseteq crossed'
    BY <1>1, <2>1, CutKinIs
  <2>5. s \in Sheep /\ at'[s] \subseteq at[s] /\ Live' \subseteq Live /\ side' \subseteq side
    BY <1>1, <1>14, <2>2, <2>3, <2>4 DEF Live
  <2> QED
    BY <1>3, <2>4, <2>5
<1> QED
  BY <1>1, <1>4, <1>5, <1>6, <1>7, <1>8, <1>9, <1>10, <1>11, <1>12, <1>13, <1>14 DEF Next, Cascade, CutsKin

LEMMA GoneStep ==
  ASSUME DeleteInv, [Next]_vars
  PROVE  DeletedStaysGone'
<1> SUFFICES ASSUME NEW s \in gone'
             PROVE  at'[s] = {} /\ s \notin Live' /\ s \notin side' /\ s \notin InWork'
  BY DEF DeletedStaysGone
<1>1. /\ at \in [Sheep -> SUBSET Pools] /\ spare \in [Sheep -> SUBSET {"done", "quarantine"}]
      /\ gone \subseteq Sheep /\ gone' \subseteq Sheep /\ Procs = {"op", "rot"}
      /\ aim \in [Procs -> Sheep \cup {None}]
  <2>1. CurateInv'
    BY CurateStep DEF DeleteInv
  <2> QED
    BY <2>1 DEF DeleteInv, CurateInv, PoolsOK, CountsOK, PlanOK, Procs
<1>2. \A t : ToSet(Without(t)) = Live \ {t}
  BY WithoutIs DEF DeleteInv, CurateInv, FlockOK
<1> HIDE DEF Without
<1>3. ASSUME s \in gone, at'[s] \subseteq at[s], Live' \subseteq Live, side' \subseteq side,
             InWork' \subseteq InWork
      PROVE  at'[s] = {} /\ s \notin Live' /\ s \notin side' /\ s \notin InWork'
  BY <1>3 DEF DeleteInv, DeletedStaysGone
<1>4. s \in gone => at[s] = {} /\ s \notin Live /\ s \notin side /\ s \notin InWork
  BY DEF DeleteInv, DeletedStaysGone
<1>5. CASE \E t \in Sheep : Land(t)
  <2>1. PICK t \in Sheep : Land(t)
    BY <1>5
  <2>2. s \in gone /\ s # t
    BY <2>1 DEF Land, Touch
  <2> QED
    BY <1>1, <1>4, <2>1, <2>2 DEF Land, Put, flockVars, worker, Live, InWork
<1>6. CASE \E t \in Sheep : Claim(t)
  <2>1. PICK t \in Sheep : Claim(t)
    BY <1>6
  <2>2. s \in gone /\ s # t
    BY <2>1 DEF Claim
  <2>3. s \notin InWork'
    BY <2>1, <2>2 DEF Claim, Goto, InWork
  <2> QED
    BY <1>1, <1>4, <2>1, <2>2, <2>3 DEF Claim, Drop, flockVars, Live
<1>7. CASE Fail \/ Archive
  <2>1. s \in gone /\ UNCHANGED <<Live, side>> /\ InWork' = {}
    BY <1>7 DEF Fail, Archive, history, flockVars, Live, Rest, InWork
  <2>2. cur # s
    BY <1>4, <1>7, <2>1 DEF Fail, Archive, InWork
  <2>3. at'[s] = at[s]
    BY <1>1, <1>7, <2>2 DEF Fail, Archive, Shelve, Put
  <2> QED
    BY <1>4, <2>1, <2>3
<1>8. CASE Render \/ MoveAside \/ ReadTags \/ StartWorker
  <2>1. s \in gone /\ UNCHANGED <<at, side>> /\ Live' \subseteq Live /\ InWork' \subseteq InWork
    BY <1>2, <1>8 DEF Render, MoveAside, ReadTags, StartWorker, history, flockVars, Live, Rest,
                      InWork, Goto
  <2> QED
    BY <1>3, <2>1
<1>9. CASE Install
  <2>1. s \in gone /\ UNCHANGED <<at, side>> /\ InWork' = InWork /\ cur \in InWork
    BY <1>9 DEF Install, Goto, InWork, history
  <2>2. Live' = Live \cup {cur}
    <3>1. cur \in Sheep
      BY <1>9 DEF Install, Goto, DeleteInv, CurateInv, WorkerOK
    <3>2. /\ Without(cur) \in Seq(Sheep) /\ IsInjective(Without(cur)) /\ ToSet(Without(cur)) = Live \ {cur}
      BY WithoutIs DEF DeleteInv, CurateInv, FlockOK
    <3> QED
      BY <1>9, <3>1, <3>2, AppendIs DEF Install, Live
  <2> QED
    BY <1>4, <2>1, <2>2
<1>10. CASE WriteSidecar
  BY <1>4, <1>10 DEF WriteSidecar, Goto, InWork, history, Live
<1>11. CASE CutDone
  <2>1. UNCHANGED <<at, Live, side, InWork>>
    BY <1>11 DEF CutDone, flockVars, Live, worker, InWork
  <2>2. CASE s \in gone
    BY <1>4, <2>1, <2>2
  <2>3. CASE s \notin gone
    <3>1. s = aim["op"] /\ s \notin crossed /\ pc["op"] = "cut" /\ list["op"] = {}
      BY <1>11, <2>3 DEF CutDone, Emptied
    <3>2. kind \notin Tiers \cup {"none"}
      BY <3>1 DEF DeleteInv, CurateInv, PlanOK, Wiping
    <3> QED
      BY <2>1, <3>1, <3>2 DEF DeleteInv, SeenOK, ListedOK
  <2> QED
    BY <2>2, <2>3
<1>12. CASE Apply
  <2>1. s \in gone /\ s # aim["op"] /\ UNCHANGED <<Live, side, InWork>>
    BY <1>12 DEF Apply, Touch, flockVars, Live, worker, InWork
  <2>2. at'[s] = at[s]
    BY <1>1, <1>12, <2>1 DEF Apply, Put
  <2> QED
    BY <1>4, <2>1, <2>2
<1>13. CASE MoveGenome
  <2>1. s \in gone /\ UNCHANGED <<Live, side, InWork>>
    BY <1>13 DEF MoveGenome, history, flockVars, Live, worker, InWork
  <2>2. at'[s] = {}
    <3>1. at[s] = {} /\ s \in Sheep
      BY <1>1, <1>4, <2>1
    <3>2. CASE s # aim["op"]
      BY <1>1, <1>13, <3>1, <3>2 DEF MoveGenome, Drop
    <3>3. CASE s = aim["op"]
      BY <1>1, <1>13, <3>1, <3>3 DEF MoveGenome, Drop
    <3> QED
      BY <3>2, <3>3
  <2> QED
    BY <1>4, <2>1, <2>2
<1>14. CASE \E class \in ToSet(Wipes("all")) : Wipe(class)
  <2>1. s \in gone /\ InWork' = InWork /\ at'[s] \subseteq at[s] /\ side' \subseteq side
    BY <1>1, <1>14 DEF Wipe, Empty, EmptyMedia, InWork, flockVars
  <2>2. Live' \subseteq Live
    BY <1>14 DEF Wipe, Empty, EmptyMedia, flockVars, Live, ToSet
  <2> QED
    BY <1>3, <2>1, <2>2
<1>15. CASE \E tier \in Tiers : Hammer(tier)
  <2>1. s \in gone /\ UNCHANGED <<at, Live, side>> /\ InWork' = {}
    BY <1>15 DEF Hammer, StopWorker, InWork, flockVars, Live
  <2> QED
    BY <1>4, <2>1
<1>16. CASE Starts
  BY <1>4, <1>16 DEF Starts, Sweep, Batch, Delete, Refactor, flockVars, worker, Live, InWork
<1>17. CASE (\E t \in Sheep : TakeNext(t)) \/ NoneLeft \/ Score \/ GiveUp \/ ParkNothing
  BY <1>4, <1>17 DEF TakeNext, NoneLeft, Score, GiveUp, ParkNothing, flockVars, worker, Live,
                     InWork, history
<1>18. CASE ParkMp4 \/ ParkSide
  <2>1. s \in gone /\ UNCHANGED <<at, InWork>> /\ Live' \subseteq Live /\ side' \subseteq side
    BY <1>2, <1>18 DEF ParkMp4, ParkSide, history, worker, InWork, Live
  <2> QED
    BY <1>3, <2>1
<1>19. CASE Rotate
  <2>1. s \in gone /\ UNCHANGED <<at, flockVars, worker>>
    BY <1>19, RotateIs DEF DeleteInv
  <2> QED
    BY <1>4, <2>1 DEF flockVars, worker, Live, InWork
<1>20. CASE \E p \in Procs : ListPools(p) \/ ListRest(p)
  BY <1>4, <1>20 DEF ListPools, ListRest, flockVars, worker, Live, InWork, history
<1>21. CASE \E p \in Procs : Cut(p)
  <2>1. PICK p \in Procs : Cut(p)
    BY <1>21
  <2>2. aim[p] \in Sheep /\ gone' = gone /\ UNCHANGED <<wk, cur>>
        /\ \E f \in list[p] :
              /\ at' = IF f \in Pools THEN [at EXCEPT ![aim[p]] = at[aim[p]] \ {f}] ELSE at
              /\ flock' = IF f = "mp4" THEN Without(aim[p]) ELSE flock
              /\ side' = IF f = "side" THEN side \ {aim[p]} ELSE side
    BY <2>1, CutIs DEF DeleteInv
  <2>3. at'[s] \subseteq at[s] /\ Live' \subseteq Live /\ side' \subseteq side /\ InWork' = InWork
    BY <1>1, <1>2, <2>2 DEF Live, InWork
  <2> QED
    BY <1>3, <2>2, <2>3
<1>22. CASE UNCHANGED vars
  BY <1>4, <1>22 DEF vars, flockVars, worker, history, Live, InWork
<1>23. CASE \E p \in Procs : CutsKin(p)
  <2>1. PICK p \in Procs : CutsKin(p)
    BY <1>23
  <2>2. /\ gone' = gone /\ UNCHANGED <<wk, cur>>
        /\ \E t \in Sheep, f \in ToSet(Files), own \in BOOLEAN :
              /\ at' = IF own THEN [at EXCEPT ![t] = at[t] \ {f}] ELSE at
              /\ flock' = IF f = "mp4" THEN Without(t) ELSE flock
              /\ side' = IF f = "side" THEN side \ {t} ELSE side
    BY <2>1, CutKinIs DEF DeleteInv
  <2>3. at'[s] \subseteq at[s] /\ Live' \subseteq Live /\ side' \subseteq side /\ InWork' = InWork
    BY <1>1, <1>2, <2>2 DEF Live, InWork
  <2> QED
    BY <1>3, <2>2, <2>3
<1> QED
  BY <1>5, <1>6, <1>7, <1>8, <1>9, <1>10, <1>11, <1>12, <1>13, <1>14, <1>15, <1>16, <1>17, <1>18,
     <1>19, <1>20, <1>21, <1>22, <1>23 DEF Next, Cascade, CutsKin, Work, Operate, Starts

LEMMA DeleteHolds == Spec => []DeleteInv
<1>1. DeleteInv /\ [Next]_vars => DeleteInv'
  BY CurateStep, SeenStep, ListedStep, GoneStep DEF DeleteInv
<1> QED
  BY <1>1, DeleteInit, PTL DEF Spec

(* A delete or a sweep that nothing crossed leaves no genome of the sheep   *)
(* and nothing of its publication, and none comes back before a genome of   *)
(* it lands or is claimed: discover_cascade and apply_delete beside the     *)
(* worker, the rotation and every other command.                            *)
THEOREM DeletesAreWhole == Spec => []DeletedStaysGone
<1>1. DeleteInv => DeletedStaysGone
  BY DEF DeleteInv
<1> QED
  BY <1>1, DeleteHolds, PTL

-----------------------------------------------------------------------------
(* A rotation leaves rotate_floor MP4s.                                    *)

\* Of the candidates counted, only those the rotation has taken are missing, and the
\* tuples that went with them, unless another process took one.
FloorOK ==
  /\ pc["rot"] = "cut" => Len(cands) - planned >= Floor
  /\ ~thin /\ pc["rot"] # "idle" =>
        Len(flock) + along + planned >= Len(cands) + (IF pc["rot"] = "cut" /\ "mp4" \in list["rot"] THEN 1 ELSE 0)

FloorInv == CurateInv /\ FloorOK

LEMMA FloorStep ==
  ASSUME FloorInv, [Next]_vars
  PROVE  FloorOK'
<1>1. /\ pc \in [Procs -> OpSteps \cup RotSteps] /\ Procs = {"op", "rot"}
      /\ aim \in [Procs -> Sheep \cup {None}] /\ list \in [Procs -> SUBSET ToSet(Files)]
      /\ FloorOK /\ CurateInv
      /\ flock \in Seq(Sheep) /\ cands \in Seq(Sheep) /\ planned \in Nat /\ Floor \in Nat /\ thin \in BOOLEAN
      /\ Len(flock) \in Nat /\ Len(cands) \in Nat /\ along \in Nat
  BY CurateAssumption DEF FloorInv, CurateInv, PlanOK, FlockOK, CountsOK, KinOK, Procs
<1>2. \A t : /\ Without(t) \in Seq(Sheep) /\ IsInjective(Without(t)) /\ ToSet(Without(t)) = Live \ {t}
             /\ Len(Without(t)) = IF t \in Live THEN Len(flock) - 1 ELSE Len(flock)
  BY WithoutIs DEF FloorInv, CurateInv, FlockOK
<1> HIDE DEF Without
\* Whoever else removes an MP4 is remembered.
<1>3. ASSUME UNCHANGED <<rotation, along>>, pc'["rot"] = pc["rot"],
             list'["rot"] \cap {"mp4"} = list["rot"] \cap {"mp4"},
             \/ thin'
             \/ thin' = thin /\ flock' = flock
             \/ thin' = thin /\ Len(flock') \in Nat /\ Len(flock') >= Len(flock)
      PROVE  FloorOK'
  <2>1. ("mp4" \in list'["rot"]) <=> ("mp4" \in list["rot"])
    BY <1>3
  <2> DEFINE d == IF pc["rot"] = "cut" /\ "mp4" \in list["rot"] THEN 1 ELSE 0
  <2>2. d \in Nat /\ d = IF pc'["rot"] = "cut" /\ "mp4" \in list'["rot"] THEN 1 ELSE 0
    BY <1>3, <2>1
  <2>3. ~thin' /\ pc'["rot"] # "idle" => Len(flock') + along' + planned' >= Len(cands') + d
    <3>1. ~thin' /\ pc'["rot"] # "idle" => Len(flock) + along + planned >= Len(cands) + d
      BY <1>1, <1>3 DEF FloorOK
    <3> HIDE DEF d
    <3> QED
      BY <1>1, <1>3, <2>2, <3>1 DEF rotation
  <2> HIDE DEF d
  <2>4. pc'["rot"] = "cut" => Len(cands') - planned' >= Floor
    BY <1>1, <1>3 DEF FloorOK, rotation
  <2> QED
    BY <2>2, <2>3, <2>4 DEF FloorOK
<1>4. CASE Fail \/ Render \/ ReadTags \/ WriteSidecar \/ Archive \/ StartWorker
  BY <1>3, <1>4 DEF Fail, Render, ReadTags, WriteSidecar, Archive, StartWorker, flockVars, cascade,
                    history
<1>5. CASE \E s \in Sheep : Land(s) \/ Claim(s)
  <2>1. UNCHANGED <<rotation, along, pc, flock, thin>>
    BY <1>5 DEF Land, Claim, flockVars, cascade
  <2>2. list'["rot"] \cap {"mp4"} = list["rot"] \cap {"mp4"}
    BY <1>1, <1>5 DEF Land, Claim, cascade
  <2> QED
    BY <1>3, <2>1, <2>2
<1>6. CASE MoveAside
  BY <1>3, <1>6 DEF MoveAside, cascade
<1>7. CASE Install
  <2>1. cur \in Sheep
    BY <1>7 DEF Install, Goto, FloorInv, CurateInv, WorkerOK
  <2>2. Len(flock') \in Nat /\ Len(flock') >= Len(flock)
    <3>1. Len(flock') = Len(Without(cur)) + 1
      BY <1>2, <1>7, <2>1, AppendIs DEF Install
    <3> QED
      BY <1>1, <1>2, <3>1
  <2> QED
    BY <1>3, <1>7, <2>2 DEF Install, cascade, history
<1>8. CASE Operate
  <2>1. UNCHANGED <<rotation, along>> /\ pc'["rot"] = pc["rot"] /\ list'["rot"] = list["rot"]
        /\ (thin' \/ (thin' = thin /\ flock' = flock))
    <3>1. CASE \E class \in ToSet(Wipes("all")) : Wipe(class)
      <4>1. PICK class \in ToSet(Wipes("all")) : Wipe(class)
        BY <3>1
      <4>2. pc'["rot"] = pc["rot"]
        BY <1>1, <4>1, WipeIs DEF Quit, CurateInv
      <4> QED
        BY <4>1, <4>2 DEF Wipe, Empty, EmptyMedia, flockVars
    <3>2. CASE \E tier \in Tiers : Hammer(tier)
      BY <1>1, <3>2 DEF Hammer, Begin, flockVars
    <3>3. CASE Starts
      BY <1>1, <3>3 DEF Starts, Sweep, Batch, Delete, Refactor, Begin, flockVars
    <3>4. CASE CutDone \/ Apply \/ GiveUp \/ ParkSide \/ ParkNothing \/ NoneLeft
      BY <1>1, <3>4 DEF CutDone, Apply, GiveUp, ParkSide, ParkNothing, NoneLeft, Onward, Quit,
                        history, flockVars
    <3>5. CASE (\E s \in Sheep : TakeNext(s)) \/ Score \/ ParkMp4
      BY <1>1, <3>5 DEF TakeNext, Score, ParkMp4, Step, history, flockVars
    <3>6. CASE MoveGenome
      BY <1>1, <3>6 DEF MoveGenome, Onward, Quit, Step, history, flockVars
    <3> QED
      BY <1>8, <3>1, <3>2, <3>3, <3>4, <3>5, <3>6 DEF Operate, Starts
  <2> QED
    BY <1>3, <2>1
<1>9. CASE RotStart
  BY <1>1, <1>9 DEF RotStart, Step, FloorOK, flockVars
<1>10. CASE RotPick
  BY <1>1, <1>10 DEF RotPick, Step, FloorOK, flockVars, rotation, history
<1>11. CASE RotStat
  <2>1. /\ pc["rot"] = "stat" /\ pc'["rot"] = "cut" /\ planned' = planned + 1
        /\ UNCHANGED <<flock, cands, thin, along>> /\ MayTake
    BY <1>1, <1>11 DEF RotStat, Step, flockVars, history, CurateInv, TakingOK
  <2>2. ~thin => Len(flock) + along + planned >= Len(cands)
    BY <1>1, <2>1 DEF FloorOK
  <2> QED
    BY <1>1, <2>1, <2>2 DEF FloorOK, MayTake
<1>12. CASE RotNext
  BY <1>1, <1>12 DEF RotNext, Step, Emptied, FloorOK, flockVars, rotation, history
<1>13. CASE RotStop
  BY <1>1, <1>13 DEF RotStop, FloorOK, flockVars, rotation, history
<1>14. CASE ListPools("op") \/ ListRest("op")
  <2>1. UNCHANGED <<rotation, along, flock, thin>> /\ pc'["rot"] = pc["rot"] /\ list'["rot"] = list["rot"]
    BY <1>1, <1>14 DEF ListPools, ListRest, Step, flockVars, history
  <2> QED
    BY <1>3, <2>1
<1>15. CASE ListPools("rot") \/ ListRest("rot")
  <2>1. /\ UNCHANGED <<rotation, along, flock, thin>> /\ pc["rot"] # "idle" /\ pc["rot"] # "cut"
        /\ pc'["rot"] # "cut"
    BY <1>1, <1>15 DEF ListPools, ListRest, Step, flockVars, history
  <2> QED
    BY <1>1, <2>1 DEF FloorOK, rotation
<1>16. CASE Cut("op")
  <2>1. /\ UNCHANGED <<rotation, along, pc>>
        /\ \E f \in list["op"] :
              /\ list' = [list EXCEPT !["op"] = list["op"] \ {f}]
              /\ flock' = IF f = "mp4" THEN Without(aim["op"]) ELSE flock
              /\ thin' = (thin \/ f = "mp4")
    BY <1>1, <1>16, CutIs
  <2>2. list'["rot"] = list["rot"] /\ (thin' \/ (thin' = thin /\ flock' = flock))
    BY <1>1, <2>1
  <2> QED
    BY <1>3, <2>1, <2>2
<1>17. CASE Cut("rot")
  <2>1. /\ pc["rot"] = "cut" /\ UNCHANGED <<rotation, along, pc>>
        /\ \E f \in list["rot"] :
              /\ list' = [list EXCEPT !["rot"] = list["rot"] \ {f}]
              /\ flock' = IF f = "mp4" THEN Without(aim["rot"]) ELSE flock
              /\ thin' = thin
    <3>1. "rot" # "op"
      OBVIOUS
    <3> QED
      BY <1>1, <1>17, <3>1, CutIs
  <2>2. PICK f \in list["rot"] :
              /\ list' = [list EXCEPT !["rot"] = list["rot"] \ {f}]
              /\ flock' = IF f = "mp4" THEN Without(aim["rot"]) ELSE flock
              /\ thin' = thin
    BY <2>1
  <2>3. list'["rot"] = list["rot"] \ {f}
    BY <1>1, <2>2
  <2>4. CASE f # "mp4"
    <3>1. list'["rot"] \cap {"mp4"} = list["rot"] \cap {"mp4"} /\ flock' = flock
      BY <2>2, <2>3, <2>4
    <3> QED
      BY <1>3, <2>1, <2>2, <3>1
  <2>5. CASE f = "mp4"
    <3>1. /\ "mp4" \in list["rot"] /\ "mp4" \notin list'["rot"]
          /\ Len(flock') \in Nat /\ Len(flock') >= Len(flock) - 1
      <4>1. Len(Without(aim["rot"])) \in Nat /\ Len(Without(aim["rot"])) >= Len(flock) - 1
        BY <1>1, <1>2
      <4> QED
        BY <2>2, <2>3, <2>5, <4>1
    <3>2. ~thin => Len(flock) + along + planned >= Len(cands) + 1
      BY <1>1, <2>1, <3>1 DEF FloorOK
    <3> QED
      BY <1>1, <2>1, <2>2, <3>1, <3>2 DEF FloorOK, rotation
  <2> QED
    BY <2>4, <2>5
<1>18. CASE UNCHANGED vars
  BY <1>3, <1>18 DEF vars, cascade, flockVars, history
<1>19. CASE \E p \in Procs : CutsKin(p)
  <2>1. PICK p \in Procs : CutsKin(p)
    BY <1>19
  <2>2. PICK t \in Sheep, f \in ToSet(Files) :
              /\ flock' = IF f = "mp4" THEN Without(t) ELSE flock
              /\ thin' = (thin \/ (p = "op" /\ f = "mp4" /\ t \in Live))
              /\ along' = IF p = "rot" /\ f = "mp4" /\ t \in Live THEN along + 1 ELSE along
    BY <1>1, <2>1, CutKinIs
  <2>3. UNCHANGED <<rotation, pc, list>>
    BY <1>1, <2>1, CutKinIs
  <2>4. t \notin Live => Without(t) = flock
    BY DEF Without, RemoveFirst, Live, ToSet
  <2>5. CASE ~(f = "mp4" /\ t \in Live)
    BY <1>1, <1>3, <2>2, <2>3, <2>4, <2>5
  <2>6. CASE f = "mp4" /\ t \in Live /\ p = "op"
    <3>1. "op" # "rot"
      OBVIOUS
    <3> QED
      BY <1>1, <1>3, <2>2, <2>3, <2>6, <3>1
  <2>7. CASE f = "mp4" /\ t \in Live /\ p = "rot"
    <3>1. "op" # "rot"
      OBVIOUS
    <3>2. Len(flock') = Len(flock) - 1 /\ along' = along + 1 /\ thin' = thin
      BY <1>1, <1>2, <2>2, <2>7, <3>1
    <3>3. Len(flock') + along' = Len(flock) + along
      BY <1>1, <3>2
    <3> QED
      BY <1>1, <2>3, <3>2, <3>3 DEF FloorOK, rotation
  <2> QED
    BY <1>1, <2>5, <2>6, <2>7
<1> QED
  BY <1>1, <1>4, <1>5, <1>6, <1>7, <1>8, <1>9, <1>10, <1>11, <1>12, <1>13, <1>14, <1>15, <1>16,
     <1>17, <1>18, <1>19
  DEF Next, Cascade, CutsKin, Work, Rotate

LEMMA FloorHolds == Spec => []FloorInv
<1>1. Init => FloorInv
  <2> SUFFICES ASSUME Init PROVE FloorInv
    OBVIOUS
  <2>1. pc["rot"] = "idle"
    BY DEF Init, Procs
  <2> QED
    BY <2>1, CurateInit DEF FloorInv, FloorOK
<1>2. FloorInv /\ [Next]_vars => FloorInv'
  BY CurateStep, FloorStep DEF FloorInv
<1> QED
  BY <1>1, <1>2, PTL DEF Spec

(* The rotation that runs beside the worker and the commands never takes    *)
(* an MP4 that would leave fewer than rotate_floor by more than the tuples  *)
(* that its cascades took along, unless another process took one since the  *)
(* candidates were counted: run_rotate and _tuple_related_paths.            *)
THEOREM FloorStays == Spec => RotateKeepsFloor
<1>1. FloorInv /\ [Next]_vars =>
        [<<list["rot"], kin["rot"]>>' # <<list["rot"], kin["rot"]>> /\ flock' # flock
           => thin \/ Len(flock') + along' >= Floor]_vars
  <2> SUFFICES ASSUME FloorInv, [Next]_vars, flock' # flock, ~thin,
                      list'["rot"] # list["rot"] \/ kin'["rot"] # kin["rot"]
               PROVE  Len(flock') + along' >= Floor
    OBVIOUS
  <2>1. /\ Procs = {"op", "rot"} /\ list \in [Procs -> SUBSET ToSet(Files)] /\ CurateInv
        /\ Len(flock) \in Nat /\ Len(cands) \in Nat /\ planned \in Nat /\ Floor \in Nat
        /\ along \in Nat /\ kin \in [Procs -> SUBSET (Sheep \X ToSet(Files) \X BOOLEAN)]
    BY CurateAssumption DEF FloorInv, CurateInv, PlanOK, FlockOK, CountsOK, KinOK, Procs
  <2>2. ~UNCHANGED flockVars
    BY DEF flockVars
  <2>3. CASE MoveAside \/ Install \/ WriteSidecar \/ ParkMp4 \/ ParkSide
             \/ \E class \in ToSet(Wipes("all")) : Wipe(class)
    BY <2>3 DEF MoveAside, Install, WriteSidecar, ParkMp4, ParkSide, Wipe, cascade
  <2>4. CASE Cut("op")
    BY <2>1, <2>4 DEF Cut
  <2>5. CASE Cut("rot")
    <3>1. /\ pc["rot"] = "cut" /\ along' = along
          /\ \E f \in list["rot"] : flock' = IF f = "mp4" THEN Without(aim["rot"]) ELSE flock
      BY <2>1, <2>5, CutIs
    <3>2. "mp4" \in list["rot"] /\ flock' = Without(aim["rot"])
      BY <3>1
    <3>3. Len(flock) + along + planned >= Len(cands) + 1 /\ Len(cands) - planned >= Floor
      BY <2>1, <3>1, <3>2 DEF FloorInv, FloorOK
    <3>4. Len(Without(aim["rot"])) >= Len(flock) - 1 /\ Len(Without(aim["rot"])) \in Nat
      BY <2>1, WithoutIs DEF CurateInv, FlockOK
    <3> HIDE DEF Without
    <3> QED
      BY <2>1, <3>1, <3>2, <3>3, <3>4
  <2>6. CASE CutsKin("op")
    <3>1. PICK k \in kin["op"] : CutKin("op", k)
      BY <2>6 DEF CutsKin
    <3>2. list' = list /\ kin' = [kin EXCEPT !["op"] = @ \ {k}]
      BY <3>1 DEF CutKin
    <3>3. kin'["rot"] = kin["rot"]
      BY <2>1, <3>2
    <3> QED
      BY <3>2, <3>3
  <2>7. CASE CutsKin("rot")
    <3>1. pc["rot"] = "cut"
      BY <2>1, <2>7, CutKinIs
    <3>2. PICK t \in Sheep : flock' = Without(t) /\ along' = IF t \in Live THEN along + 1 ELSE along
      BY <2>1, <2>7, CutKinIs
    <3>3. t \in Live /\ Len(Without(t)) = Len(flock) - 1
      <4>1. t \notin Live => Without(t) = flock
        BY <2>1 DEF Without, RemoveFirst, Live, ToSet, CurateInv, FlockOK
      <4>2. flock \in Seq(Sheep) /\ IsInjective(flock)
        BY <2>1 DEF CurateInv, FlockOK
      <4>3. Len(Without(t)) = IF t \in Live THEN Len(flock) - 1 ELSE Len(flock)
        BY <4>2, WithoutIs
      <4> HIDE DEF Without
      <4> QED
        BY <3>2, <4>1, <4>3
    <3>4. Len(flock) + along + planned >= Len(cands) /\ Len(cands) - planned >= Floor
      <4>1. /\ Len(cands) - planned >= Floor
            /\ Len(flock) + along + planned >= Len(cands) + (IF pc["rot"] = "cut" /\ "mp4" \in list["rot"] THEN 1 ELSE 0)
        BY <3>1 DEF FloorInv, FloorOK
      <4> QED
        BY <2>1, <4>1
    <3> HIDE DEF Without
    <3>5. Len(flock') = Len(flock) - 1 /\ along' = along + 1
      BY <3>2, <3>3
    <3>6. Len(flock') + along' = Len(flock) + along
      BY <2>1, <3>5
    <3> QED
      BY <2>1, <3>4, <3>6
  <2> QED
    BY <2>1, <2>2, <2>3, <2>4, <2>5, <2>6, <2>7, FlockFrame
<1> QED
  BY <1>1, FloorHolds, PTL DEF Spec, RotateKeepsFloor

-----------------------------------------------------------------------------
(* Only a cull erases.                                                     *)

LEMMA GenomeStays ==
  ASSUME CurateInv, [Next]_vars, NEW s \in Sheep, ~Culled(s), ~Stale(s), HasGenome(s)
  PROVE  HasGenome(s)'
<1>1. /\ at \in [Sheep -> SUBSET Pools] /\ spare \in [Sheep -> SUBSET {"done", "quarantine"}]
      /\ WorkerOK /\ StoppedOK /\ None \notin Sheep
      /\ kind \notin Tiers /\ (kind = "none" <=> pc["op"] = "idle")
      /\ \A p \in Procs : pc[p] = "cut" => aim[p] # s /\ aim[p] \notin Parents(s)
  BY CurateAssumption DEF CurateInv, PoolsOK, PlanOK, Culled
<1>2. at[s] # {} \/ spare[s] # {} \/ (job /\ cur = s)
  BY DEF HasGenome
<1>3. ASSUME at[s] # {} => at'[s] # {}, spare[s] # {} => spare'[s] # {},
             job /\ cur = s => (job' /\ cur' = s) \/ at'[s] # {} \/ spare'[s] # {}
      PROVE  HasGenome(s)'
  BY <1>2, <1>3 DEF HasGenome
<1>4. CASE \E t \in Sheep : Land(t)
  BY <1>1, <1>3, <1>4 DEF Land, Put, worker
<1>5. CASE \E t \in Sheep : Claim(t)
  <2>1. PICK t \in Sheep : Claim(t)
    BY <1>5
  <2>2. wk = "idle" /\ ~(job /\ cur = s) /\ job' = TRUE /\ cur' = t /\ spare' = spare
        /\ at' = [at EXCEPT ![t] = at[t] \ {"inbox"}]
    BY <1>1, <2>1 DEF Claim, Goto, Drop, WorkerOK
  <2>3. CASE t = s
    BY <2>2, <2>3 DEF HasGenome
  <2>4. CASE t # s
    <3>1. at'[s] = at[s] /\ spare'[s] = spare[s]
      BY <1>1, <2>2, <2>4
    <3> QED
      BY <1>3, <2>2, <3>1
  <2> QED
    BY <2>3, <2>4
<1>6. CASE Fail \/ Archive
  <2>1. cur \in Sheep /\ (~job \/ \E f \in {"done", "quarantine"} : Shelve(f))
        /\ (~job => UNCHANGED <<at, spare>>)
    BY <1>1, <1>6 DEF Fail, Archive, WorkerOK
  <2>2. ASSUME NEW f \in {"done", "quarantine"}, Shelve(f)
        PROVE  /\ at[s] # {} => at'[s] # {}
               /\ spare[s] # {} => spare'[s] # {}
               /\ cur = s => at'[s] # {} \/ spare'[s] # {}
    BY <1>1, <2>1, <2>2 DEF Shelve, Put
  <2> QED
    BY <1>3, <2>1, <2>2
<1>7. CASE StartWorker
  <2>1. ~job /\ UNCHANGED <<at, spare>>
    BY <1>1, <1>7 DEF StartWorker, StoppedOK
  <2> QED
    BY <1>3, <2>1
<1>8. CASE Render \/ MoveAside \/ Install \/ ReadTags \/ WriteSidecar
  BY <1>3, <1>8 DEF Render, MoveAside, Install, ReadTags, WriteSidecar
<1>9. CASE Apply
  BY <1>1, <1>3, <1>9 DEF Apply, Put, worker
<1>10. CASE MoveGenome
  <2>1. UNCHANGED <<spare, job, cur>>
    BY <1>10 DEF MoveGenome, worker
  <2>2. at[s] # {} => at'[s] # {}
    <3>1. CASE s # aim["op"]
      BY <1>1, <1>10, <3>1 DEF MoveGenome, Drop
    <3>2. CASE s = aim["op"]
      <4>1. Looked \subseteq at[s]
        BY <1>10, <3>2 DEF Stale, MoveGenome
      <4>2. at'[s] = (at[s] \ (Looked \ {"quarantine"})) \cup {p \in {"quarantine"} : Looked \ {"quarantine"} # {}}
        BY <1>1, <1>10, <3>2, <4>1 DEF MoveGenome
      <4> QED
        BY <4>2
    <3> QED
      BY <3>1, <3>2
  <2> QED
    BY <1>3, <2>1, <2>2
<1>11. CASE \E class \in ToSet(Wipes("all")) : Wipe(class)
  BY <1>1, <1>11 DEF Wipe
<1>12. CASE \E tier \in Tiers : Hammer(tier)
  BY <1>3, <1>12 DEF Hammer, StopWorker
<1>13. CASE \/ Sweep \/ CutDone \/ Batch \/ NoneLeft \/ Score \/ GiveUp \/ ParkMp4 \/ ParkSide \/ ParkNothing
            \/ \E t \in Sheep : Delete(t) \/ TakeNext(t) \/ \E c \in {"quarantine", "apply"} : Refactor(c, t)
  BY <1>3, <1>13 DEF Sweep, CutDone, Batch, NoneLeft, Score, GiveUp, ParkMp4, ParkSide, ParkNothing,
                     Delete, TakeNext, Refactor, worker
<1>14. CASE Rotate
  BY <1>3, <1>14, RotateIs DEF worker
<1>15. CASE \E p \in Procs : ListPools(p) \/ ListRest(p)
  BY <1>3, <1>15 DEF ListPools, ListRest, worker
<1>16. CASE \E p \in Procs : Cut(p)
  <2>1. PICK p \in Procs : Cut(p)
    BY <1>16
  <2>2. /\ pc[p] = "cut" /\ aim[p] \in Sheep /\ UNCHANGED <<spare, cur>>
        /\ \E f \in list[p] :
             /\ at' = IF f \in Pools THEN [at EXCEPT ![aim[p]] = at[aim[p]] \ {f}] ELSE at
             /\ job' = (job /\ ~(f = "job" /\ cur = aim[p]))
    BY <2>1, CutIs
  <2>3. aim[p] # s
    BY <1>1, <2>2
  <2>4. at'[s] = at[s]
    BY <1>1, <2>2, <2>3
  <2>5. job /\ cur = s => job'
    BY <2>2, <2>3
  <2> QED
    BY <1>3, <2>2, <2>4, <2>5
<1>17. CASE UNCHANGED vars
  BY <1>3, <1>17 DEF vars, worker
<1>18. CASE \E p \in Procs : CutsKin(p)
  <2>1. PICK p \in Procs : CutsKin(p)
    BY <1>18
  <2>2. pc[p] = "cut" /\ UNCHANGED <<cur, job>>
    BY <2>1, CutKinIs
  <2>3. PICK t \in Sheep, f \in ToSet(Files), own \in BOOLEAN :
             /\ aim[p] \in Parents(t)
             /\ at' = IF own THEN [at EXCEPT ![t] = at[t] \ {f}] ELSE at
             /\ spare' = IF own THEN spare ELSE [spare EXCEPT ![t] = spare[t] \ {f}]
    <3>1. \E t \in Sheep, f \in ToSet(Files), own \in BOOLEAN :
              /\ <<t, f, own>> \in kin[p] /\ aim[p] \in Parents(t)
              /\ kin' = [kin EXCEPT ![p] = kin[p] \ {<<t, f, own>>}]
              /\ at' = IF own THEN [at EXCEPT ![t] = at[t] \ {f}] ELSE at
              /\ spare' = IF own THEN spare ELSE [spare EXCEPT ![t] = spare[t] \ {f}]
              /\ flock' = IF f = "mp4" THEN Without(t) ELSE flock
              /\ side' = IF f = "side" THEN side \ {t} ELSE side
              /\ thin' = (thin \/ (p = "op" /\ f = "mp4" /\ t \in Live))
              /\ along' = IF p = "rot" /\ f = "mp4" /\ t \in Live THEN along + 1 ELSE along
              /\ crossed' = IF p = "rot" THEN crossed \cup {t} ELSE crossed
      BY <2>1, CutKinIs
    <3> QED
      BY <3>1
  <2>4. t # s
    BY <1>1, <2>2, <2>3
  <2>5. at'[s] = at[s] /\ spare'[s] = spare[s]
    BY <1>1, <2>3, <2>4
  <2> QED
    BY <1>3, <2>2, <2>5
<1> QED
  BY <1>4, <1>5, <1>6, <1>7, <1>8, <1>9, <1>10, <1>11, <1>12, <1>13, <1>14, <1>15, <1>16, <1>17, <1>18
  DEF Next, Cascade, CutsKin, Work, Operate

LEMMA Mp4Stays ==
  ASSUME CurateInv, [Next]_vars, NEW s \in Sheep, ~Culled(s), HasMp4(s)
  PROVE  HasMp4(s)'
<1>1. /\ kind \notin Tiers
      /\ \A p \in Procs : pc[p] = "cut" => aim[p] # s /\ aim[p] \notin Parents(s)
  BY DEF Culled
<1>2. \A t : /\ Without(t) \in Seq(Sheep) /\ IsInjective(Without(t)) /\ ToSet(Without(t)) = Live \ {t}
  BY WithoutIs DEF CurateInv, FlockOK
<1> HIDE DEF Without
<1>3. s \in Live \/ s \in prev \/ s \in parked
  BY DEF HasMp4
<1>4. ASSUME s \in Live \cup prev \cup parked => s \in Live' \cup prev' \cup parked' PROVE HasMp4(s)'
  BY <1>3, <1>4 DEF HasMp4
<1>5. CASE UNCHANGED flockVars
  BY <1>4, <1>5 DEF flockVars, Live
<1>6. CASE MoveAside
  BY <1>2, <1>4, <1>6 DEF MoveAside, Live
<1>7. CASE Install
  <2>1. cur \in Sheep
    BY <1>7 DEF Install, Goto, CurateInv, WorkerOK
  <2>2. ToSet(flock') = Live \cup {cur}
    BY <1>2, <1>7, <2>1, AppendIs DEF Install
  <2> QED
    BY <1>4, <1>7, <2>2 DEF Install, Live
<1>8. CASE WriteSidecar \/ ParkSide
  BY <1>4, <1>8 DEF WriteSidecar, ParkSide, Live
<1>9. CASE ParkMp4
  BY <1>2, <1>4, <1>9 DEF ParkMp4, Live
<1>10. CASE \E class \in ToSet(Wipes("all")) : Wipe(class)
  BY <1>1, <1>10 DEF Wipe
<1>11. CASE \E p \in Procs : Cut(p)
  <2>1. PICK p \in Procs : Cut(p)
    BY <1>11
  <2>2. /\ pc[p] = "cut" /\ UNCHANGED <<prev, parked>>
        /\ \E f \in list[p] : flock' = IF f = "mp4" THEN Without(aim[p]) ELSE flock
    BY <2>1, CutIs
  <2>3. Live \ {aim[p]} \subseteq Live'
    BY <1>2, <2>2 DEF Live
  <2> QED
    BY <1>1, <1>4, <2>2, <2>3
<1>12. CASE \E p \in Procs : CutsKin(p)
  <2>1. PICK p \in Procs : CutsKin(p)
    BY <1>12
  <2>2. /\ pc[p] = "cut" /\ UNCHANGED <<prev, parked>>
        /\ \E t \in Sheep, f \in ToSet(Files) :
             aim[p] \in Parents(t) /\ flock' = IF f = "mp4" THEN Without(t) ELSE flock
    BY <2>1, CutKinIs
  <2>3. s \in Live => s \in Live'
    BY <1>1, <1>2, <2>2 DEF Live
  <2> QED
    BY <1>4, <2>2, <2>3
<1> QED
  BY <1>5, <1>6, <1>7, <1>8, <1>9, <1>10, <1>11, <1>12, FlockFrame

(* No sheep loses its last genome or its last MP4 but to a delete, a sweep, *)
(* a rotation or Hammer, of it or of a parent of that tuple, whatever fails *)
(* and in whatever order the worker and the commands step; the one          *)
(* exception is the stale quarantine that the property names:               *)
(* install_catalog_mp4, quarantine_genome, archive_rendered_genome and      *)
(* run_quarantine.                                                          *)
THEOREM CullsErase == Spec => OnlyCullsErase
<1>1. CurateInv /\ [Next]_vars =>
        [\A s \in Sheep : \/ (HasGenome(s) => HasGenome(s)') /\ (HasMp4(s) => HasMp4(s)')
                          \/ Culled(s) \/ Stale(s)]_vars
  BY GenomeStays, Mp4Stays
<1> QED
  BY <1>1, CurateHolds, PTL DEF Spec, OnlyCullsErase

-----------------------------------------------------------------------------
(* What a cleaning command was to clean is clean when it ends.             *)

\* A cascade lists what the catalog still holds of the tuples it takes along.
KinListed(s) == /\ s \in Live => <<s, "mp4", TRUE>> \in kin["op"]
                /\ s \in side => <<s, "side", TRUE>> \in kin["op"]

InHand(s) == \/ aim["op"] = s /\ pc["op"] \in Cutting
             \/ aim["op"] \in Parents(s) /\ pc["op"] = "cut"

\* An orphan is parked, or the sweep has still to see to it,
SweepOK ==
  kind = "sweep" /\ crossed = {} =>
    /\ \A s \in Orphans : s \in parked \cup todo \/ InHand(s)
    /\ pc["op"] = "cut" => \A s \in Sheep : aim["op"] \in Parents(s) => KinListed(s)

\* and Hammer has emptied the pools it has gone past.
HammerOK ==
  kind \in Tiers /\ crossed = {} =>
    \A s \in Sheep :
      /\ kind \in {"inputs", "all"} /\ pc["op"] \notin {"jobs", "inbox"} => "inbox" \notin at[s]
      /\ kind \in {"inputs", "all"} /\ pc["op"] \in {"done", "media"} => "quarantine" \notin at[s]
      /\ pc["op"] = "media" => "done" \notin at[s]

CleanInv == DeleteInv /\ SweepOK /\ HammerOK

LEMMA SweepSteps ==
  ASSUME DeleteInv, [Next]_vars, kind = "sweep", crossed = {}
  PROVE  \/ crossed' # {} /\ kind' = kind
         \/ /\ UNCHANGED <<at, flockVars, kind, todo, crossed>> /\ aim'["op"] = aim["op"]
            /\ pc["op"] \in Cutting => pc'["op"] \in Cutting
            /\ pc["op"] = "cut" => pc'["op"] = "cut"
            /\ pc'["op"] = "cut" => \/ pc["op"] = "cut" /\ kin'["op"] = kin["op"]
                                    \/ kin'["op"] = KinFiles(aim["op"])
         \/ CutDone \/ NoneLeft \/ (\E s \in Sheep : TakeNext(s)) \/ Cut("op") \/ CutsKin("op")
<1>1. /\ pc \in [Procs -> OpSteps \cup RotSteps] /\ Procs = {"op", "rot"} /\ kind \notin Tiers \cup {"none"}
      /\ pc["op"] \in Cutting \cup {"next"} /\ CurateInv
      /\ InWork = {} /\ wk \in WorkSteps
      /\ kin \in [Procs -> SUBSET (Sheep \X ToSet(Files) \X BOOLEAN)]
  BY DEF DeleteInv, CurateInv, PlanOK, WorkerOK, KinOK, Procs, Tiers, SeenOK
<1>2. wk \in {"off", "idle"}
  BY <1>1 DEF InWork
<1>3. CASE \E s \in Sheep : Land(s) \/ Claim(s)
  BY <1>1, <1>3 DEF Land, Claim, Touch
<1>4. CASE Fail \/ Render \/ MoveAside \/ Install \/ ReadTags \/ WriteSidecar \/ Archive \/ StartWorker
  BY <1>1, <1>2, <1>4 DEF Fail, Render, MoveAside, Install, ReadTags, WriteSidecar, Archive,
                          StartWorker, Goto
<1>5. CASE Operate
  <2>1. pc["op"] \notin {"idle", "score", "move", "park", "parkSide"} \cup Wiping
    BY <1>1 DEF Cutting, Wiping
  <2> QED
    BY <1>1, <1>5, <2>1 DEF Operate, Delete, Refactor, Sweep, Batch, Begin, Score, Apply, GiveUp,
       MoveGenome, ParkMp4, ParkSide, ParkNothing, Hammer, Wipe, Step
<1>6. CASE Rotate
  <2>1. kin'["op"] = kin["op"]
    BY <1>1, <1>6 DEF Rotate, RotStart, RotPick, RotStat, RotNext, RotStop
  <2> QED
    BY <1>1, <1>6, <2>1, RotateIs
<1>7. CASE \E p \in Procs : ListPools(p) \/ ListRest(p)
  <2>1. UNCHANGED <<at, flockVars, kind, todo, crossed, aim>>
    BY <1>7 DEF ListPools, ListRest, history
  <2>2. /\ pc["op"] \in Cutting => pc'["op"] \in Cutting
        /\ pc["op"] = "cut" => pc'["op"] = "cut"
    BY <1>1, <1>7 DEF ListPools, ListRest, Step, Cutting
  <2>3. pc'["op"] = "cut" => \/ pc["op"] = "cut" /\ kin'["op"] = kin["op"]
                            \/ kin'["op"] = KinFiles(aim["op"])
    <3>1. CASE ListPools("op")
      BY <1>1, <3>1 DEF ListPools, Step
    <3>2. CASE ListRest("op")
      BY <1>1, <3>2 DEF ListRest
    <3>3. CASE ListPools("rot") \/ ListRest("rot")
      BY <1>1, <3>3 DEF ListPools, ListRest, Step
    <3> QED
      BY <1>1, <1>7, <3>1, <3>2, <3>3
  <2> QED
    BY <2>1, <2>2, <2>3
<1>8. CASE Cut("rot")
  BY <1>1, <1>8 DEF Cut
<1>9. CASE UNCHANGED vars
  BY <1>9 DEF vars, cascade, history
<1>10. CASE CutsKin("rot")
  BY <1>1, <1>10, CutKinIs
<1> QED
  BY <1>1, <1>3, <1>4, <1>5, <1>6, <1>7, <1>8, <1>9, <1>10 DEF Next, Cascade, CutsKin, Work

LEMMA HammerSteps ==
  ASSUME DeleteInv, [Next]_vars, kind \in Tiers, crossed = {}
  PROVE  \/ crossed' # {} /\ kind' = kind
         \/ UNCHANGED <<at, kind, crossed>> /\ pc'["op"] = pc["op"]
         \/ \E class \in ToSet(Wipes("all")) : Wipe(class)
<1>1. /\ pc \in [Procs -> OpSteps \cup RotSteps] /\ Procs = {"op", "rot"} /\ kind # "none"
      /\ pc["op"] \in Wiping /\ CurateInv /\ wk = "off"
  BY DEF DeleteInv, CurateInv, PlanOK, StoppedOK, Procs, Tiers
<1>2. CASE Work
  BY <1>1, <1>2 DEF Work, Land, Touch, Claim, Fail, Render, MoveAside, Install, ReadTags,
                    WriteSidecar, Archive,
                    StartWorker, Goto
<1>3. CASE Operate
  <2>1. pc["op"] \notin {"idle", "next", "score", "move", "park", "parkSide", "cut"}
    BY <1>1 DEF Wiping
  <2> QED
    BY <1>1, <1>3, <2>1 DEF Operate, Delete, Refactor, Sweep, Batch, Begin, Score, Apply, GiveUp,
       MoveGenome, ParkMp4, ParkSide, ParkNothing, Hammer, Step, TakeNext, CutDone, Emptied,
       NoneLeft
<1>4. CASE Rotate
  BY <1>4, <1>1, RotateIs
<1>5. CASE ListPools("rot") \/ ListRest("rot")
  BY <1>1, <1>5 DEF ListPools, ListRest, Step, history
<1>6. CASE Cut("rot")
  BY <1>1, <1>6 DEF Cut
<1>7. CASE ListPools("op") \/ ListRest("op") \/ Cut("op")
  BY <1>1, <1>7 DEF ListPools, ListRest, Cut, Step, Wiping
<1>8. CASE UNCHANGED vars
  BY <1>8 DEF vars, cascade, history
<1>9. CASE CutsKin("rot") \/ CutsKin("op")
  BY <1>1, <1>9, CutKinIs DEF Wiping
<1> QED
  BY <1>1, <1>2, <1>3, <1>4, <1>5, <1>6, <1>7, <1>8, <1>9 DEF Next, Cascade, CutsKin

\* When a cascade has nothing more to remove, neither the sheep nor its tuples are
\* orphans in the catalog.
LEMMA CutDoneCleans ==
  ASSUME DeleteInv, SweepOK, CutDone, kind = "sweep", crossed = {}, NEW s \in Orphans, InHand(s)
  PROVE  s \in parked
<1>1. pc["op"] = "cut" /\ list["op"] = {} /\ kin["op"] = {}
  BY DEF CutDone, Emptied
<1>2. CASE s = aim["op"]
  <2>1. aim["op"] \notin Live /\ aim["op"] \notin side
    BY <1>1 DEF DeleteInv, ListedOK
  <2> QED
    BY <1>2, <2>1 DEF Orphans, Filmed
<1>3. CASE aim["op"] \in Parents(s)
  <2>1. s \in Sheep
    BY DEF Orphans, Filmed, DeleteInv, CurateInv, FlockOK, Live, ToSet
  <2>2. KinListed(s)
    BY <1>1, <1>3, <2>1 DEF SweepOK
  <2> QED
    BY <1>1, <2>2 DEF KinListed, Orphans, Filmed
<1> QED
  BY <1>2, <1>3 DEF InHand

LEMMA SweepStep ==
  ASSUME CleanInv, [Next]_vars
  PROVE  SweepOK'
<1> DEFINE Seen == \A s \in Orphans' :
                     \/ s \in parked' \cup todo'
                     \/ aim'["op"] = s /\ pc'["op"] \in Cutting
                     \/ aim'["op"] \in Parents(s) /\ pc'["op"] = "cut"
           Kept == \A s \in Sheep : aim'["op"] \in Parents(s) =>
                     /\ s \in Live' => <<s, "mp4", TRUE>> \in kin'["op"]
                     /\ s \in side' => <<s, "side", TRUE>> \in kin'["op"]
<1> SUFFICES ASSUME kind' = "sweep", crossed' = {}
             PROVE  Seen /\ (pc'["op"] = "cut" => Kept)
  BY DEF SweepOK, InHand, KinListed
<1>1. /\ pc \in [Procs -> OpSteps \cup RotSteps] /\ Procs = {"op", "rot"} /\ DeleteInv /\ CurateInv
      /\ aim \in [Procs -> Sheep \cup {None}] /\ list \in [Procs -> SUBSET ToSet(Files)]
      /\ at \in [Sheep -> SUBSET Pools] /\ at' \in [Sheep -> SUBSET Pools]
      /\ kin \in [Procs -> SUBSET (Sheep \X ToSet(Files) \X BOOLEAN)]
  <2>1. CurateInv'
    BY CurateStep DEF CleanInv, DeleteInv
  <2> QED
    BY <2>1 DEF CleanInv, DeleteInv, CurateInv, PlanOK, PoolsOK, KinOK, Procs
<1>2. ASSUME UNCHANGED <<at, flockVars>>
      PROVE  Orphans' = Orphans /\ parked' = parked /\ Live' = Live /\ side' = side
  BY <1>2 DEF flockVars, Orphans, Filmed, Known, Live
<1>3. CASE Sweep
  <2>1. pc'["op"] = "next"
    BY <1>1, <1>3 DEF Sweep, Begin
  <2> QED
    BY <1>2, <1>3, <2>1 DEF Sweep
<1>4. CASE ~Sweep
  <2>1. kind = "sweep" /\ crossed = {}
    <3>1. crossed \subseteq crossed' \/ (\E c, to : Begin(c, to))
      <4>1. CASE Operate
        BY <4>1 DEF Operate, Delete, Refactor, Sweep, Batch, Hammer, TakeNext, CutDone, NoneLeft,
           Score, Apply, Touch, GiveUp, MoveGenome, ParkMp4, ParkSide, ParkNothing, Wipe, history
      <4>2. CASE Work
        BY <4>2 DEF Work, Land, Touch, Claim, Fail, Render, MoveAside, Install, ReadTags,
                    WriteSidecar, Archive,
                    StartWorker, history
      <4>3. CASE Rotate
        BY <1>1, <4>3, RotateIs
      <4>4. CASE \E p \in Procs : Cascade(p)
        BY <4>4 DEF Cascade, ListPools, ListRest, Cut, CutKin, history
      <4>5. CASE UNCHANGED vars
        BY <4>5 DEF vars, history
      <4> QED
        BY <4>1, <4>2, <4>3, <4>4, <4>5 DEF Next
    <3>2. kind' = kind \/ kind' = "none" \/ (\E c, to : Begin(c, to))
      <4>1. CASE Operate
        BY <4>1 DEF Operate, Delete, Refactor, Sweep, Batch, Hammer, TakeNext, CutDone, NoneLeft,
           Score, Apply, GiveUp, MoveGenome, ParkMp4, ParkSide, ParkNothing, Wipe, Onward, Quit
      <4>2. CASE ~Operate
        BY <4>2, PlanFrame DEF vars
      <4> QED
        BY <4>1, <4>2
    <3>3. ~(\E c, to : Begin(c, to))
      <4> SUFFICES ASSUME NEW c, NEW to, Begin(c, to) PROVE FALSE
        OBVIOUS
      <4>1. c = "sweep" /\ kind = "none" /\ pc["op"] = "idle"
        BY DEF Begin
      <4>2. Operate
        BY <4>1, PlanFrame DEF vars
      <4> QED
        BY <1>4, <4>1, <4>2 DEF Operate, Delete, Refactor, Batch, Hammer, TakeNext, CutDone,
           NoneLeft, Score, Apply, GiveUp, MoveGenome, ParkMp4, ParkSide, ParkNothing, Wipe, Begin,
           Step, Emptied, Tiers
    <3> QED
      BY <3>1, <3>2, <3>3
  <2>2. /\ \A s \in Orphans : \/ s \in parked \cup todo
                              \/ aim["op"] = s /\ pc["op"] \in Cutting
                              \/ aim["op"] \in Parents(s) /\ pc["op"] = "cut"
        /\ pc["op"] = "cut" => \A s \in Sheep : aim["op"] \in Parents(s) =>
                                 /\ s \in Live => <<s, "mp4", TRUE>> \in kin["op"]
                                 /\ s \in side => <<s, "side", TRUE>> \in kin["op"]
    BY <2>1 DEF CleanInv, SweepOK, InHand, KinListed
  <2>3. CASE /\ UNCHANGED <<at, flockVars, kind, todo, crossed>> /\ aim'["op"] = aim["op"]
             /\ pc["op"] \in Cutting => pc'["op"] \in Cutting
             /\ pc["op"] = "cut" => pc'["op"] = "cut"
             /\ pc'["op"] = "cut" => \/ pc["op"] = "cut" /\ kin'["op"] = kin["op"]
                                     \/ kin'["op"] = KinFiles(aim["op"])
    <3>1. Seen
      BY <1>2, <2>2, <2>3
    <3>2. \A s \in Sheep : aim["op"] \in Parents(s) =>
            /\ s \in Live => <<s, "mp4", TRUE>> \in KinFiles(aim["op"])
            /\ s \in side => <<s, "side", TRUE>> \in KinFiles(aim["op"])
      <4>1. "mp4" \in ToSet(Files) /\ "side" \in ToSet(Files)
        <5>1. Files[5] = "mp4" /\ Files[6] = "side" /\ DOMAIN Files = 1..7
          BY DEF Files
        <5> QED
          BY <5>1 DEF ToSet
      <4> SUFFICES ASSUME NEW s \in Sheep, aim["op"] \in Parents(s)
                   PROVE  /\ s \in Live => <<s, "mp4", TRUE>> \in KinFiles(aim["op"])
                          /\ s \in side => <<s, "side", TRUE>> \in KinFiles(aim["op"])
        OBVIOUS
      <4>2. ASSUME s \in Live PROVE <<s, "mp4", TRUE>> \in KinFiles(aim["op"])
        BY <4>1, <4>2 DEF KinFiles
      <4>3. ASSUME s \in side PROVE <<s, "side", TRUE>> \in KinFiles(aim["op"])
        BY <4>1, <4>3 DEF KinFiles
      <4> QED
        BY <4>2, <4>3
    <3>3. pc'["op"] = "cut" => Kept
      BY <1>2, <2>2, <2>3, <3>2
    <3> QED
      BY <3>1, <3>3
  <2>4. CASE CutDone
    <3>1. /\ UNCHANGED <<at, flockVars, todo>> /\ pc'["op"] # "cut"
          /\ \A s \in Orphans : InHand(s) => s \in parked
      BY <1>1, <2>1, <2>4, CutDoneCleans DEF CutDone, Onward, Quit, CleanInv
    <3> QED
      BY <1>2, <2>2, <3>1 DEF InHand
  <2>5. CASE NoneLeft
    BY <2>5 DEF NoneLeft, Quit
  <2>6. CASE \E t \in Sheep : TakeNext(t)
    <3>1. PICK t \in Sheep : TakeNext(t)
      BY <2>6
    <3>2. /\ UNCHANGED <<at, flockVars>> /\ todo' = todo \ {t} /\ aim'["op"] = t /\ pc["op"] = "next"
          /\ pc'["op"] = "pools"
      BY <1>1, <2>1, <3>1 DEF TakeNext, Step
    <3> QED
      BY <1>2, <2>2, <3>2 DEF Cutting
  <2>7. CASE Cut("op")
    <3>1. /\ pc["op"] = "cut" /\ aim["op"] \in Sheep /\ UNCHANGED <<pc, aim, kin, todo, parked>>
          /\ \E f \in list["op"] :
               /\ at' = IF f \in Pools THEN [at EXCEPT ![aim["op"]] = at[aim["op"]] \ {f}] ELSE at
               /\ flock' = IF f = "mp4" THEN Without(aim["op"]) ELSE flock
               /\ side' = IF f = "side" THEN side \ {aim["op"]} ELSE side
      BY <1>1, <2>7, CutIs
    <3>2. ToSet(Without(aim["op"])) = Live \ {aim["op"]}
      BY WithoutIs DEF CleanInv, DeleteInv, CurateInv, FlockOK
    <3> HIDE DEF Without
    <3>3. \A s \in Sheep \ {aim["op"]} :
             at'[s] = at[s] /\ (s \in Live' <=> s \in Live) /\ (s \in side' <=> s \in side)
      BY <1>1, <3>1, <3>2 DEF Live
    <3>4. \A s \in Sheep \ {aim["op"]} : s \in Orphans' => s \in Orphans
      BY <3>1, <3>3 DEF Orphans, Filmed, Known
    <3>5. Orphans' \subseteq Sheep
      <4>1. CurateInv'
        BY CurateStep DEF CleanInv, DeleteInv
      <4> QED
        BY <4>1 DEF Orphans, Filmed, CurateInv, FlockOK, Live, ToSet
    <3>6. Seen
      BY <2>2, <3>1, <3>4, <3>5 DEF Cutting
    <3>7. Live' \subseteq Live /\ side' \subseteq side
      BY <3>1, <3>2 DEF Live
    <3> QED
      BY <2>2, <3>1, <3>6, <3>7
  <2>8. CASE CutsKin("op")
    <3>1. /\ pc["op"] = "cut" /\ aim["op"] \in Sheep /\ UNCHANGED <<pc, aim, todo, parked>>
          /\ \E t \in Sheep, f \in ToSet(Files), own \in BOOLEAN :
               /\ aim["op"] \in Parents(t)
               /\ kin' = [kin EXCEPT !["op"] = kin["op"] \ {<<t, f, own>>}]
               /\ at' = IF own THEN [at EXCEPT ![t] = at[t] \ {f}] ELSE at
               /\ flock' = IF f = "mp4" THEN Without(t) ELSE flock
               /\ side' = IF f = "side" THEN side \ {t} ELSE side
      BY <1>1, <2>8, CutKinIs
    <3>2. PICK t \in Sheep, f \in ToSet(Files), own \in BOOLEAN :
               /\ aim["op"] \in Parents(t)
               /\ kin' = [kin EXCEPT !["op"] = kin["op"] \ {<<t, f, own>>}]
               /\ at' = IF own THEN [at EXCEPT ![t] = at[t] \ {f}] ELSE at
               /\ flock' = IF f = "mp4" THEN Without(t) ELSE flock
               /\ side' = IF f = "side" THEN side \ {t} ELSE side
      BY <3>1
    <3>3. ToSet(Without(t)) = Live \ {t}
      BY WithoutIs DEF CleanInv, DeleteInv, CurateInv, FlockOK
    <3> HIDE DEF Without
    <3>4. \A s \in Sheep \ {t} :
             at'[s] = at[s] /\ (s \in Live' <=> s \in Live) /\ (s \in side' <=> s \in side)
      BY <1>1, <3>2, <3>3 DEF Live
    <3>5. \A s \in Sheep \ {t} : s \in Orphans' => s \in Orphans
      BY <3>1, <3>4 DEF Orphans, Filmed, Known
    <3>6. Orphans' \subseteq Sheep
      <4>1. CurateInv'
        BY CurateStep DEF CleanInv, DeleteInv
      <4> QED
        BY <4>1 DEF Orphans, Filmed, CurateInv, FlockOK, Live, ToSet
    <3>7. Seen
      BY <2>2, <3>1, <3>2, <3>5, <3>6
    <3>8. Live' = (IF f = "mp4" THEN Live \ {t} ELSE Live) /\ kin'["op"] = kin["op"] \ {<<t, f, own>>}
      BY <1>1, <3>2, <3>3 DEF Live
    <3>9. Kept
      <4> SUFFICES ASSUME NEW s \in Sheep, aim["op"] \in Parents(s)
                   PROVE  /\ s \in Live' => <<s, "mp4", TRUE>> \in kin'["op"]
                          /\ s \in side' => <<s, "side", TRUE>> \in kin'["op"]
        BY <3>1
      <4>1. /\ s \in Live => <<s, "mp4", TRUE>> \in kin["op"]
            /\ s \in side => <<s, "side", TRUE>> \in kin["op"]
        BY <2>2, <3>1
      <4> QED
        BY <3>2, <3>8, <4>1
    <3> QED
      BY <3>7, <3>9
  <2> QED
    BY <1>1, <2>1, <2>3, <2>4, <2>5, <2>6, <2>7, <2>8, SweepSteps
<1> QED
  BY <1>3, <1>4

LEMMA HammerStep ==
  ASSUME CleanInv, [Next]_vars
  PROVE  HammerOK'
<1> SUFFICES ASSUME kind' \in Tiers, crossed' = {}, NEW s \in Sheep
             PROVE  /\ kind' \in {"inputs", "all"} /\ pc'["op"] \notin {"jobs", "inbox"} => "inbox" \notin at'[s]
                    /\ kind' \in {"inputs", "all"} /\ pc'["op"] \in {"done", "media"} => "quarantine" \notin at'[s]
                    /\ pc'["op"] = "media" => "done" \notin at'[s]
  BY DEF HammerOK
<1>1. /\ pc \in [Procs -> OpSteps \cup RotSteps] /\ Procs = {"op", "rot"} /\ DeleteInv /\ PlanOK
      /\ at \in [Sheep -> SUBSET Pools]
  BY DEF CleanInv, DeleteInv, CurateInv, PlanOK, PoolsOK, Procs
<1>2. CASE \E tier \in Tiers : Hammer(tier)
  BY <1>1, <1>2 DEF Hammer, Begin
<1>3. CASE ~(\E tier \in Tiers : Hammer(tier))
  <2>1. kind' = kind
    <3>1. CASE Operate
      BY <1>3, <3>1 DEF Operate, Delete, Refactor, Sweep, Batch, Begin, Hammer, TakeNext, CutDone,
         NoneLeft, Score, Apply, GiveUp, MoveGenome, ParkMp4, ParkSide, ParkNothing, Wipe, Onward,
         Quit, Tiers
    <3>2. CASE ~Operate
      BY <3>2, PlanFrame DEF vars
    <3> QED
      BY <3>1, <3>2
  <2>2. crossed = {}
    <3>1. CASE Operate
      BY <2>1, <3>1 DEF Operate, Delete, Refactor, Sweep, Batch, Begin, Hammer, TakeNext, CutDone,
         NoneLeft, Score, Apply, Touch, GiveUp, MoveGenome, ParkMp4, ParkSide, ParkNothing, Wipe,
         history, Tiers
    <3>2. CASE Work
      BY <3>2 DEF Work, Land, Touch, Claim, Fail, Render, MoveAside, Install, ReadTags,
                  WriteSidecar, Archive,
                  StartWorker, history
    <3>3. CASE Rotate
      BY <3>3, RotateIs DEF CleanInv, DeleteInv
    <3>4. CASE \E p \in Procs : Cascade(p)
      BY <3>4 DEF Cascade, ListPools, ListRest, Cut, CutKin, history
    <3>5. CASE UNCHANGED vars
      BY <3>5 DEF vars, history
    <3> QED
      BY <3>1, <3>2, <3>3, <3>4, <3>5 DEF Next
  <2>3. /\ kind \in {"inputs", "all"} /\ pc["op"] \notin {"jobs", "inbox"} => "inbox" \notin at[s]
        /\ kind \in {"inputs", "all"} /\ pc["op"] \in {"done", "media"} => "quarantine" \notin at[s]
        /\ pc["op"] = "media" => "done" \notin at[s]
    BY <2>1, <2>2 DEF CleanInv, HammerOK
  <2>4. CASE UNCHANGED <<at, kind, crossed>> /\ pc'["op"] = pc["op"]
    BY <2>3, <2>4
  <2>5. CASE \E class \in ToSet(Wipes("all")) : Wipe(class)
    <3>1. PICK class \in ToSet(Wipes("all")) : Wipe(class)
      BY <2>5
    <3>2. PICK to \in Wiping : <<kind, class, to>> \in Following /\ pc' = [pc EXCEPT !["op"] = to]
      <4>1. ~Quit
        BY DEF Quit, Tiers
      <4> QED
        BY <1>1, <3>1, <4>1, WipeIs
    <3>3. pc["op"] = class /\ pc'["op"] = to
      BY <1>1, <3>1, <3>2 DEF Wipe
    <3>4. /\ class \in {"jobs", "media"} => at' = at
          /\ class \in Wiping \ {"jobs", "media"} => at'[s] = at[s] \ {class}
      BY <3>1 DEF Wipe, Empty, EmptyMedia
    <3>5. \/ kind \in {"inputs", "all"} /\ class = "jobs" /\ to = "inbox"
          \/ kind \in {"inputs", "all"} /\ class = "inbox" /\ to = "quarantine"
          \/ kind = "outputs" /\ class = "jobs" /\ to = "done"
          \/ kind = "outputs" /\ class = "done" /\ to = "media"
          \/ kind = "all" /\ class = "quarantine" /\ to = "done"
          \/ kind = "all" /\ class = "done" /\ to = "media"
      BY <3>2 DEF Following
    <3> QED
      BY <2>1, <2>3, <3>3, <3>4, <3>5 DEF Wiping
  <2> QED
    BY <1>1, <2>1, <2>2, <2>4, <2>5, HammerSteps
<1> QED
  BY <1>2, <1>3

LEMMA CleanHolds == Spec => []CleanInv
<1>1. Init => CleanInv
  <2> SUFFICES ASSUME Init PROVE CleanInv
    OBVIOUS
  <2>1. kind = "none"
    BY DEF Init
  <2> QED
    BY <2>1, DeleteInit DEF CleanInv, SweepOK, HammerOK, Tiers
<1>2. CleanInv /\ [Next]_vars => CleanInv'
  BY CurateStep, SeenStep, ListedStep, GoneStep, SweepStep, HammerStep DEF CleanInv, DeleteInv
<1> QED
  BY <1>1, <1>2, PTL DEF Spec

(* A sweep that nothing crossed ends with no orphan left but parked MP4s,   *)
(* and Hammer, which stops the worker first, with its whole tier empty:     *)
(* sweep_orphans and apply_plan.                                            *)
THEOREM CleansAreClean == Spec => CleanedIsClean
<1>1. CleanInv /\ [Next]_vars =>
        [kind' = "none" /\ crossed = {} =>
           /\ kind = "sweep" => Orphans' \subseteq parked'
           /\ \A tier \in Tiers : tier = kind => Wiped(tier)']_vars
  <2> SUFFICES ASSUME CleanInv, [Next]_vars, kind' = "none", crossed = {}
               PROVE  /\ kind = "sweep" => Orphans' \subseteq parked'
                      /\ \A tier \in Tiers : tier = kind => Wiped(tier)'
    OBVIOUS
  <2>1. DeleteInv /\ PlanOK /\ StoppedOK /\ "none" \notin Tiers /\ at \in [Sheep -> SUBSET Pools]
    BY DEF CleanInv, DeleteInv, CurateInv, PoolsOK, Tiers
  <2>2. ASSUME kind = "sweep" PROVE Orphans' \subseteq parked'
    <3>1. \A s \in Orphans : s \in parked \cup todo \/ InHand(s)
      BY <2>2 DEF CleanInv, SweepOK
    <3>2. CutDone \/ NoneLeft
      BY <2>1, <2>2, SweepSteps DEF TakeNext, Cut, CutsKin, CutKin
    <3>3. /\ UNCHANGED <<at, flockVars>> /\ todo = {}
          /\ \A s \in Orphans : InHand(s) => s \in parked
      <4>1. CASE CutDone
        BY <2>1, <2>2, <4>1, CutDoneCleans DEF CutDone, Onward, Quit, CleanInv
      <4>2. CASE NoneLeft
        BY <4>2 DEF NoneLeft, Cutting, InHand
      <4> QED
        BY <3>2, <4>1, <4>2
    <3>4. Orphans' = Orphans /\ parked' = parked
      BY <3>3 DEF flockVars, Orphans, Filmed, Known, Live
    <3> QED
      BY <3>1, <3>3, <3>4
  <2>3. ASSUME NEW tier \in Tiers, tier = kind PROVE Wiped(tier)'
    <3>1. PICK class \in ToSet(Wipes("all")) : Wipe(class)
      BY <2>1, <2>3, HammerSteps
    <3>2. pc["op"] = class /\ <<kind, class>> \in Final
      <4>1. kind' # kind
        BY <2>1, <2>3
      <4> QED
        BY <2>1, <3>1, <4>1, WipeIs
    <3>3. ~job'
      <4>1. kind \in Tiers => wk = "off"
        BY <2>1 DEF StoppedOK
      <4>2. ~job \/ class = "jobs"
        BY <2>1, <2>3, <3>2, <4>1 DEF StoppedOK
      <4>3. (class = "jobs" => ~job') /\ (class # "jobs" => job' = job)
        BY <3>1 DEF Wipe
      <4> QED
        BY <4>2, <4>3
    <3>4. \A s \in Sheep :
            /\ kind \in {"inputs", "all"} /\ class \notin {"jobs", "inbox"} => "inbox" \notin at[s]
            /\ kind \in {"inputs", "all"} /\ class \in {"done", "media"} => "quarantine" \notin at[s]
            /\ class = "media" => "done" \notin at[s]
      BY <2>3, <3>2 DEF CleanInv, HammerOK
    <3>5. /\ class = "quarantine" => \A s \in Sheep : at'[s] = at[s] \ {"quarantine"}
          /\ class = "media" => at' = at /\ flock' = <<>> /\ side' = {}
      BY <3>1 DEF Wipe, Empty, EmptyMedia
    <3>6. \/ kind = "worker" /\ class = "jobs"
          \/ kind = "inputs" /\ class = "quarantine"
          \/ kind = "outputs" /\ class = "media"
          \/ kind = "all" /\ class = "media"
      BY <3>2 DEF Final
    <3>7. kind \in {"inputs", "all"} => \A s \in Sheep : at'[s] \cap {"inbox", "quarantine"} = {}
      BY <3>4, <3>5, <3>6
    <3>8. kind \in {"outputs", "all"} => flock' = <<>> /\ side' = {} /\ \A s \in Sheep : "done" \notin at'[s]
      BY <3>4, <3>5, <3>6
    <3> QED
      BY <2>3, <3>3, <3>7, <3>8 DEF Wiped
  <2> QED
    BY <2>2, <2>3
<1> QED
  BY <1>1, CleanHolds, PTL DEF Spec, CleanedIsClean
=============================================================================
