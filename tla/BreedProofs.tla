---------------------------- MODULE BreedProofs ----------------------------
(* Proofs about Breed for any children, pairs, breeders, low water mark and *)
(* number of crashes.                                                      *)
EXTENDS Breed, FiniteSetTheorems, TLAPS

\* The worker has a genome in hand.
Working == {"claim", "take", "claimed", "tax", "optimize", "render", "install",
            "adopt", "describe", "release", "ingest", "archive", "fail", "copy",
            "unlink", "park", "close", "boot", "settle", "onto", "drop", "mark"}

\* What each process knows of the genome it works on.
HandsInv ==
  /\ wk \in Working \/ rec # "none" => cur \in Items
  /\ wk \in {"archive", "close"} => rec = "none"
  /\ wk = "boot" => rec # "none"
  /\ at # None => cur \in Kids
  /\ wk \in {"onto", "drop"} => at # None
  /\ \A b \in Breeders : /\ br[b] = "pedigree" => kid[b] \in Kids
                         /\ br[b] = "tuple" => kid[b] \in Tuples

TypeInv == TypeOK /\ HandsInv

LEMMA MoveType ==
  ASSUME NEW S, NEW f \in [Places -> SUBSET S], NEW x \in S,
         NEW p \in Places, NEW q \in Places
  PROVE  /\ Move(f, x, p, q) \in [Places -> SUBSET S]
         /\ x \in Move(f, x, p, q)[q]
         /\ \A y : \A r \in Places : y \in f[r] /\ y # x => y \in Move(f, x, p, q)[r]
  BY DEF Move

LEMMA LeaveType ==
  ASSUME NEW S, NEW f \in [Places -> SUBSET S]
  PROVE  /\ Leave(f) \in [Places -> SUBSET S]
         /\ \A y : (\E r \in Places : y \in f[r]) => \E r \in Places : y \in Leave(f)[r]
<1>1. Leave(f) \in [Places -> SUBSET S]
  BY DEF Leave, Places
<1>2. ASSUME NEW y, NEW r \in Places, y \in f[r]
      PROVE  \E r2 \in Places : y \in Leave(f)[r2]
  <2>1. CASE r \in {"job", "left"}
    <3>1. y \in Leave(f)["left"]
      BY <1>2, <2>1 DEF Leave, Places
    <3> QED BY <3>1 DEF Places
  <2>2. CASE r \notin {"job", "left"}
    <3>1. y \in Leave(f)[r]
      BY <1>2, <2>2 DEF Leave, Places
    <3> QED BY <3>1
  <2> QED BY <2>1, <2>2
<1> QED BY <1>1, <1>2

LEMMA LocateType ==
  ASSUME TypeOK, NEW x, NEW p \in {"inbox", "job"}, NEW q \in {"inbox", "job"}
  PROVE  /\ Locate(x, p, q) \in {None, "inbox", "job"}
         /\ Locate(x, p, q) # None => x \in Kids
  BY DEF Locate, TypeOK, Places

LEMMA TypeInit == Init => TypeInv
  BY BreedAssumption DEF Init, TypeInv, TypeOK, HandsInv, Places, Booting, Working


LEMMA BreederType ==
  TypeInv /\ (\E b \in Breeders : Breeder(b) \/ BreederDies(b)) => TypeInv'
<1> SUFFICES ASSUME TypeInv, NEW b \in Breeders, Breeder(b) \/ BreederDies(b)
             PROVE  TypeInv'
  OBVIOUS
<1> USE BreedAssumption DEF TypeInv, TypeOK, HandsInv, Step, files, job, history,
        Items, Places
<1>1. CASE Decide(b) \/ Command(b) \/ Barren(b)
  BY <1>1 DEF Decide, Command, Barren
<1>2. CASE Land(b)
  BY <1>2 DEF Land
<1>3. CASE WritePedigree(b)
  BY <1>3 DEF WritePedigree
<1>4. CASE PickTuple(b)
  BY <1>4 DEF PickTuple
<1>5. CASE WriteTuple(b)
  BY <1>5 DEF WriteTuple
<1>6. CASE BreederDies(b)
  BY <1>6 DEF BreederDies
<1> QED BY <1>1, <1>2, <1>3, <1>4, <1>5, <1>6 DEF Breeder

LEMMA WorkerType == TypeInv /\ ((\E x \in Items : Pick(x)) \/ Process) => TypeInv'
<1> SUFFICES ASSUME TypeInv, (\E x \in Items : Pick(x)) \/ Process
             PROVE  TypeInv'
  OBVIOUS
<1> USE BreedAssumption DEF TypeInv, TypeOK, HandsInv, Goto, Go, files, job,
        breeding, history, Booting, Looking, Working
<1>1. ASSUME NEW x \in Items, Pick(x) PROVE TypeInv'
  BY <1>1 DEF Pick
<1>2. CASE Claim
  <2>1. gen' \in [Places -> SUBSET Items]
    BY <1>2, MoveType DEF Claim, Places
  <2> QED BY <1>2, <2>1 DEF Claim
<1>3. CASE Take
  <2>1. side' \in [Places -> SUBSET Kids]
    BY <1>3, MoveType DEF Take, Places
  <2> QED BY <1>3, <2>1 DEF Take
<1>4. CASE WriteClaimed \/ Tax \/ Optimize \/ Render \/ Ingest
  BY <1>4 DEF WriteClaimed, Tax, Optimize, Render, Ingest
<1>5. CASE Install \/ Describe
  BY <1>5 DEF Install, Describe
<1>6. CASE Adopt
  <2>1. at' \in {None, "inbox", "job"} /\ (at' # None => cur \in Kids)
    BY <1>6, LocateType DEF Adopt
  <2> QED BY <1>6, <2>1 DEF Adopt
<1>7. CASE Release
  <2>1. side' \in [Places -> SUBSET Kids]
    BY <1>7 DEF Release
  <2> QED BY <1>7, <2>1 DEF Release
<1>8. CASE Archive
  <2>1. gen' \in [Places -> SUBSET Items]
    BY <1>8, MoveType DEF Archive, Places
  <2> QED BY <1>8, <2>1 DEF Archive
<1>9. CASE Raise \/ Fail
  BY <1>9 DEF Raise, Fail
<1>10. CASE Copy \/ Unlink
  <2>1. gen' \in [Places -> SUBSET Items]
    BY <1>10 DEF Copy, Unlink
  <2> QED BY <1>10, <2>1 DEF Copy, Unlink
<1>11. CASE Park
  <2>1. side' \in [Places -> SUBSET Kids]
    <3>1. /\ Locate(cur, "job", "inbox") \in {None, "inbox", "job"}
          /\ Locate(cur, "job", "inbox") # None => cur \in Kids
      BY LocateType
    <3> QED BY <1>11, <3>1, MoveType DEF Park, Places
  <2> QED BY <1>11, <2>1 DEF Park
<1>12. CASE Close
  <2>1. gen' \in [Places -> SUBSET Items] /\ side' \in [Places -> SUBSET Kids]
    BY <1>12, LeaveType DEF Close
  <2> QED BY <1>12, <2>1 DEF Close
<1> QED BY <1>1, <1>2, <1>3, <1>4, <1>5, <1>6, <1>7, <1>8, <1>9, <1>10, <1>11,
           <1>12 DEF Process

LEMMA RecoverType == TypeInv /\ (Recover \/ WorkerDies) => TypeInv'
<1> SUFFICES ASSUME TypeInv, Recover \/ WorkerDies
             PROVE  TypeInv'
  OBVIOUS
<1> USE BreedAssumption DEF TypeInv, TypeOK, HandsInv, Goto, Go, files, job,
        breeding, history, Booting, Looking, Working
<1>1. CASE Start
  BY <1>1 DEF Start
<1>2. CASE Supersede \/ Requeue
  <2>1. Home \in {"inbox", "job"} /\ Away \in {"inbox", "job"} /\ cur \in Items
    BY <1>2 DEF Supersede, Requeue, Home, Away
  <2>2. /\ Locate(cur, Home, Away) \in {None, "inbox", "job"}
        /\ Locate(cur, Home, Away) # None => cur \in Kids
    BY <2>1, LocateType
  <2>3. at' = Locate(cur, Home, Away) /\ cur' = cur /\ wk' = "settle"
    BY <1>2 DEF Supersede, Requeue
  <2>4. CASE Supersede
    BY <2>1, <2>2, <2>3, <2>4 DEF Supersede
  <2>5. CASE Requeue
    <3>1. gen' \in [Places -> SUBSET Items] /\ extra' \in SUBSET Items
      BY <2>1, <2>5 DEF Requeue
    <3> QED BY <2>1, <2>2, <2>3, <2>5, <3>1 DEF Requeue
  <2> QED BY <1>2, <2>4, <2>5
<1>3. CASE Settle
  <2>1. side' \in [Places -> SUBSET Kids]
    BY <1>3, MoveType DEF Settle, Places
  <2> QED BY <1>3, <2>1 DEF Settle
<1>4. CASE Onto
  BY <1>4 DEF Onto
<1>5. CASE DropSettled
  <2>1. side' \in [Places -> SUBSET Kids]
    BY <1>5 DEF DropSettled
  <2> QED BY <1>5, <2>1 DEF DropSettled
<1>6. CASE Mark
  <2>1. gen' \in [Places -> SUBSET Items] /\ side' \in [Places -> SUBSET Kids]
    BY <1>6, LeaveType DEF Mark
  <2> QED BY <1>6, <2>1 DEF Mark
<1>7. CASE Glob
  BY <1>7 DEF Glob, Places
<1>8. ASSUME NEW k \in Kids, ReapOne(k) PROVE TypeInv'
  <2>1. CASE k \notin gen["inbox"] /\ mp4[k] # "none"
    BY <1>8, <2>1 DEF ReapOne, Items
  <2>2. CASE k \in gen["inbox"] \/ mp4[k] = "none"
    <3>1. /\ Move(side, k, "inbox", "done") \in [Places -> SUBSET Kids]
          /\ Move(side, k, "inbox", "quar") \in [Places -> SUBSET Kids]
      BY MoveType DEF Places
    <3>2. side' \in [Places -> SUBSET Kids] /\ todo' = todo \ {k} /\ wk' = "reap"
          /\ UNCHANGED <<cur, at, gen, mp4, rec, breeding, crashes, history>>
      BY <1>8, <2>2, <3>1 DEF ReapOne
    <3> QED BY <1>8, <3>2
  <2> QED BY <2>1, <2>2
<1>9. CASE ReapDone
  BY <1>9 DEF ReapDone
<1>10. CASE WorkerDies
  <2>1. gen' \in [Places -> SUBSET Items] /\ side' \in [Places -> SUBSET Kids]
    <3>1. Leave(gen) \in [Places -> SUBSET Items] /\ Leave(side) \in [Places -> SUBSET Kids]
      BY LeaveType
    <3>2. gen' \in {gen, Leave(gen)} /\ side' \in {side, Leave(side)}
      BY <1>10 DEF WorkerDies
    <3> QED BY <3>1, <3>2
  <2>2. cut' \in SUBSET Items
    BY <1>10 DEF WorkerDies
  <2> QED BY <1>10, <2>1, <2>2 DEF WorkerDies
<1> QED BY <1>1, <1>2, <1>3, <1>4, <1>5, <1>6, <1>7, <1>8, <1>9, <1>10 DEF Recover

LEMMA TypeStep == TypeInv /\ [Next]_vars => TypeInv'
<1>1. TypeInv /\ UNCHANGED vars => TypeInv'
  BY DEF TypeInv, TypeOK, HandsInv, vars, files, job, breeding, history
<1> QED BY <1>1, BreederType, WorkerType, RecoverType DEF Next, Work

\* Genomes, sidecars and what each process knows of them stay well typed, and
\* worker and recovery act only on a genome they have.
THEOREM TypeCorrect == Spec => []TypeOK
<1>1. TypeInv => TypeOK
  BY DEF TypeInv
<1> QED BY <1>1, TypeInit, TypeStep, PTL DEF Spec

\* What the worker is about to drop is in the catalog already.
LineageInv ==
  /\ LineageKept
  /\ written \subseteq Kids
  /\ wk = "release" /\ at # None => mp4[cur] = "bred"
  /\ wk = "drop" => mp4[cur] = "bred"

\* Catalogued parents stay so, and no sidecar but that of cur leaves the files.
Keeps == /\ \A k \in Kids : mp4[k] = "bred" => mp4'[k] = "bred"
         /\ \A k \in Kids : (\E p \in Places : k \in side[p])
                            => mp4'[k] = "bred" \/ \E p \in Places : k \in side'[p]

LEMMA KeepsLineage ==
  ASSUME LineageKept, Keeps, written \subseteq Kids,
         \A k \in written' : k \in written \/ \E p \in Places : k \in side'[p]
  PROVE  LineageKept'
  BY DEF LineageKept, Keeps

LEMMA MoveKeeps ==
  ASSUME TypeOK, NEW x \in Kids, NEW p \in Places, NEW q \in Places,
         side' = Move(side, x, p, q), mp4' = mp4
  PROVE  Keeps
<1>1. side \in [Places -> SUBSET Kids]
  BY DEF TypeOK
<1>2. /\ x \in side'[q]
      /\ \A y : \A r \in Places : y \in side[r] /\ y # x => y \in side'[r]
  BY <1>1, MoveType
<1> QED BY <1>2 DEF Keeps

LEMMA BreederKeeps ==
  TypeInv /\ LineageInv /\ (\E b \in Breeders : Breeder(b) \/ BreederDies(b))
    => LineageInv'
<1> SUFFICES ASSUME TypeInv, LineageInv, NEW b \in Breeders,
                    Breeder(b) \/ BreederDies(b)
             PROVE  LineageInv'
  OBVIOUS
<1> USE DEF Step, files, job, history, LineageInv
<1>1. CASE WritePedigree(b)
  <2>1. kid[b] \in Kids
    BY <1>1 DEF WritePedigree, TypeInv, HandsInv
  <2>2. kid[b] \in side'["inbox"] /\ "inbox" \in Places
    BY <1>1 DEF WritePedigree, TypeInv, TypeOK, Places
  <2>3. Keeps
    BY <1>1 DEF WritePedigree, Keeps, TypeInv, TypeOK
  <2>4. \A k \in written' : k \in written \/ \E p \in Places : k \in side'[p]
    BY <1>1, <2>2 DEF WritePedigree
  <2>5. LineageKept'
    BY <2>3, <2>4, KeepsLineage
  <2> QED BY <1>1, <2>1, <2>5 DEF WritePedigree
<1>2. CASE ~WritePedigree(b)
  <2>1. UNCHANGED <<side, mp4, wk, job, written>>
    BY <1>2 DEF Breeder, BreederDies, Decide, Command, Barren, Land, PickTuple, WriteTuple
  <2> QED BY <2>1 DEF LineageKept
<1> QED BY <1>1, <1>2

LEMMA WorkerKeeps ==
  TypeInv /\ LineageInv /\ ((\E x \in Items : Pick(x)) \/ Process) => LineageInv'
<1> SUFFICES ASSUME TypeInv, LineageInv, (\E x \in Items : Pick(x)) \/ Process
             PROVE  LineageInv'
  OBVIOUS
<1>0. written \subseteq Kids /\ LineageKept
  BY DEF LineageInv
<1> SUFFICES Keeps /\ written' = written
             /\ (wk' = "release" /\ at' # None => mp4'[cur'] = "bred")
             /\ wk' # "drop"
  BY <1>0, KeepsLineage DEF LineageInv
<1> USE DEF Goto, Go, files, job, breeding, history, Keeps, TypeInv, TypeOK, Items
<1>1. ASSUME NEW x \in Items, Pick(x) PROVE Keeps /\ written' = written /\ wk' = "claim"
  BY <1>1 DEF Pick
<1>2. CASE Claim \/ WriteClaimed \/ Tax \/ Optimize \/ Render \/ Ingest \/ Adopt \/ Archive
           \/ Raise \/ Fail \/ Copy \/ Unlink
  BY <1>2 DEF Claim, WriteClaimed, Tax, Optimize, Render, Ingest, Adopt, Archive, Raise, Fail,
              Copy, Unlink
<1>3. CASE Take
  <2>1. CASE cur \in side["inbox"]
    <3>1. cur \in Kids /\ side' = Move(side, cur, "inbox", "job") /\ mp4' = mp4
      BY <1>3, <2>1 DEF Take, Places
    <3>2. Keeps
      BY <3>1, MoveKeeps DEF Places
    <3> QED BY <1>3, <3>2 DEF Take
  <2> QED BY <1>3, <2>1 DEF Take
<1>4. CASE Install
  BY <1>4 DEF Install
<1>5. CASE Describe
  BY <1>5 DEF Describe, HandsInv, Working
<1>6. CASE Release
  BY <1>6 DEF Release, LineageInv, HandsInv, Places
<1>7. CASE Park
  <2>1. /\ Locate(cur, "job", "inbox") \in {None, "inbox", "job"}
        /\ Locate(cur, "job", "inbox") # None => cur \in Kids
    BY LocateType
  <2>2. CASE Locate(cur, "job", "inbox") # None
    <3>1. Keeps
      BY <1>7, <2>1, <2>2, MoveKeeps DEF Park, Places
    <3> QED BY <1>7, <3>1 DEF Park
  <2> QED BY <1>7, <2>2 DEF Park
<1>8. CASE Close
  BY <1>8, LeaveType DEF Close
<1> QED BY <1>1, <1>2, <1>3, <1>4, <1>5, <1>6, <1>7, <1>8 DEF Process

LEMMA RecoverKeeps ==
  TypeInv /\ LineageInv /\ (Recover \/ WorkerDies) => LineageInv'
<1> SUFFICES ASSUME TypeInv, LineageInv, Recover \/ WorkerDies
             PROVE  LineageInv'
  OBVIOUS
<1>0. written \subseteq Kids /\ LineageKept
  BY DEF LineageInv
<1> SUFFICES Keeps /\ written' = written
             /\ (wk' = "drop" => mp4'[cur'] = "bred")
             /\ wk' # "release"
  BY <1>0, KeepsLineage DEF LineageInv
<1> USE DEF Goto, Go, files, job, breeding, history, Keeps, TypeInv, TypeOK, Items
<1>1. CASE Start \/ Supersede \/ Requeue \/ Glob \/ ReapDone
  BY <1>1 DEF Start, Supersede, Requeue, Glob, ReapDone
<1>2. CASE Settle
  <2>1. CASE side' = side
    BY <1>2, <2>1 DEF Settle
  <2>2. CASE side' # side
    <3>1. at # None /\ cur \in Kids /\ at \in Places
      BY <1>2, <2>2 DEF Settle, HandsInv, Places
    <3>2. \E q \in {"inbox", "quar"} : side' = Move(side, cur, at, q)
      BY <1>2, <2>2 DEF Settle
    <3>3. Keeps
      BY <1>2, <3>1, <3>2, MoveKeeps DEF Settle, Places
    <3> QED BY <1>2, <3>3 DEF Settle
  <2> QED BY <2>1, <2>2
<1>3. CASE Onto
  BY <1>3 DEF Onto, HandsInv, Working
<1>4. CASE DropSettled
  BY <1>4 DEF DropSettled, LineageInv, HandsInv, Places
<1>5. CASE Mark
  BY <1>5, LeaveType DEF Mark
<1>6. ASSUME NEW k \in Kids, ReapOne(k) PROVE Keeps /\ written' = written /\ wk' \notin {"drop", "release"}
  <2>1. CASE side' = side
    BY <1>6, <2>1 DEF ReapOne
  <2>2. CASE side' # side
    <3>1. \E q \in {"done", "quar"} : side' = Move(side, k, "inbox", q)
      BY <1>6, <2>2 DEF ReapOne
    <3>2. Keeps
      BY <1>6, <3>1, MoveKeeps DEF ReapOne, Places
    <3> QED BY <1>6, <2>2, <3>2 DEF ReapOne
  <2> QED BY <2>1, <2>2
<1>7. CASE WorkerDies
  BY <1>7, LeaveType DEF WorkerDies
<1> QED BY <1>1, <1>2, <1>3, <1>4, <1>5, <1>6, <1>7 DEF Recover

LEMMA LineageInit == Init => LineageInv
  BY DEF Init, LineageInv, LineageKept

LEMMA LineageStep == TypeInv /\ LineageInv /\ [Next]_vars => LineageInv'
<1>1. LineageInv /\ UNCHANGED vars => LineageInv'
  BY DEF LineageInv, LineageKept, vars, files, job, history
<1> QED BY <1>1, BreederKeeps, WorkerKeeps, RecoverKeeps DEF Next, Work

\* A written lineage is never lost: after every step of breeders, worker,
\* recovery and reap, and after every crash, it is in a file or in the catalog.
THEOREM LineageStays == Spec => []LineageKept
<1>1. LineageInv => LineageKept
  BY DEF LineageInv
<1> QED BY <1>1, LineageInit, LineageStep, TypeInit, TypeStep, PTL DEF Spec


-----------------------------------------------------------------------------
(* Low water.  Every idle run that has decided and has not yet filled the   *)
(* inbox is counted before its child is there: so the count cannot grow but *)
(* by a decision, which finds at most LowWater, and by nobody twice.        *)

Filling == {b \in Cron : br[b] \in {"mate", "tuple"}}

LowInv ==
  /\ \A b \in Breeders : br[b] = "tuple" => b \in Cron
  /\ Cardinality(gen["inbox"] \ extra) + Cardinality(Filling) <= LowWater + Cardinality(Cron)

LEMMA Finite ==
  ASSUME TypeInv
  PROVE  /\ IsFiniteSet(gen["inbox"]) /\ IsFiniteSet(gen["inbox"] \ extra) /\ IsFiniteSet(Filling)
         /\ Cardinality(gen["inbox"] \ extra) \in Nat /\ Cardinality(Filling) \in Nat
         /\ Cardinality(gen["inbox"]) \in Nat /\ Cardinality(Cron) \in Nat
<1>1. gen["inbox"] \subseteq Items /\ Filling \subseteq Cron
  BY DEF TypeInv, TypeOK, Places, Filling
<1>2. /\ IsFiniteSet(gen["inbox"]) /\ IsFiniteSet(gen["inbox"] \ extra) /\ IsFiniteSet(Filling)
  BY <1>1, BreedAssumption, FS_Subset
<1> QED BY <1>2, BreedAssumption, FS_CardinalityType

\* Neither the worker nor a crash adds to the inbox what is counted.
LEMMA FewerCounted ==
  ASSUME TypeInv, LowInv, gen'["inbox"] \ extra' \subseteq gen["inbox"] \ extra,
         Filling' \subseteq Filling, \A b \in Breeders : br'[b] = "tuple" => br[b] = "tuple"
  PROVE  LowInv'
<1>1. /\ Cardinality(gen'["inbox"] \ extra') <= Cardinality(gen["inbox"] \ extra)
      /\ IsFiniteSet(gen'["inbox"] \ extra')
  BY Finite, FS_Subset
<1>2. Cardinality(Filling') <= Cardinality(Filling) /\ IsFiniteSet(Filling')
  BY Finite, FS_Subset
<1>3. Cardinality(gen'["inbox"] \ extra') \in Nat /\ Cardinality(Filling') \in Nat
  BY <1>1, <1>2, FS_CardinalityType
<1> HIDE DEF Filling
<1> QED BY <1>1, <1>2, <1>3, Finite, BreedAssumption DEF LowInv

LEMMA BreederLow ==
  TypeInv /\ LowInv /\ (\E b \in Breeders : Breeder(b) \/ BreederDies(b)) => LowInv'
<1> SUFFICES ASSUME TypeInv, LowInv, NEW b \in Breeders, Breeder(b) \/ BreederDies(b)
             PROVE  LowInv'
  OBVIOUS
<1> USE DEF Step, files, job, history
<1>0. /\ br \in [Breeders -> {"idle", "mate", "pedigree", "tuple"}] /\ Cron \subseteq Breeders
      /\ gen \in [Places -> SUBSET Items] /\ "inbox" \in Places /\ LowWater \in Nat
  BY BreedAssumption DEF TypeInv, TypeOK, Breeders, Places
\* The inbox is at most at low water, and no more than Cron can be filling it.
<1>1. CASE Decide(b)
  <2>1. Cardinality(gen["inbox"] \ extra) <= Cardinality(gen["inbox"])
    BY Finite, FS_Subset
  <2>2. Filling' \subseteq Cron
    BY DEF Filling
  <2>3. Cardinality(Filling') <= Cardinality(Cron) /\ Cardinality(Filling') \in Nat
    BY <2>2, BreedAssumption, FS_Subset, FS_CardinalityType
  <2>4. \A c \in Breeders : br'[c] = "tuple" => c \in Cron
    BY <1>0, <1>1 DEF Decide, LowInv
  <2>5. gen' = gen /\ extra' = extra /\ Cardinality(gen["inbox"]) <= LowWater
    BY <1>1 DEF Decide
  <2> HIDE DEF Filling
  <2> QED BY <1>0, <2>1, <2>3, <2>4, <2>5, Finite DEF LowInv
<1>2. CASE Command(b)
  <2>1. b \notin Cron /\ br' = [br EXCEPT ![b] = "mate"] /\ gen' = gen /\ extra' = extra
    BY <1>2, BreedAssumption DEF Command
  <2>2. Filling' \subseteq Filling
    BY <1>0, <2>1 DEF Filling
  <2> QED BY <1>0, <2>1, <2>2, FewerCounted
<1>3. CASE Barren(b) \/ WritePedigree(b) \/ PickTuple(b) \/ BreederDies(b)
  <2>1. /\ gen' = gen /\ extra' = extra
        /\ \E to \in {"idle", "tuple"} : br' = [br EXCEPT ![b] = to] /\ (to = "tuple" => b \in Cron)
    BY <1>3 DEF Barren, WritePedigree, PickTuple, BreederDies
  <2>2. Filling' \subseteq Filling \/ PickTuple(b)
    BY <1>0, <1>3 DEF Filling, Barren, WritePedigree, BreederDies
  <2>3. PickTuple(b) => Filling' = Filling
    BY <1>0 DEF PickTuple, Filling
  <2>4. \A c \in Breeders : br'[c] = "tuple" => c \in Cron
    BY <1>0, <2>1 DEF LowInv
  <2>5. CASE PickTuple(b)
    BY <2>1, <2>3, <2>4, <2>5 DEF LowInv
  <2>6. CASE ~PickTuple(b)
    <3>1. \A c \in Breeders : br'[c] = "tuple" => br[c] = "tuple"
      BY <1>0, <1>3, <2>6 DEF Barren, WritePedigree, BreederDies
    <3> QED BY <2>1, <2>2, <2>6, <3>1, FewerCounted
  <2> QED BY <2>5, <2>6
\* What a filling run adds, it stops to be.
<1>4. ASSUME b \in Cron, NEW x, gen'["inbox"] = gen["inbox"] \cup {x}, extra' = extra,
             br[b] \in {"mate", "tuple"}, NEW to, to \notin {"mate", "tuple"},
             br' = [br EXCEPT ![b] = to]
      PROVE  LowInv'
  <2>1. Filling' = Filling \ {b} /\ b \in Filling
    BY <1>0, <1>4 DEF Filling
  <2>2. Cardinality(Filling') = Cardinality(Filling) - 1
    BY <2>1, Finite, FS_RemoveElement
  <2>3. gen'["inbox"] \ extra' \subseteq (gen["inbox"] \ extra) \cup {x}
    BY <1>4
  <2> DEFINE S == gen["inbox"] \ extra
  <2>a. IsFiniteSet(S) /\ Cardinality(S) \in Nat
    BY Finite
  <2> HIDE DEF S
  <2>b. /\ IsFiniteSet(S \cup {x})
        /\ Cardinality(S \cup {x}) = IF x \in S THEN Cardinality(S) ELSE Cardinality(S) + 1
    BY <2>a, FS_AddElement
  <2>4. /\ IsFiniteSet(S \cup {x}) /\ Cardinality(S \cup {x}) \in Nat
        /\ Cardinality(S \cup {x}) <= Cardinality(S) + 1
    BY <2>a, <2>b
  <2> USE DEF S
  <2>5. /\ Cardinality(gen'["inbox"] \ extra') <= Cardinality((gen["inbox"] \ extra) \cup {x})
        /\ Cardinality(gen'["inbox"] \ extra') \in Nat
    BY <2>3, <2>4, FS_Subset, FS_CardinalityType
  <2>6. \A c \in Breeders : br'[c] = "tuple" => c \in Cron
    BY <1>0, <1>4 DEF LowInv
  <2> HIDE DEF Filling
  <2> QED BY <1>0, <2>2, <2>4, <2>5, <2>6, Finite DEF LowInv
<1>5. CASE Land(b)
  <2>1. PICK k \in Kids : /\ gen' = [gen EXCEPT !["inbox"] = @ \cup {k}]
                          /\ extra' = IF b \in Hand THEN extra \cup {k} ELSE extra
    BY <1>5 DEF Land
  <2>2. br[b] = "mate" /\ br' = [br EXCEPT ![b] = "pedigree"]
    BY <1>5 DEF Land
  <2>3. gen'["inbox"] = gen["inbox"] \cup {k}
    BY <1>0, <2>1
  <2>4. CASE b \in Cron
    BY <1>4, <2>1, <2>2, <2>3, <2>4, BreedAssumption
  <2>5. CASE b \notin Cron
    <3>1. extra' = extra \cup {k}
      BY <2>1, <2>5 DEF Breeders
    <3>2. Filling' \subseteq Filling
      BY <1>0, <2>2, <2>5 DEF Filling
    <3>3. \A c \in Breeders : br'[c] = "tuple" => br[c] = "tuple"
      BY <1>0, <2>2
    <3> QED BY <2>3, <3>1, <3>2, <3>3, FewerCounted
  <2> QED BY <2>4, <2>5
<1>6. CASE WriteTuple(b)
  <2>1. /\ gen'["inbox"] = gen["inbox"] \cup {kid[b]} /\ extra' = extra
        /\ br[b] = "tuple" /\ br' = [br EXCEPT ![b] = "idle"]
    BY <1>0, <1>6 DEF WriteTuple
  <2> QED BY <1>4, <2>1 DEF LowInv
<1> QED BY <1>1, <1>2, <1>3, <1>5, <1>6 DEF Breeder

\* The worker takes genomes out of the inbox, and recovery puts back one that
\* is not counted.
LEMMA WorkLow ==
  TypeInv /\ LowInv /\ (Work \/ WorkerDies) => LowInv'
<1> SUFFICES ASSUME TypeInv, LowInv, Work \/ WorkerDies
             PROVE  LowInv'
  OBVIOUS
<1> USE DEF Go, Goto, files, job, breeding, history
<1>0. gen \in [Places -> SUBSET Items] /\ "inbox" \in Places
  BY DEF TypeInv, TypeOK, Places
<1>1. br' = br /\ extra \subseteq extra'
  BY DEF Work, Pick, Process, Recover, WorkerDies, Claim, Take, WriteClaimed, Tax, Optimize, Render,
     Install, Adopt, Describe, Release, Ingest, Archive, Raise, Fail, Copy, Unlink, Park,
     Close, Start, Supersede, Requeue, Settle, Onto, DropSettled, Mark, Glob, ReapOne, ReapDone
<1>2. gen'["inbox"] \subseteq gen["inbox"] \cup extra'
  <2>1. CASE Claim
    BY <1>0, <2>1 DEF Claim, Move, Places
  <2>2. CASE Archive
    BY <1>0, <2>2 DEF Archive, Move, Places
  <2>3. CASE Copy \/ Unlink
    BY <1>0, <2>3 DEF Copy, Unlink
  <2>4. CASE Close \/ Mark \/ WorkerDies
    BY <1>0, <2>4 DEF Close, Mark, WorkerDies, Leave, Places
  <2>5. CASE Requeue
    BY <1>0, <2>5 DEF Requeue
  <2>6. CASE ~(Claim \/ Archive \/ Copy \/ Unlink \/ Close \/ Mark \/ WorkerDies \/ Requeue)
    <3>1. gen' = gen
      BY <2>6 DEF Work, Pick, Process, Recover, Take, WriteClaimed, Tax, Optimize, Render,
         Install, Adopt, Describe, Release, Ingest, Raise, Fail, Park,
         Start, Supersede, Settle, Onto, DropSettled, Glob, ReapOne, ReapDone
    <3> QED BY <3>1
  <2> QED BY <2>1, <2>2, <2>3, <2>4, <2>5, <2>6
<1>3. gen'["inbox"] \ extra' \subseteq gen["inbox"] \ extra
  BY <1>1, <1>2
<1>4. Filling' = Filling
  BY <1>1 DEF Filling
<1> QED BY <1>1, <1>3, <1>4, FewerCounted

\* Idle runs that decide beside each other put at most one child each on top of
\* the low water mark, however many there are and whoever dies between the
\* decision and the child (evaluate_idle_breed).
THEOREM LowWaterStays == Spec => []LowWaterHolds
<1>1. Init => LowInv
  <2> SUFFICES ASSUME Init PROVE LowInv
    OBVIOUS
  <2>1. Filling = {} /\ gen["inbox"] \ extra = {}
    BY DEF Init, Filling, Breeders, Places
  <2>2. Cardinality({}) = 0
    BY FS_EmptySet
  <2>3. \A b \in Breeders : br[b] # "tuple"
    BY DEF Init
  <2>4. Cardinality(Cron) \in Nat
    BY BreedAssumption, FS_CardinalityType
  <2> HIDE DEF Filling
  <2> QED BY <2>1, <2>2, <2>3, <2>4, BreedAssumption DEF LowInv
<1>2. TypeInv /\ LowInv /\ [Next]_vars => LowInv'
  <2>1. LowInv /\ UNCHANGED vars => LowInv'
    BY DEF LowInv, Filling, vars, files, breeding, history
  <2> QED BY <2>1, BreederLow, WorkLow DEF Next
<1>3. TypeInv /\ LowInv => LowWaterHolds
  <2> SUFFICES ASSUME TypeInv, LowInv PROVE LowWaterHolds
    OBVIOUS
  <2> HIDE DEF Filling
  <2> QED BY Finite, BreedAssumption DEF LowInv, LowWaterHolds
<1> QED BY <1>1, <1>2, <1>3, TypeInit, TypeStep, PTL DEF Spec


-----------------------------------------------------------------------------
(* Where a written lineage is.  It is either settled or in the way of the    *)
(* process that will look for it: the worker, the recovery of its job or the *)
(* reap.                                                                     *)

LEMMA LeaveIs ==
  ASSUME NEW S, NEW f \in [Places -> SUBSET S]
  PROVE  \A r \in Places : Leave(f)[r] = IF r = "left" THEN f["left"] \cup f["job"]
                                         ELSE IF r = "job" THEN {} ELSE f[r]
  BY DEF Leave, Places

Early   == {"take", "claimed", "tax", "optimize", "render", "install"}
Claimed == Early \cup {"adopt", "describe", "release", "ingest", "archive"}
Failing == {"fail", "copy", "unlink", "park"}
NoJob   == \/ wk \in {"glob", "reap", "poll", "claim"} \/ todo # {}
           \/ wk = "down" /\ rec = "none"
Somewhere(x) == \E p \in Places : x \in gen[p]

\* A genome is never without a file, and the job has files of nothing but the
\* genome in hand.
GenesInv ==
  /\ gen["job"] \cup side["job"] \subseteq {cur}
  /\ NoJob => gen["job"] = {} /\ side["job"] = {}
  /\ wk \in {"glob", "reap", "poll"} \/ todo # {} => rec = "none"
  /\ todo # {} => wk \in {"reap", "onto", "drop"}
  /\ wk \in {"claim", "fail"} \cup (Claimed \ {"archive"}) => rec # "none"
  /\ wk = "claim" => cur \in gen["inbox"]
  /\ wk \in Claimed \cup {"copy", "unlink"} => cur \in gen["job"]
  /\ wk \in {"unlink", "park"} => cur \in gen["quar"]
  /\ wk = "park" => gen["job"] = {}
  /\ wk = "fail" => cur \in gen["job"] \cup gen["quar"]
  /\ wk \in {"boot", "settle"} \/ rec # "none"
       => cur \in gen["inbox"] \cup gen["job"] \cup gen["quar"]
  /\ wk = "settle" /\ rec = "ready" /\ cur \in gen["job"] => cur \in gen["inbox"]
  /\ \A k \in written : Somewhere(k)
  /\ \A b \in Breeders : br[b] = "pedigree" => Somewhere(kid[b])

\* A child that has its MP4 does not wait in the inbox.
MediaInv ==
  /\ \A k \in Kids : k \in gen["inbox"] => mp4[k] = "none"
  /\ cur \in Kids /\ wk \in Claimed \cup Failing => cur \notin gen["inbox"]
  /\ cur \in Kids /\ wk \in Early \cup {"claim"} => mp4[cur] = "none"
  /\ wk \in {"adopt", "describe"} => mp4[cur] # "none"
  /\ cur \in Kids /\ wk \in Failing => mp4[cur] = "none" \/ cur \in cut
  /\ wk = "settle" /\ rec = "none" => mp4[cur] # "none"
  /\ wk = "onto" => cur \notin gen["inbox"] /\ mp4[cur] # "none"

\* The sidecar is in the job, which will look there.
InJob(k) ==
  /\ k \in side["job"]
  /\ \/ wk \in Early \cup {"adopt", "copy", "unlink", "park"}
     \/ wk = "fail" /\ k \in gen["job"]
     \/ wk \in {"describe", "settle", "onto"} /\ at # None
     \/ wk \in {"down", "boot"} /\ rec # "none"

\* The sidecar is in the inbox, where the genome waits, the worker, the
\* recovery or the reap will look, or nobody does before the next start.
InInbox(k) ==
  /\ k \in side["inbox"]
  /\ \/ k \in gen["inbox"] \/ k \in late \/ k \in todo
     \/ wk \in Booting /\ todo = {}
     \/ k = cur /\ wk \in Looking
     \/ k = cur /\ wk = "fail" /\ k \in gen["job"]
     \/ k = cur /\ wk = "describe" /\ at # None

\* Parked, or left where it is, by a recovery that leaves the genome in the job.
Displaced(k) == k \in side["quar"] \cup side["job"] /\ k \in gen["job"] /\ wk \in Booting

Placed(k) == Settled(k) \/ Displaced(k) \/ InJob(k) \/ InInbox(k)
Known(k)  == mp4[k] \in {"none", "bred"} \/ k \in cut \/ InJob(k) \/ InInbox(k)
\* A genome that may yet become an MP4 has its sidecar near it.
Near(k) ==
  (\/ k \in gen["inbox"]
   \/ k = cur /\ wk \in Early \cup {"adopt"}
   \/ k = cur /\ rec = "ready" /\ k \in gen["job"] /\ mp4[k] = "none")
  => k \in side["inbox"] \/ InJob(k)

Found(k) == Placed(k) /\ Known(k) /\ Near(k)
FoundInv == \A k \in written : Found(k)

FindInv == GenesInv /\ MediaInv /\ FoundInv

LEMMA BreederFinds ==
  TypeInv /\ LineageInv /\ FindInv /\ (\E b \in Breeders : Breeder(b) \/ BreederDies(b)) => FindInv'
<1> SUFFICES ASSUME TypeInv, LineageInv, FindInv, NEW b \in Breeders,
                    Breeder(b) \/ BreederDies(b)
             PROVE  FindInv'
  OBVIOUS
<1> USE DEF Step, files, job, history
<1>0. /\ gen \in [Places -> SUBSET Items] /\ side \in [Places -> SUBSET Kids]
      /\ br \in [Breeders -> {"idle", "mate", "pedigree", "tuple"}]
      /\ kid \in [Breeders -> Items \cup {None}]
      /\ Places = {"inbox", "job", "left", "done", "quar"} /\ written \subseteq Kids
      /\ Kids \cap Tuples = {}
  BY BreedAssumption DEF TypeInv, TypeOK, Places, LineageInv
<1>1. UNCHANGED <<mp4, job, wk, cut>>
  BY DEF Breeder, BreederDies, Decide, Command, Barren, Land, WritePedigree, PickTuple, WriteTuple
\* A genome is added to the inbox, which is not the child in hand.
<1>2. ASSUME NEW x, gen' = [gen EXCEPT !["inbox"] = @ \cup {x}], UNCHANGED <<side, written, late>>,
             x \in Kids => mp4[x] = "none" /\ ~Somewhere(x) /\ x \notin written,
             \A c \in Breeders : br'[c] = "pedigree" =>
                (br[c] = "pedigree" /\ kid'[c] = kid[c]) \/ kid'[c] = x
      PROVE  FindInv'
  <2>1. /\ gen'["inbox"] = gen["inbox"] \cup {x}
        /\ \A p \in {"job", "left", "done", "quar"} : gen'[p] = gen[p]
    BY <1>0, <1>2
  <2>2. \A y : Somewhere(y) => Somewhere(y)'
    BY <1>0, <2>1 DEF Somewhere
  <2>3. Somewhere(x)'
    BY <1>0, <2>1 DEF Somewhere
  <2>4. GenesInv'
    BY <1>1, <1>2, <2>1, <2>2, <2>3 DEF FindInv, GenesInv, NoJob
  <2>5. wk \in Claimed \/ wk = "copy" \/ wk = "unlink" => Somewhere(cur)
    BY <1>0 DEF FindInv, GenesInv, Somewhere
  <2>6. wk \in Failing => Somewhere(cur)
    BY <1>0 DEF FindInv, GenesInv, Somewhere, Failing
  <2>7. wk = "onto" /\ x = cur => x \in Kids
    BY DEF TypeInv, HandsInv
  <2>8. MediaInv'
    BY <1>1, <1>2, <2>1, <2>5, <2>6, <2>7 DEF FindInv, MediaInv
  <2>9. FoundInv'
    BY <1>0, <1>1, <1>2, <2>1 DEF FindInv, FoundInv, Found, Placed, Known, Near, InJob, InInbox,
       Displaced, Settled, Apart
  <2> QED BY <2>4, <2>8, <2>9 DEF FindInv
<1>3. CASE Decide(b) \/ Command(b) \/ Barren(b) \/ PickTuple(b) \/ BreederDies(b)
  <2>1. /\ UNCHANGED <<gen, side, written, late>>
        /\ \A c \in Breeders : br'[c] = "pedigree" => br[c] = "pedigree" /\ kid'[c] = kid[c]
    BY <1>0, <1>3 DEF Decide, Command, Barren, PickTuple, BreederDies
  <2> QED BY <1>1, <2>1 DEF FindInv, GenesInv, NoJob, Somewhere, MediaInv, FoundInv, Found, Placed,
          Known, Near, InJob, InInbox, Displaced, Settled, Apart
<1>4. CASE Land(b)
  <2>1. PICK k \in Kids : /\ \A p \in Places : k \notin gen[p]
                          /\ k \notin written /\ mp4[k] = "none"
                          /\ kid' = [kid EXCEPT ![b] = k]
                          /\ gen' = [gen EXCEPT !["inbox"] = @ \cup {k}]
    BY <1>4 DEF Land
  <2>2. UNCHANGED <<side, written, late>> /\ br' = [br EXCEPT ![b] = "pedigree"]
    BY <1>4 DEF Land
  <2>3. \A c \in Breeders : br'[c] = "pedigree" => (br[c] = "pedigree" /\ kid'[c] = kid[c]) \/ kid'[c] = k
    BY <1>0, <2>1, <2>2
  <2> QED BY <1>2, <2>1, <2>2, <2>3 DEF Somewhere
<1>5. CASE WriteTuple(b)
  <2>1. /\ kid[b] \in Tuples /\ UNCHANGED <<side, written, late>>
        /\ gen' = [gen EXCEPT !["inbox"] = @ \cup {kid[b]}]
        /\ br' = [br EXCEPT ![b] = "idle"] /\ kid' = [kid EXCEPT ![b] = None]
    BY <1>5 DEF WriteTuple, TypeInv, HandsInv
  <2>2. \A c \in Breeders : br'[c] = "pedigree" => br[c] = "pedigree" /\ kid'[c] = kid[c]
    BY <1>0, <2>1
  <2>3. kid[b] \notin Kids
    BY <1>0, <2>1
  <2> QED BY <1>2, <2>1, <2>2, <2>3
\* The lineage is written where its reader will look, or nobody will yet.
<1>6. CASE WritePedigree(b)
  <2>0. PICK k : k = kid[b]
    OBVIOUS
  <2>1. /\ k \in Kids /\ Somewhere(k) /\ UNCHANGED gen
        /\ side' = [side EXCEPT !["inbox"] = @ \cup {k}] /\ written' = written \cup {k}
        /\ late' = IF WillLook(k) THEN late ELSE late \cup {k}
        /\ br' = [br EXCEPT ![b] = "idle"] /\ kid' = [kid EXCEPT ![b] = None]
    BY <1>6, <2>0 DEF WritePedigree, TypeInv, HandsInv, FindInv, GenesInv
  <2>2. /\ side'["inbox"] = side["inbox"] \cup {k}
        /\ \A p \in {"job", "left", "done", "quar"} : side'[p] = side[p]
    BY <1>0, <2>1
  <2>3. \A c \in Breeders : br'[c] = "pedigree" => br[c] = "pedigree" /\ kid'[c] = kid[c]
    BY <1>0, <2>1
  <2>4. GenesInv'
    BY <1>1, <2>1, <2>2, <2>3 DEF FindInv, GenesInv, NoJob, Somewhere
  <2>5. MediaInv'
    BY <1>1, <2>1 DEF FindInv, MediaInv
  <2>6. k \in side'["inbox"] /\ InInbox(k)'
    BY <1>1, <2>1, <2>2 DEF InInbox, WillLook
  <2>7. Found(k)'
    BY <2>6 DEF Found, Placed, Known, Near
  <2>8. ASSUME NEW j \in written PROVE Found(j)'
    <3>1. Found(j)
      BY DEF FindInv, FoundInv
    <3>2. late \subseteq late'
      BY <2>1
    <3> QED BY <1>1, <2>1, <2>2, <3>1, <3>2 DEF Found, Placed, Known, Near, InJob, InInbox,
            Displaced, Settled, Apart
  <2>9. FoundInv'
    BY <2>1, <2>7, <2>8 DEF FoundInv
  <2> QED BY <2>4, <2>5, <2>9 DEF FindInv
<1> QED BY <1>3, <1>4, <1>5, <1>6 DEF Breeder

\* What a step of the worker, or of its recovery, does to the lineage of
\* another child: nothing.
OthersKept ==
  \A k \in written \ {cur} :
    /\ \A p \in {"left", "done", "quar"} : /\ k \in gen[p] => k \in gen'[p]
                                           /\ k \in side[p] => k \in side'[p]
    /\ k \in side["inbox"] => k \in side'["inbox"]
    /\ k \in gen["inbox"] <=> k \in gen'["inbox"]
    /\ mp4'[k] = mp4[k]

LEMMA OthersFound ==
  ASSUME FindInv, OthersKept, UNCHANGED <<late, written>>, cut \subseteq cut', written \subseteq Kids,
         wk \in Booting /\ todo = {} => wk' \in Booting /\ todo' = {}, todo \subseteq todo' \cup {cur},
         cur' = cur \/ cur' = None \/ (wk' = "claim" /\ rec' = "inbox"),
         NEW k \in written, k # cur
  PROVE  Found(k)'
<1>1. Found(k) /\ k \notin gen["job"] /\ k \notin side["job"]
  BY DEF FindInv, FoundInv, GenesInv
<1>2. ~InJob(k) /\ ~Displaced(k)
  BY <1>1 DEF InJob, Displaced
<1>3. Settled(k) => Settled(k)'
  BY DEF OthersKept, Settled, Apart
<1>4. InInbox(k) => InInbox(k)'
  BY DEF OthersKept, InInbox
<1>5. Near(k)'
  <2>1. k # None
    BY BreedAssumption DEF Items
  <2> QED BY <1>1, <1>2, <2>1 DEF OthersKept, Found, Near, Early
<1> QED BY <1>1, <1>2, <1>3, <1>4, <1>5 DEF Found, Placed, Known, OthersKept

\* It is enough to look at the genome in hand.
LEMMA HandFinds ==
  ASSUME FindInv, OthersKept, UNCHANGED <<late, written>>, cut \subseteq cut', written \subseteq Kids,
         wk \in Booting /\ todo = {} => wk' \in Booting /\ todo' = {}, todo \subseteq todo' \cup {cur},
         cur' = cur \/ cur' = None \/ (wk' = "claim" /\ rec' = "inbox"),
         GenesInv', MediaInv', \A k \in written : k = cur => Found(k)'
  PROVE  FindInv'
  BY OthersFound DEF FindInv, FoundInv

LEMMA PickFinds ==
  ASSUME TypeInv, LineageInv, FindInv, NEW x \in Items, Pick(x)
  PROVE  FindInv'
<1> USE DEF Goto, files, breeding, history
<1>1. /\ wk = "poll" /\ wk' = "claim" /\ x \in gen["inbox"] /\ cur' = x /\ rec' = "inbox" /\ at' = None
      /\ UNCHANGED <<gen, side, mp4, todo, br, kid, written, late, cut, extra>>
  BY DEF Pick
<1>2. gen["job"] = {} /\ side["job"] = {} /\ rec = "none" /\ todo = {}
  BY <1>1 DEF FindInv, GenesInv, NoJob
<1>3. GenesInv'
  BY <1>1, <1>2 DEF FindInv, GenesInv, NoJob, Somewhere, Claimed, Early
<1>4. MediaInv'
  BY <1>1 DEF FindInv, MediaInv, Claimed, Early, Failing
<1>5. ASSUME NEW k \in written PROVE Found(k)'
  <2>1. Found(k)
    BY DEF FindInv, FoundInv
  <2> QED BY <1>1, <1>2, <2>1 DEF Found, Placed, Known, Near, InJob, InInbox, Displaced, Settled,
          Apart, Early, Looking, Booting
<1> QED BY <1>1, <1>3, <1>4, <1>5 DEF FindInv, FoundInv

LEMMA WorkerFinds ==
  TypeInv /\ LineageInv /\ FindInv /\ Process => FindInv'
<1> SUFFICES ASSUME TypeInv, LineageInv, FindInv, Process
             PROVE  FindInv'
  OBVIOUS
<1> USE DEF Goto, Go, files, job, breeding, history
<1>0. /\ gen \in [Places -> SUBSET Items] /\ side \in [Places -> SUBSET Kids]
      /\ mp4 \in [Items -> {"none", "media", "bare", "bred"}]
      /\ Places = {"inbox", "job", "left", "done", "quar"} /\ written \subseteq Kids
      /\ at \in {None, "inbox", "job"} /\ None \notin {"inbox", "job"} /\ None \notin Items
      /\ (at # None => cur \in Kids) /\ Kids \subseteq Items
  BY BreedAssumption DEF TypeInv, TypeOK, HandsInv, Places, LineageInv, Items
<1>a. GenesInv /\ MediaInv /\ \A k \in written : Found(k)
  BY DEF FindInv, FoundInv
\* The genome is in the job.
<1>1. CASE Claim
  <2>1. wk = "claim" /\ cur \in Items /\ UNCHANGED <<side, mp4, rec, cur, at, todo, br, kid, history>>
    BY <1>1 DEF Claim, TypeInv, HandsInv, Working
  <2>2. /\ gen'["inbox"] = gen["inbox"] \ {cur} /\ gen'["job"] = gen["job"] \cup {cur}
        /\ \A p \in {"left", "done", "quar"} : gen'[p] = gen[p]
    <3>1. gen' = Move(gen, cur, "inbox", "job")
      BY <1>1 DEF Claim
    <3> QED BY <1>0, <2>1, <3>1 DEF Move
  <2>3. wk' = "take"
    BY <1>1 DEF Claim
  <2>4. \A y : Somewhere(y) => Somewhere(y)'
    BY <1>0, <2>2 DEF Somewhere
  <2>5. GenesInv'
    BY <1>a, <2>1, <2>2, <2>3, <2>4 DEF GenesInv, NoJob, Claimed, Early
  <2>6. MediaInv'
    BY <1>a, <2>1, <2>2, <2>3 DEF MediaInv, Claimed, Early, Failing
  <2>7. OthersKept
    BY <1>0, <2>1, <2>2 DEF OthersKept
  <2>8. ASSUME NEW k \in written, k = cur PROVE Found(k)'
    <3>1. Found(k) /\ gen["job"] = {} /\ side["job"] = {}
      BY <1>a, <2>1, <2>8 DEF GenesInv, NoJob
    <3>2. mp4'[k] = "none" /\ k \in gen["inbox"]
      BY <1>0, <1>a, <2>1, <2>8, <3>1 DEF GenesInv, MediaInv, Early
    <3>3. k \in side'["inbox"]
      BY <2>1, <3>1, <3>2 DEF Found, Near, InJob
    <3>4. InInbox(k)'
      BY <2>1, <2>3, <2>8, <3>3 DEF InInbox, Looking
    <3> QED BY <3>2, <3>3, <3>4 DEF Found, Placed, Known, Near
  <2> QED BY <1>0, <1>a, <2>1, <2>5, <2>6, <2>7, <2>8, HandFinds DEF Booting
<1>2. CASE Take
  <2>1. /\ wk = "take" /\ wk' = "claimed" /\ UNCHANGED <<gen, mp4, rec, cur, at, todo, br, kid, history>>
        /\ side' = IF cur \in side["inbox"] THEN Move(side, cur, "inbox", "job") ELSE side
    BY <1>0, <1>2 DEF Take
  <2>2. /\ side'["inbox"] = side["inbox"] \ {cur}
        /\ side'["job"] = IF cur \in side["inbox"] THEN side["job"] \cup {cur} ELSE side["job"]
        /\ \A p \in {"left", "done", "quar"} : side'[p] = side[p]
    <3>1. CASE cur \in side["inbox"]
      BY <1>0, <2>1, <3>1 DEF Move
    <3> QED BY <1>0, <2>1, <3>1
  <2>5. GenesInv'
    BY <1>0, <1>a, <2>1, <2>2 DEF GenesInv, NoJob, Claimed, Early, Somewhere
  <2>6. MediaInv'
    BY <1>0, <1>a, <2>1, <2>2 DEF MediaInv, GenesInv, Claimed, Early, Failing, LineageInv
  <2>7. OthersKept
    BY <1>0, <2>1, <2>2 DEF OthersKept
  <2>8. ASSUME NEW k \in written, k = cur PROVE Found(k)'
    BY <1>0, <1>a, <2>1, <2>8, <2>2 DEF Found, Placed, Known, Near, InJob, InInbox, Displaced, Settled,
       Apart, Early, Looking, Booting, Claimed, Failing, GenesInv, MediaInv, NoJob
  <2> QED BY <1>0, <2>1, <2>5, <2>6, <2>7, <2>8, HandFinds DEF Booting
<1>3. CASE WriteClaimed
  <2>1. /\ wk = "claimed" /\ wk' = "tax" /\ rec' = "job"
        /\ UNCHANGED <<gen, side, mp4, cur, at, todo, br, kid, history>>
    BY <1>0, <1>3 DEF WriteClaimed
  <2>5. GenesInv'
    BY <1>0, <1>a, <2>1 DEF GenesInv, NoJob, Claimed, Early, Somewhere
  <2>6. MediaInv'
    BY <1>0, <1>a, <2>1 DEF MediaInv, GenesInv, Claimed, Early, Failing, LineageInv
  <2>7. OthersKept
    BY <1>0, <2>1 DEF OthersKept
  <2>8. ASSUME NEW k \in written, k = cur PROVE Found(k)'
    BY <1>0, <1>a, <2>1, <2>8 DEF Found, Placed, Known, Near, InJob, InInbox, Displaced, Settled,
       Apart, Early, Looking, Booting, Claimed, Failing, GenesInv, MediaInv, NoJob
  <2> QED BY <1>0, <2>1, <2>5, <2>6, <2>7, <2>8, HandFinds DEF Booting
<1>4. CASE Tax \/ Optimize \/ Render
  <2>1. /\ wk \in {"tax", "optimize", "render"} /\ wk' \in {"optimize", "copy", "render", "install"}
        /\ wk' = "copy" => wk = "tax"
        /\ rec' = (IF wk = "optimize" THEN "ready" ELSE rec)
        /\ UNCHANGED <<gen, side, mp4, cur, at, todo, br, kid, history>>
    BY <1>0, <1>4 DEF Tax, Optimize, Render
  <2>5. GenesInv'
    BY <1>0, <1>a, <2>1 DEF GenesInv, NoJob, Claimed, Early, Somewhere
  <2>6. MediaInv'
    BY <1>0, <1>a, <2>1 DEF MediaInv, GenesInv, Claimed, Early, Failing, LineageInv
  <2>7. OthersKept
    BY <1>0, <2>1 DEF OthersKept
  <2>8. ASSUME NEW k \in written, k = cur PROVE Found(k)'
    <3>1. Found(k) /\ mp4[k] = "none" /\ ~Displaced(k)
      BY <1>0, <1>a, <2>1, <2>8 DEF MediaInv, Early, Displaced, Booting
    <3>2. /\ InJob(k) => InJob(k)'
          /\ InInbox(k) => InInbox(k)'
      BY <2>1, <2>8 DEF InJob, InInbox, Early, Looking, Booting
    <3>3. Settled(k) => Settled(k)'
      BY <2>1 DEF Settled, Apart
    <3>4. Near(k)'
      BY <2>1, <2>8, <3>1, <3>2 DEF Found, Near, Early
    <3> QED BY <2>1, <3>1, <3>2, <3>3, <3>4 DEF Found, Placed, Known
  <2> QED BY <1>0, <2>1, <2>5, <2>6, <2>7, <2>8, HandFinds DEF Booting
<1>5. CASE Install
  <2>1. /\ wk = "install" /\ wk' = "adopt" /\ cur \in Items
        /\ mp4' = [mp4 EXCEPT ![cur] = IF @ = "none" THEN "media" ELSE @]
        /\ UNCHANGED <<gen, side, rec, cur, at, todo, br, kid, history>>
    BY <1>0, <1>5 DEF Install, TypeInv, HandsInv, Working
  <2>5. GenesInv'
    BY <1>0, <1>a, <2>1 DEF GenesInv, NoJob, Claimed, Early, Somewhere
  <2>6. MediaInv'
    BY <1>0, <1>a, <2>1 DEF MediaInv, GenesInv, Claimed, Early, Failing, LineageInv
  <2>7. OthersKept
    BY <1>0, <2>1 DEF OthersKept
  <2>8. ASSUME NEW k \in written, k = cur PROVE Found(k)'
    <3>1. Found(k) /\ mp4[k] = "none" /\ ~Displaced(k)
      BY <1>0, <1>a, <2>1, <2>8 DEF MediaInv, Early, Displaced, Booting
    <3>2. /\ InJob(k) => InJob(k)'
          /\ InInbox(k) => InInbox(k)'
      BY <2>1, <2>8 DEF InJob, InInbox, Early, Looking, Booting
    <3>3. Settled(k) => Settled(k)'
      BY <1>0, <2>1, <3>1 DEF Settled, Apart
    <3>4. k \in side["inbox"] \/ InJob(k)
      BY <2>1, <2>8, <3>1 DEF Found, Near, Early
    <3>5. InJob(k)' \/ InInbox(k)'
      BY <2>1, <2>8, <3>2, <3>4 DEF InInbox, Looking
    <3>6. Near(k)'
      BY <2>1, <3>2, <3>4 DEF Near
    <3> QED BY <3>5, <3>6 DEF Found, Placed, Known
  <2> QED BY <1>0, <2>1, <2>5, <2>6, <2>7, <2>8, HandFinds DEF Booting
<1>6. CASE Adopt
  <2>1. /\ wk = "adopt" /\ wk' = "describe"
        /\ at' = IF cur \in side["job"] THEN "job" ELSE IF cur \in side["inbox"] THEN "inbox" ELSE None
        /\ UNCHANGED <<gen, side, mp4, rec, cur, todo, br, kid, history>>
    BY <1>0, <1>6 DEF Adopt, Locate
  <2>5. GenesInv'
    BY <1>0, <1>a, <2>1 DEF GenesInv, NoJob, Claimed, Early, Somewhere
  <2>6. MediaInv'
    BY <1>0, <1>a, <2>1 DEF MediaInv, GenesInv, Claimed, Early, Failing, LineageInv
  <2>7. OthersKept
    BY <1>0, <2>1 DEF OthersKept
  <2>8. ASSUME NEW k \in written, k = cur PROVE Found(k)'
    BY <1>0, <1>a, <2>1, <2>8 DEF Found, Placed, Known, Near, InJob, InInbox, Displaced, Settled,
       Apart, Early, Looking, Booting, Claimed, Failing, GenesInv, MediaInv, NoJob
  <2> QED BY <1>0, <2>1, <2>5, <2>6, <2>7, <2>8, HandFinds DEF Booting
<1>7. CASE Describe
  <2>1. /\ wk = "describe" /\ wk' = "release" /\ cur \in Items
        /\ mp4' = [mp4 EXCEPT ![cur] = IF at # None \/ @ = "bred" THEN "bred" ELSE "bare"]
        /\ UNCHANGED <<gen, side, rec, cur, at, todo, br, kid, history>>
    BY <1>0, <1>7 DEF Describe, TypeInv, HandsInv, Working
  <2>5. GenesInv'
    BY <1>0, <1>a, <2>1 DEF GenesInv, NoJob, Claimed, Early, Somewhere
  <2>6. MediaInv'
    BY <1>0, <1>a, <2>1 DEF MediaInv, GenesInv, Claimed, Early, Failing, LineageInv
  <2>7. OthersKept
    BY <1>0, <2>1 DEF OthersKept
  <2>8. ASSUME NEW k \in written, k = cur PROVE Found(k)'
    BY <1>0, <1>a, <2>1, <2>8 DEF Found, Placed, Known, Near, InJob, InInbox, Displaced, Settled,
       Apart, Early, Looking, Booting, Claimed, Failing, GenesInv, MediaInv, NoJob
  <2> QED BY <1>0, <2>1, <2>5, <2>6, <2>7, <2>8, HandFinds DEF Booting
<1>8. CASE Release
  <2>1. /\ wk = "release" /\ wk' = "ingest" /\ (at # None => mp4[cur] = "bred")
        /\ side' = (IF at = None THEN side ELSE [side EXCEPT ![at] = @ \ {cur}])
        /\ UNCHANGED <<gen, mp4, rec, cur, at, todo, br, kid, history>>
    BY <1>0, <1>8 DEF Release, LineageInv
  <2>2. /\ \A p \in {"left", "done", "quar"} : side'[p] = side[p]
        /\ side'["job"] \subseteq side["job"]
        /\ \A y : y # cur => (y \in side["inbox"] <=> y \in side'["inbox"])
        /\ at = None => side' = side
    BY <1>0, <2>1
  <2>5. GenesInv'
    BY <1>0, <1>a, <2>1, <2>2 DEF GenesInv, NoJob, Claimed, Early, Somewhere
  <2>6. MediaInv'
    BY <1>0, <1>a, <2>1, <2>2 DEF MediaInv, GenesInv, Claimed, Early, Failing, LineageInv
  <2>7. OthersKept
    BY <1>0, <2>1, <2>2 DEF OthersKept
  <2>8. ASSUME NEW k \in written, k = cur PROVE Found(k)'
    BY <1>0, <1>a, <2>1, <2>8, <2>2 DEF Found, Placed, Known, Near, InJob, InInbox, Displaced, Settled,
       Apart, Early, Looking, Booting, Claimed, Failing, GenesInv, MediaInv, NoJob
  <2> QED BY <1>0, <2>1, <2>5, <2>6, <2>7, <2>8, HandFinds DEF Booting
<1>9. CASE Ingest
  <2>1. /\ wk = "ingest" /\ wk' = "archive" /\ rec' = "none"
        /\ UNCHANGED <<gen, side, mp4, cur, at, todo, br, kid, history>>
    BY <1>0, <1>9 DEF Ingest
  <2>5. GenesInv'
    BY <1>0, <1>a, <2>1 DEF GenesInv, NoJob, Claimed, Early, Somewhere
  <2>6. MediaInv'
    BY <1>0, <1>a, <2>1 DEF MediaInv, GenesInv, Claimed, Early, Failing, LineageInv
  <2>7. OthersKept
    BY <1>0, <2>1 DEF OthersKept
  <2>8. ASSUME NEW k \in written, k = cur PROVE Found(k)'
    BY <1>0, <1>a, <2>1, <2>8 DEF Found, Placed, Known, Near, InJob, InInbox, Displaced, Settled,
       Apart, Early, Looking, Booting, Claimed, Failing, GenesInv, MediaInv, NoJob
  <2> QED BY <1>0, <2>1, <2>5, <2>6, <2>7, <2>8, HandFinds DEF Booting
<1>10. CASE Archive
  <2>1. /\ wk = "archive" /\ wk' = "close" /\ cur \in Items /\ rec = "none"
        /\ gen' = Move(gen, cur, "job", "done")
        /\ UNCHANGED <<side, mp4, rec, cur, at, todo, br, kid, history>>
    BY <1>0, <1>10 DEF Archive, TypeInv, HandsInv, Working
  <2>2. /\ gen'["job"] = gen["job"] \ {cur} /\ gen'["done"] = gen["done"] \cup {cur}
        /\ \A p \in {"inbox", "left", "quar"} : gen'[p] = gen[p]
    BY <1>0, <2>1 DEF Move
  <2>5. GenesInv'
    BY <1>0, <1>a, <2>1, <2>2 DEF GenesInv, NoJob, Claimed, Early, Somewhere
  <2>6. MediaInv'
    BY <1>0, <1>a, <2>1, <2>2 DEF MediaInv, GenesInv, Claimed, Early, Failing, LineageInv
  <2>7. OthersKept
    BY <1>0, <2>1, <2>2 DEF OthersKept
  <2>8. ASSUME NEW k \in written, k = cur PROVE Found(k)'
    BY <1>0, <1>a, <2>1, <2>8, <2>2 DEF Found, Placed, Known, Near, InJob, InInbox, Displaced, Settled,
       Apart, Early, Looking, Booting, Claimed, Failing, GenesInv, MediaInv, NoJob
  <2> QED BY <1>0, <2>1, <2>5, <2>6, <2>7, <2>8, HandFinds DEF Booting
<1>11. CASE Raise
  <2>1. /\ wk \in {"tax", "optimize", "render", "install", "describe"} /\ wk' = "fail"
        /\ cut' = (IF wk = "describe" THEN cut \cup {cur} ELSE cut)
        /\ UNCHANGED <<gen, side, mp4, rec, cur, at, todo, br, kid, written, late, extra>>
    BY <1>0, <1>11 DEF Raise
  <2>5. GenesInv'
    BY <1>0, <1>a, <2>1 DEF GenesInv, NoJob, Claimed, Early, Somewhere
  <2>6. MediaInv'
    BY <1>0, <1>a, <2>1 DEF MediaInv, GenesInv, Claimed, Early, Failing, LineageInv
  <2>7. OthersKept
    BY <1>0, <2>1 DEF OthersKept
  <2>8. ASSUME NEW k \in written, k = cur PROVE Found(k)'
    <3>1. /\ Found(k) /\ k \in Kids /\ k \in gen["job"] /\ k \in gen'["job"] /\ ~Displaced(k)
          /\ wk # "describe" => mp4[k] = "none"
      BY <1>0, <1>a, <2>1, <2>8 DEF GenesInv, MediaInv, Claimed, Early, Displaced, Booting
    <3>2. /\ InJob(k) => InJob(k)'
          /\ InInbox(k) => InInbox(k)'
      BY <2>1, <2>8, <3>1 DEF InJob, InInbox, Early, Looking, Booting
    <3>3. Settled(k) => Settled(k)'
      BY <2>1 DEF Settled, Apart
    <3>4. Known(k)'
      BY <2>1, <2>8, <3>1 DEF Known
    <3>5. Near(k)'
      BY <1>a, <2>1, <2>8, <3>1, <3>2 DEF Found, Near, Early, MediaInv
    <3> QED BY <3>1, <3>2, <3>3, <3>4, <3>5 DEF Found, Placed
  <2> QED BY <1>0, <2>1, <2>5, <2>6, <2>7, <2>8, HandFinds DEF Booting
<1>12. CASE Fail
  <2>1. /\ wk = "fail" /\ wk' = (IF cur \in gen["job"] THEN "copy" ELSE "close") /\ rec' = "none"
        /\ UNCHANGED <<gen, side, mp4, cur, at, todo, br, kid, history>>
    BY <1>0, <1>12 DEF Fail
  <2>5. GenesInv'
    BY <1>0, <1>a, <2>1 DEF GenesInv, NoJob, Claimed, Early, Somewhere
  <2>6. MediaInv'
    BY <1>0, <1>a, <2>1 DEF MediaInv, GenesInv, Claimed, Early, Failing, LineageInv
  <2>7. OthersKept
    BY <1>0, <2>1 DEF OthersKept
  <2>8. ASSUME NEW k \in written, k = cur PROVE Found(k)'
    BY <1>0, <1>a, <2>1, <2>8 DEF Found, Placed, Known, Near, InJob, InInbox, Displaced, Settled,
       Apart, Early, Looking, Booting, Claimed, Failing, GenesInv, MediaInv, NoJob
  <2> QED BY <1>0, <2>1, <2>5, <2>6, <2>7, <2>8, HandFinds DEF Booting
<1>13. CASE Copy
  <2>1. /\ wk = "copy" /\ wk' = "unlink" /\ gen' = [gen EXCEPT !["quar"] = @ \cup {cur}]
        /\ UNCHANGED <<side, mp4, rec, cur, at, todo, br, kid, history>>
    BY <1>0, <1>13 DEF Copy
  <2>5. GenesInv'
    BY <1>0, <1>a, <2>1 DEF GenesInv, NoJob, Claimed, Early, Somewhere
  <2>6. MediaInv'
    BY <1>0, <1>a, <2>1 DEF MediaInv, GenesInv, Claimed, Early, Failing, LineageInv
  <2>7. OthersKept
    BY <1>0, <2>1 DEF OthersKept
  <2>8. ASSUME NEW k \in written, k = cur PROVE Found(k)'
    BY <1>0, <1>a, <2>1, <2>8 DEF Found, Placed, Known, Near, InJob, InInbox, Displaced, Settled,
       Apart, Early, Looking, Booting, Claimed, Failing, GenesInv, MediaInv, NoJob
  <2> QED BY <1>0, <2>1, <2>5, <2>6, <2>7, <2>8, HandFinds DEF Booting
<1>14. CASE Unlink
  <2>1. /\ wk = "unlink" /\ wk' = "park" /\ gen' = [gen EXCEPT !["job"] = @ \ {cur}]
        /\ UNCHANGED <<side, mp4, rec, cur, at, todo, br, kid, history>>
    BY <1>0, <1>14 DEF Unlink
  <2>5. GenesInv'
    BY <1>0, <1>a, <2>1 DEF GenesInv, NoJob, Claimed, Early, Somewhere
  <2>6. MediaInv'
    BY <1>0, <1>a, <2>1 DEF MediaInv, GenesInv, Claimed, Early, Failing, LineageInv
  <2>7. OthersKept
    BY <1>0, <2>1 DEF OthersKept
  <2>8. ASSUME NEW k \in written, k = cur PROVE Found(k)'
    BY <1>0, <1>a, <2>1, <2>8 DEF Found, Placed, Known, Near, InJob, InInbox, Displaced, Settled,
       Apart, Early, Looking, Booting, Claimed, Failing, GenesInv, MediaInv, NoJob
  <2> QED BY <1>0, <2>1, <2>5, <2>6, <2>7, <2>8, HandFinds DEF Booting
<1>15. CASE Park
  <2>1. /\ wk = "park" /\ wk' = (IF rec = "none" THEN "close" ELSE "fail")
        /\ side' = IF cur \in side["job"] THEN Move(side, cur, "job", "quar")
                   ELSE IF cur \in side["inbox"] THEN Move(side, cur, "inbox", "quar") ELSE side
        /\ UNCHANGED <<gen, mp4, rec, cur, at, todo, br, kid, history>>
    BY <1>0, <1>15 DEF Park, Locate
  <2>2. /\ side'["job"] = side["job"] \ {cur}
        /\ \A p \in {"inbox", "left", "done", "quar"} : \A y : y # cur => (y \in side'[p] <=> y \in side[p])
        /\ side["quar"] \subseteq side'["quar"] /\ side'["left"] = side["left"] /\ side'["done"] = side["done"]
        /\ cur \in side["job"] \cup side["inbox"] => cur \in side'["quar"]
    <3>1. CASE cur \in side["job"]
      BY <1>0, <2>1, <3>1 DEF Move
    <3>2. CASE cur \notin side["job"] /\ cur \in side["inbox"]
      BY <1>0, <2>1, <3>2 DEF Move
    <3> QED BY <1>0, <2>1, <3>1, <3>2
  <2>5. GenesInv'
    BY <1>0, <1>a, <2>1, <2>2 DEF GenesInv, NoJob, Claimed, Early, Somewhere
  <2>6. MediaInv'
    BY <1>0, <1>a, <2>1, <2>2 DEF MediaInv, GenesInv, Claimed, Early, Failing, LineageInv
  <2>7. OthersKept
    BY <1>0, <2>1, <2>2 DEF OthersKept
  <2>8. ASSUME NEW k \in written, k = cur PROVE Found(k)'
    BY <1>0, <1>a, <2>1, <2>8, <2>2 DEF Found, Placed, Known, Near, InJob, InInbox, Displaced, Settled,
       Apart, Early, Looking, Booting, Claimed, Failing, GenesInv, MediaInv, NoJob
  <2> QED BY <1>0, <2>1, <2>5, <2>6, <2>7, <2>8, HandFinds DEF Booting
<1>16. CASE Close
  <2>1. /\ wk = "close" /\ wk' = "poll" /\ rec = "none" /\ cur' = None /\ at' = None
        /\ gen' = Leave(gen) /\ side' = Leave(side)
        /\ UNCHANGED <<mp4, rec, todo, br, kid, history>>
    BY <1>0, <1>16 DEF Close, TypeInv, HandsInv
  <2>2. /\ gen'["job"] = {} /\ gen'["left"] = gen["left"] \cup gen["job"]
        /\ side'["job"] = {} /\ side'["left"] = side["left"] \cup side["job"]
        /\ \A p \in {"inbox", "done", "quar"} : gen'[p] = gen[p] /\ side'[p] = side[p]
    BY <1>0, <2>1, LeaveIs
  <2>5. GenesInv'
    BY <1>0, <1>a, <2>1, <2>2 DEF GenesInv, NoJob, Claimed, Early, Somewhere
  <2>6. MediaInv'
    BY <1>0, <1>a, <2>1, <2>2 DEF MediaInv, GenesInv, Claimed, Early, Failing, LineageInv
  <2>7. OthersKept
    BY <1>0, <2>1, <2>2 DEF OthersKept
  <2>8. ASSUME NEW k \in written, k = cur PROVE Found(k)'
    BY <1>0, <1>a, <2>1, <2>8, <2>2 DEF Found, Placed, Known, Near, InJob, InInbox, Displaced, Settled,
       Apart, Early, Looking, Booting, Claimed, Failing, GenesInv, MediaInv, NoJob
  <2> QED BY <1>0, <2>1, <2>5, <2>6, <2>7, <2>8, HandFinds DEF Booting
<1> QED BY <1>1, <1>2, <1>3, <1>4, <1>5, <1>6, <1>7, <1>8, <1>9, <1>10, <1>11, <1>12, <1>13, <1>14, <1>15, <1>16 DEF Process


LEMMA RecoverFinds ==
  TypeInv /\ LineageInv /\ FindInv /\ Recover => FindInv'
<1> SUFFICES ASSUME TypeInv, LineageInv, FindInv, Recover
             PROVE  FindInv'
  OBVIOUS
<1> USE DEF Goto, Go, files, job, breeding, history
<1>0. /\ gen \in [Places -> SUBSET Items] /\ side \in [Places -> SUBSET Kids]
      /\ mp4 \in [Items -> {"none", "media", "bare", "bred"}]
      /\ Places = {"inbox", "job", "left", "done", "quar"} /\ written \subseteq Kids
      /\ at \in {None, "inbox", "job"} /\ None \notin {"inbox", "job"} /\ None \notin Items
      /\ (at # None => cur \in Kids) /\ Kids \subseteq Items /\ todo \subseteq Kids
      /\ rec \in {"none", "inbox", "job", "ready"}
  BY BreedAssumption DEF TypeInv, TypeOK, HandsInv, Places, LineageInv, Items
<1>a. GenesInv /\ MediaInv /\ \A k \in written : Found(k)
  BY DEF FindInv, FoundInv
<1>1. CASE Start
  <2>1. /\ wk = "down" /\ wk' = (IF rec = "none" THEN "glob" ELSE "boot") /\ todo = {}
        /\ UNCHANGED <<gen, side, mp4, rec, cur, at, todo, br, kid, history>>
    BY <1>a, <1>1 DEF Start, GenesInv
  <2>2. GenesInv'
    BY <1>a, <2>1 DEF GenesInv, NoJob, Claimed, Early, Somewhere
  <2>3. MediaInv'
    BY <1>a, <2>1 DEF MediaInv, Claimed, Early, Failing
  <2>4. ASSUME NEW k \in written PROVE Found(k)'
    <3>1. Found(k) /\ (rec = "none" => side["job"] = {} /\ gen["job"] = {})
      BY <1>a, <2>1 DEF GenesInv, NoJob
    <3>2. InJob(k) => InJob(k)'
      BY <2>1, <3>1 DEF InJob, Early
    <3>3. InInbox(k) => InInbox(k)'
      BY <2>1 DEF InInbox, Booting
    <3> QED BY <2>1, <3>1, <3>2, <3>3 DEF Found, Placed, Known, Near, Displaced, Settled, Apart,
            Early, Booting
  <2> QED BY <2>1, <2>2, <2>3, <2>4 DEF FindInv, FoundInv
<1>2. CASE Supersede
  <2>1. /\ wk = "boot" /\ wk' = "settle" /\ mp4[cur] # "none" /\ rec # "none" /\ rec' = "none"
        /\ at' = Locate(cur, Home, Away) /\ todo = {}
        /\ UNCHANGED <<gen, side, mp4, cur, todo, br, kid, history>>
    BY <1>a, <1>2 DEF Supersede, GenesInv, TypeInv, HandsInv
  <2>2. GenesInv'
    BY <1>a, <2>1 DEF GenesInv, NoJob, Claimed, Early, Somewhere
  <2>3. MediaInv'
    BY <1>a, <2>1 DEF MediaInv, Claimed, Early, Failing
  <2>4. ASSUME NEW k \in written PROVE Found(k)'
    <3>1. Found(k) /\ (k \in side["job"] => k = cur)
      BY <1>a DEF GenesInv
    <3>2. InJob(k) => InJob(k)'
      <4>1. cur \in side["job"] => at' # None
        BY <1>0, <2>1 DEF Locate, Home, Away
      <4> QED BY <2>1, <3>1, <4>1 DEF InJob
    <3>3. InInbox(k) => InInbox(k)'
      BY <2>1 DEF InInbox, Booting
    <3> QED BY <2>1, <3>1, <3>2, <3>3 DEF Found, Placed, Known, Near, Displaced, Settled, Apart,
            Early, Booting
  <2> QED BY <2>1, <2>2, <2>3, <2>4 DEF FindInv, FoundInv
<1>3. CASE Requeue
  <2>1. /\ wk = "boot" /\ wk' = "settle" /\ mp4[cur] = "none" /\ rec # "none" /\ cur \in Items
        /\ at' = Locate(cur, Home, Away) /\ todo = {}
        /\ UNCHANGED <<side, mp4, rec, cur, todo, br, kid, written, late, cut>>
    BY <1>a, <1>3 DEF Requeue, GenesInv, TypeInv, HandsInv, Working
  <2>2. /\ \A p \in {"job", "left", "done", "quar"} : gen'[p] = gen[p]
        /\ gen'["inbox"] = IF rec = "ready" /\ cur \in gen["job"] THEN gen["inbox"] \cup {cur}
                                                                ELSE gen["inbox"]
    BY <1>0, <1>3 DEF Requeue
  <2>3. GenesInv'
    <3>1. \A x : Somewhere(x) => Somewhere(x)'
      BY <1>0, <2>2 DEF Somewhere
    <3> QED BY <1>a, <2>1, <2>2, <3>1 DEF GenesInv, NoJob, Claimed, Early
  <2>4. MediaInv'
    BY <1>a, <2>1, <2>2 DEF MediaInv, Claimed, Early, Failing
  <2>5. ASSUME NEW k \in written PROVE Found(k)'
    <3>1. Found(k) /\ (k \in side["job"] => k = cur)
      BY <1>a DEF GenesInv
    <3>2. InJob(k) => InJob(k)'
      <4>1. cur \in side["job"] => at' # None
        BY <1>0, <2>1 DEF Locate, Home, Away
      <4> QED BY <2>1, <3>1, <4>1 DEF InJob
    <3>3. InInbox(k) => InInbox(k)'
      BY <2>1 DEF InInbox, Booting
    <3>4. Settled(k) => Settled(k)'
      BY <2>1, <2>2 DEF Settled, Apart
    <3>5. Near(k)'
      BY <2>1, <2>2, <3>1, <3>2 DEF Found, Near, Early
    <3> QED BY <2>1, <2>2, <3>1, <3>2, <3>3, <3>4, <3>5 DEF Found, Placed, Known, Displaced, Booting
  <2> QED BY <2>1, <2>3, <2>4, <2>5 DEF FindInv, FoundInv
\* The sidecar is put with the genome, or the catalog is written next.
<1>4. CASE Settle
  <2>1. /\ wk = "settle" /\ todo = {} /\ wk' \in {"onto", "mark"}
        /\ wk' = "onto" <=> at # None /\ cur \notin gen["inbox"] /\ mp4[cur] # "none"
        /\ UNCHANGED <<gen, mp4, rec, cur, at, todo, br, kid, history>>
    BY <1>a, <1>4 DEF Settle, GenesInv
  <2>2. CASE wk' = "onto" \/ at = None
    <3>1. side' = side
      BY <1>4, <2>2 DEF Settle
    <3>2. GenesInv'
      BY <1>a, <2>1, <3>1 DEF GenesInv, NoJob, Claimed, Early, Somewhere
    <3>3. MediaInv'
      BY <1>a, <2>1 DEF MediaInv, Claimed, Early, Failing
    <3>4. ASSUME NEW k \in written PROVE Found(k)'
      <4>1. Found(k)
        BY <1>a
      <4>2. InJob(k) => InJob(k)'
        BY <2>1, <2>2, <3>1 DEF InJob, Early
      <4>3. InInbox(k) => InInbox(k)'
        BY <2>1, <3>1 DEF InInbox, Booting
      <4> QED BY <2>1, <3>1, <4>1, <4>2, <4>3 DEF Found, Placed, Known, Near, Displaced, Settled,
              Apart, Early, Booting
    <3> QED BY <2>1, <3>2, <3>3, <3>4 DEF FindInv, FoundInv
  <2>3. CASE wk' = "mark" /\ at # None /\ ~(cur \notin gen["inbox"] /\ KeptTogether)
    <3> DEFINE q == IF cur \in gen["inbox"] THEN "inbox" ELSE "quar"
    <3>1. side' = Move(side, cur, at, q)
      BY <1>4, <2>1, <2>3 DEF Settle
    <3>2. /\ cur \in side'[q] /\ side'["job"] \subseteq side["job"]
          /\ \A p \in Places : \A y : y # cur => (y \in side'[p] <=> y \in side[p])
          /\ side["quar"] \subseteq side'["quar"]
          /\ side'["left"] = side["left"] /\ side'["done"] = side["done"]
      <4>1. at \in {"inbox", "job"} /\ q \in {"inbox", "quar"}
        BY <1>0, <2>3
      <4> HIDE DEF q
      <4> QED BY <1>0, <3>1, <4>1 DEF Move
    <3>3. GenesInv'
      BY <1>a, <2>1, <2>3, <3>2 DEF GenesInv, NoJob, Claimed, Early, Somewhere
    <3>4. MediaInv'
      BY <1>a, <2>1, <2>3 DEF MediaInv, Claimed, Early, Failing
    <3>5. OthersKept
      BY <1>0, <2>1, <3>2 DEF OthersKept
    <3>6. ASSUME NEW k \in written, k = cur PROVE Found(k)'
      <4>1. Found(k) /\ k \in gen["inbox"] \cup gen["job"] \cup gen["quar"]
        BY <1>a, <2>1, <3>6 DEF GenesInv
      <4>2. CASE cur \in gen["inbox"]
        BY <2>1, <3>2, <3>6, <4>2 DEF Found, Placed, Known, Near, InInbox
      <4>3. CASE cur \notin gen["inbox"]
        <5>1. mp4'[k] = "none" /\ k \in side'["quar"] /\ k \notin gen'["inbox"]
          BY <1>0, <2>1, <2>3, <3>2, <3>6, <4>3
        <5>2. k \in gen'["job"] \/ k \in gen'["quar"]
          BY <2>1, <3>6, <4>1, <4>3
        <5>3. Placed(k)'
          BY <2>3, <5>1, <5>2 DEF Placed, Settled, Displaced, Booting
        <5>4. ~(rec' = "ready" /\ k \in gen'["job"])
          BY <1>a, <2>1, <3>6, <4>3 DEF GenesInv
        <5> QED BY <2>3, <5>1, <5>3, <5>4 DEF Found, Known, Near, Early
      <4> QED BY <4>2, <4>3
    <3> QED BY <1>0, <2>1, <3>3, <3>4, <3>5, <3>6, HandFinds DEF Booting
  \* Genome and sidecar stay in the job directory.
  <2>4. CASE wk' = "mark" /\ at # None /\ cur \notin gen["inbox"] /\ KeptTogether
    <3>1. side' = side /\ rec # "inbox" /\ cur \in gen["job"] /\ mp4[cur] = "none"
      BY <1>4, <2>1, <2>4 DEF Settle, KeptTogether
    <3>2. GenesInv'
      BY <1>a, <2>1, <2>4, <3>1 DEF GenesInv, NoJob, Claimed, Early, Somewhere
    <3>3. MediaInv'
      BY <1>a, <2>1, <2>4 DEF MediaInv, Claimed, Early, Failing
    <3>4. OthersKept
      BY <2>1, <3>1 DEF OthersKept
    <3>5. ASSUME NEW k \in written, k = cur PROVE Found(k)'
      <4>1. Found(k) /\ ~(rec = "ready" /\ k \in gen["job"])
        BY <1>a, <2>1, <2>4, <3>5 DEF GenesInv
      <4>2. InJob(k) => Displaced(k)'
        BY <2>1, <2>4, <3>1, <3>5 DEF InJob, Displaced, Booting
      <4>3. InInbox(k) => InInbox(k)'
        BY <2>1, <2>4, <3>1 DEF InInbox, Booting
      <4>4. Settled(k) \/ Displaced(k) => Settled(k)' \/ Displaced(k)'
        BY <2>1, <2>4, <3>1 DEF Settled, Apart, Displaced, Booting
      <4>5. Near(k)'
        BY <2>1, <2>4, <3>5, <4>1 DEF Near, Early
      <4> QED BY <2>1, <3>1, <3>5, <4>1, <4>2, <4>3, <4>4, <4>5 DEF Found, Placed, Known
    <3> QED BY <1>0, <2>1, <2>4, <3>2, <3>3, <3>4, <3>5, HandFinds DEF Booting
  <2> QED BY <2>1, <2>2, <2>3, <2>4
<1>5. CASE Onto
  <2>1. /\ wk = "onto" /\ wk' = "drop" /\ mp4' = [mp4 EXCEPT ![cur] = "bred"] /\ cur \in Kids
        /\ UNCHANGED <<gen, side, rec, cur, at, todo, br, kid, history>>
    BY <1>5 DEF Onto, TypeInv, HandsInv
  <2>2. mp4'[cur] = "bred" /\ \A k \in Kids : k # cur => mp4'[k] = mp4[k]
    BY <1>0, <2>1
  <2>3. GenesInv'
    BY <1>a, <2>1 DEF GenesInv, NoJob, Claimed, Early, Somewhere
  <2>4. MediaInv'
    BY <1>a, <2>1, <2>2 DEF MediaInv, Claimed, Early, Failing
  <2>5. OthersKept
    BY <1>0, <2>1, <2>2 DEF OthersKept
  <2>6. ASSUME NEW k \in written, k = cur PROVE Found(k)'
    <3>1. k \notin gen'["inbox"]
      BY <1>a, <2>1, <2>6 DEF MediaInv
    <3> QED BY <2>1, <2>2, <2>6, <3>1 DEF Found, Placed, Settled, Known, Near, Early
  <2> QED BY <1>0, <2>1, <2>3, <2>4, <2>5, <2>6, HandFinds DEF Booting
<1>6. CASE DropSettled
  <2>1. /\ wk = "drop" /\ wk' = (IF todo = {} THEN "mark" ELSE "reap") /\ mp4[cur] = "bred"
        /\ side' = [side EXCEPT ![at] = @ \ {cur}] /\ todo' = todo \ {cur}
        /\ at \in {"inbox", "job"} /\ cur \in Kids
        /\ UNCHANGED <<gen, mp4, rec, cur, at, br, kid, history>>
    BY <1>0, <1>6 DEF DropSettled, TypeInv, HandsInv, LineageInv
  <2>2. /\ side'["job"] \subseteq side["job"]
        /\ \A p \in Places : \A y : y # cur => (y \in side'[p] <=> y \in side[p])
    BY <1>0, <2>1
  <2>3. GenesInv'
    BY <1>a, <2>1, <2>2 DEF GenesInv, NoJob, Claimed, Early, Somewhere
  <2>4. MediaInv'
    BY <1>a, <2>1 DEF MediaInv, Claimed, Early, Failing
  <2>5. OthersKept
    BY <1>0, <2>1, <2>2 DEF OthersKept
  <2>6. ASSUME NEW k \in written, k = cur PROVE Found(k)'
    <3>1. k \notin gen'["inbox"]
      BY <1>a, <2>1, <2>6 DEF MediaInv
    <3> QED BY <2>1, <2>6, <3>1 DEF Found, Placed, Settled, Known, Near, Early
  <2> QED BY <1>0, <2>1, <2>3, <2>4, <2>5, <2>6, HandFinds DEF Booting
<1>7. CASE Mark
  <2>1. /\ wk = "mark" /\ wk' = "glob" /\ todo = {} /\ rec' = "none" /\ cur' = None /\ at' = None
        /\ gen' = Leave(gen) /\ side' = Leave(side)
        /\ UNCHANGED <<mp4, todo, br, kid, history>>
    BY <1>a, <1>7 DEF Mark, GenesInv
  <2>2. /\ gen'["job"] = {} /\ gen'["left"] = gen["left"] \cup gen["job"]
        /\ side'["job"] = {} /\ side'["left"] = side["left"] \cup side["job"]
        /\ \A p \in {"inbox", "done", "quar"} : gen'[p] = gen[p] /\ side'[p] = side[p]
    BY <1>0, <2>1, LeaveIs
  <2>3. GenesInv'
    <3>1. \A x : Somewhere(x) => Somewhere(x)'
      BY <1>0, <2>2 DEF Somewhere
    <3> QED BY <1>a, <2>1, <2>2, <3>1 DEF GenesInv, NoJob, Claimed, Early
  <2>4. MediaInv'
    BY <1>a, <2>1, <2>2 DEF MediaInv, Claimed, Early, Failing
  <2>5. ASSUME NEW k \in written PROVE Found(k)'
    <3>1. Found(k) /\ ~InJob(k) /\ k # None
      BY <1>0, <1>a, <2>1 DEF InJob, Early
    <3>2. InInbox(k) => InInbox(k)'
      BY <2>1, <2>2 DEF InInbox, Booting
    <3>3. Settled(k) \/ Displaced(k) => Settled(k)'
      BY <2>1, <2>2 DEF Settled, Apart, Displaced
    <3>4. Near(k)'
      BY <2>1, <2>2, <3>1 DEF Found, Near
    <3> QED BY <2>1, <3>1, <3>2, <3>3, <3>4 DEF Found, Placed, Known
  <2> QED BY <2>1, <2>3, <2>4, <2>5 DEF FindInv, FoundInv
<1>8. CASE Glob
  <2>1. /\ wk = "glob" /\ wk' = "reap" /\ rec = "none" /\ todo' = side["inbox"] /\ late' = {}
        /\ gen["job"] = {} /\ side["job"] = {}
        /\ UNCHANGED <<gen, side, mp4, rec, cur, at, br, kid, written, cut>>
    BY <1>a, <1>8 DEF Glob, GenesInv, NoJob
  <2>2. GenesInv'
    BY <1>a, <2>1 DEF GenesInv, NoJob, Claimed, Early, Somewhere
  <2>3. MediaInv'
    BY <1>a, <2>1 DEF MediaInv, Claimed, Early, Failing
  <2>4. ASSUME NEW k \in written PROVE Found(k)'
    <3>1. Found(k) /\ ~InJob(k) /\ ~Displaced(k)
      BY <1>a, <2>1 DEF InJob, Displaced
    <3>2. InInbox(k) => InInbox(k)'
      BY <2>1 DEF InInbox
    <3> QED BY <2>1, <3>1, <3>2 DEF Found, Placed, Known, Near, Settled, Apart, Early
  <2> QED BY <2>1, <2>2, <2>3, <2>4 DEF FindInv, FoundInv
<1>9. CASE ReapDone
  <2>1. /\ wk = "reap" /\ wk' = "poll" /\ rec = "none" /\ todo = {}
        /\ gen["job"] = {} /\ side["job"] = {}
        /\ UNCHANGED <<gen, side, mp4, rec, cur, at, todo, br, kid, history>>
    BY <1>a, <1>9 DEF ReapDone, GenesInv, NoJob
  <2>2. GenesInv'
    BY <1>a, <2>1 DEF GenesInv, NoJob, Claimed, Early, Somewhere
  <2>3. MediaInv'
    BY <1>a, <2>1 DEF MediaInv, Claimed, Early, Failing
  <2>4. ASSUME NEW k \in written PROVE Found(k)'
    <3>1. Found(k) /\ ~InJob(k) /\ ~Displaced(k)
      BY <1>a, <2>1 DEF InJob, Displaced
    <3>2. InInbox(k) => InInbox(k)'
      BY <2>1 DEF InInbox, Booting, Looking
    <3> QED BY <2>1, <3>1, <3>2 DEF Found, Placed, Known, Near, Settled, Apart, Early
  <2> QED BY <2>1, <2>2, <2>3, <2>4 DEF FindInv, FoundInv
\* A sidecar that the reap moves goes where its genome is.
<1>10. ASSUME NEW k \in Kids, ReapOne(k) PROVE FindInv'
  <2>1. /\ wk = "reap" /\ rec = "none" /\ k \in todo /\ gen["job"] = {} /\ side["job"] = {}
        /\ UNCHANGED <<gen, mp4, rec, br, kid, history>>
    BY <1>a, <1>10 DEF ReapOne, GenesInv, NoJob
  <2>2. ASSUME NEW j \in written PROVE Found(j) /\ ~InJob(j) /\ ~Displaced(j)
    BY <1>a, <2>1 DEF InJob, Displaced
  <2>3. CASE k \notin gen["inbox"] /\ mp4[k] # "none"
    <3>1. wk' = "onto" /\ cur' = k /\ at' = "inbox" /\ UNCHANGED <<side, todo>>
      BY <1>10, <2>3 DEF ReapOne
    <3>2. GenesInv'
      BY <1>a, <2>1, <3>1 DEF GenesInv, NoJob, Claimed, Early, Somewhere
    <3>3. MediaInv'
      BY <1>a, <2>1, <2>3, <3>1 DEF MediaInv, Claimed, Early, Failing
    <3>4. ASSUME NEW j \in written PROVE Found(j)'
      <4>1. Found(j) /\ ~InJob(j) /\ ~Displaced(j)
        BY <2>2
      <4>2. InInbox(j) => InInbox(j)'
        BY <2>1, <3>1 DEF InInbox, Booting, Looking
      <4> QED BY <2>1, <3>1, <4>1, <4>2 DEF Found, Placed, Known, Near, Settled, Apart, Early
    <3> QED BY <2>1, <3>2, <3>3, <3>4 DEF FindInv, FoundInv
  <2>4. CASE k \in gen["inbox"] \/ mp4[k] = "none"
    <3> DEFINE q == IF k \in gen["done"] \ gen["quar"] THEN "done" ELSE "quar"
    <3>1. /\ wk' = "reap" /\ todo' = todo \ {k} /\ UNCHANGED <<cur, at>>
          /\ side' = IF k \in gen["inbox"] THEN side ELSE Move(side, k, "inbox", q)
      BY <1>10, <2>4 DEF ReapOne
    <3>2. /\ side'["job"] = side["job"] /\ side'["left"] = side["left"]
          /\ side["done"] \subseteq side'["done"] /\ side["quar"] \subseteq side'["quar"]
          /\ \A y : y # k => (y \in side'["inbox"] <=> y \in side["inbox"])
          /\ k \in gen["inbox"] => side' = side
          /\ k \notin gen["inbox"] => k \in side'[q]
      BY <1>0, <3>1 DEF Move
    <3>3. GenesInv'
      BY <1>a, <2>1, <3>1, <3>2 DEF GenesInv, NoJob, Claimed, Early, Somewhere
    <3>4. MediaInv'
      BY <1>a, <2>1, <3>1 DEF MediaInv, Claimed, Early, Failing
    <3>5. ASSUME NEW j \in written PROVE Found(j)'
      <4>1. Found(j) /\ ~InJob(j) /\ ~Displaced(j)
        BY <2>2
      <4>2. Settled(j) => Settled(j)'
        BY <2>1, <3>2 DEF Settled, Apart
      <4>3. CASE j # k \/ j \in gen["inbox"]
        <5>1. InInbox(j) => InInbox(j)'
          BY <2>1, <3>1, <3>2, <4>3 DEF InInbox, Booting, Looking
        <5>2. Near(j)'
          BY <2>1, <3>1, <3>2, <4>1, <4>3 DEF Found, Near, Early
        <5> QED BY <2>1, <4>1, <4>2, <5>1, <5>2 DEF Found, Placed, Known
      <4>4. CASE j = k /\ j \notin gen["inbox"]
        <5>1. mp4'[j] = "none" /\ j \in side'[q]
          BY <2>1, <2>4, <3>2, <4>4
        <5>2. \E p \in {"left", "done", "quar"} : j \in gen[p]
          BY <1>0, <1>a, <2>1, <4>4 DEF GenesInv, Somewhere
        <5>3. Settled(j)'
          BY <2>1, <4>4, <5>1, <5>2 DEF Settled, Apart
        <5> QED BY <2>1, <3>1, <4>4, <5>1, <5>3 DEF Found, Placed, Known, Near, Early
      <4> QED BY <4>3, <4>4
    <3> QED BY <2>1, <3>3, <3>4, <3>5 DEF FindInv, FoundInv
  <2> QED BY <1>0, <2>3, <2>4
<1> QED BY <1>1, <1>2, <1>3, <1>4, <1>5, <1>6, <1>7, <1>8, <1>9, <1>10 DEF Recover

\* What the dead worker had in hand is for its next start, or, once its record
\* is final, for nobody.
LEMMA DeathFinds ==
  TypeInv /\ LineageInv /\ FindInv /\ WorkerDies => FindInv'
<1> SUFFICES ASSUME TypeInv, LineageInv, FindInv, WorkerDies
             PROVE  FindInv'
  OBVIOUS
<1>0. /\ gen \in [Places -> SUBSET Items] /\ side \in [Places -> SUBSET Kids]
      /\ Places = {"inbox", "job", "left", "done", "quar"} /\ written \subseteq Kids
      /\ None \notin Items /\ (at # None => cur \in Kids) /\ Kids \subseteq Items
  BY BreedAssumption DEF TypeInv, TypeOK, HandsInv, Places, LineageInv, Items
<1>a. GenesInv /\ MediaInv /\ \A k \in written : Found(k)
  BY DEF FindInv, FoundInv
<1>1. /\ wk # "down" /\ wk' = "down" /\ todo' = {} /\ UNCHANGED <<mp4, rec, br, kid, written, late>>
      /\ cut' = IF rec = "none" /\ todo = {} /\ wk \in {"settle", "onto", "park"}
                THEN cut \cup {cur} ELSE cut
  BY DEF WorkerDies, breeding
<1>2. CASE rec # "none"
  <2>1. UNCHANGED <<gen, side, cur>> /\ cut' = cut /\ todo = {}
    BY <1>a, <1>1, <1>2 DEF WorkerDies, GenesInv
  <2>2. GenesInv'
    BY <1>a, <1>1, <1>2, <2>1 DEF GenesInv, NoJob, Claimed, Early, Somewhere
  <2>3. MediaInv'
    BY <1>a, <1>1, <2>1 DEF MediaInv, Claimed, Early, Failing
  <2>4. ASSUME NEW k \in written PROVE Found(k)'
    <3>1. Found(k)
      BY <1>a
    <3>2. InJob(k) => InJob(k)'
      BY <1>1, <1>2, <2>1 DEF InJob
    <3>3. InInbox(k) => InInbox(k)'
      BY <1>1, <2>1 DEF InInbox, Booting
    <3>4. /\ Settled(k) => Settled(k)'
          /\ Displaced(k) => Displaced(k)'
      BY <1>1, <2>1 DEF Settled, Apart, Displaced, Booting
    <3>5. Near(k)'
      BY <1>1, <2>1, <3>1, <3>2 DEF Found, Near, Early
    <3> QED BY <1>1, <2>1, <3>1, <3>2, <3>3, <3>4, <3>5 DEF Found, Placed, Known
  <2> QED BY <1>1, <2>2, <2>3, <2>4 DEF FindInv, FoundInv
<1>3. CASE rec = "none"
  <2>1. gen' = Leave(gen) /\ side' = Leave(side) /\ cur' = None
    BY <1>3 DEF WorkerDies
  <2>2. /\ gen'["job"] = {} /\ gen'["left"] = gen["left"] \cup gen["job"]
        /\ side'["job"] = {} /\ side'["left"] = side["left"] \cup side["job"]
        /\ \A p \in {"inbox", "done", "quar"} : gen'[p] = gen[p] /\ side'[p] = side[p]
    BY <1>0, <2>1, LeaveIs
  <2>3. GenesInv'
    <3>1. \A x : Somewhere(x) => Somewhere(x)'
      BY <1>0, <2>2 DEF Somewhere
    <3> QED BY <1>a, <1>1, <1>3, <2>1, <2>2, <3>1 DEF GenesInv, NoJob, Claimed, Early
  <2>4. MediaInv'
    BY <1>a, <1>1, <2>2 DEF MediaInv, Claimed, Early, Failing
  <2>5. ASSUME NEW k \in written PROVE Found(k)'
    <3>1. Found(k) /\ k # None
      BY <1>0, <1>a
    <3>2. InInbox(k) => InInbox(k)'
      BY <1>1, <2>2 DEF InInbox, Booting
    <3>3. Settled(k) \/ Displaced(k) => Settled(k)'
      BY <1>1, <2>2 DEF Settled, Apart, Displaced
    \* The job is over: its genome is still there, or it was being settled.
    <3>4. ASSUME InJob(k)
          PROVE  Settled(k)' /\ (mp4'[k] = "none" \/ k \in cut') /\ k \notin gen["inbox"]
      <4>1. k = cur /\ k \in Kids /\ k \in side'["left"]
        BY <1>0, <1>a, <2>2, <3>4 DEF GenesInv, InJob
      <4>2. \/ wk \in {"copy", "unlink"}
            \/ wk = "park"
            \/ wk \in {"settle", "onto"} /\ todo = {}
        <5>1. wk \notin {"boot", "describe", "fail"} \cup Early \cup {"adopt"}
          BY <1>a, <1>3 DEF GenesInv, Claimed, Early, TypeInv, HandsInv
        <5>2. todo = {}
          BY <1>a, <3>4 DEF GenesInv, NoJob, InJob
        <5> QED BY <1>1, <3>4, <5>1, <5>2 DEF InJob
      <4>3. CASE wk \in {"copy", "unlink"}
        <5>1. k \in gen'["left"]
          BY <1>a, <2>2, <4>1, <4>3 DEF GenesInv
        <5>2. Settled(k)'
          BY <4>1, <5>1 DEF Settled
        <5> QED BY <1>a, <1>1, <4>1, <4>3, <5>2 DEF MediaInv, Failing
      <4>4. CASE wk \in {"park", "settle", "onto"} /\ todo = {}
        <5>1. k \in cut'
          BY <1>1, <1>3, <4>1, <4>4
        <5>2. Settled(k)'
          BY <4>1, <5>1 DEF Settled, Apart
        <5>3. k \notin gen["inbox"]
          BY <1>a, <1>3, <4>1, <4>4 DEF MediaInv, Failing
        <5> QED BY <5>1, <5>2, <5>3
      <4> QED BY <1>a, <4>2, <4>3, <4>4 DEF GenesInv
    <3>5. Near(k)'
      BY <1>1, <1>3, <2>1, <2>2, <3>1, <3>4 DEF Found, Near, Early
    <3> QED BY <1>1, <3>1, <3>2, <3>3, <3>4, <3>5 DEF Found, Placed, Known
  <2> QED BY <1>1, <2>3, <2>4, <2>5 DEF FindInv, FoundInv
<1> QED BY <1>2, <1>3

LEMMA FindInit == Init => FindInv
  BY DEF Init, FindInv, GenesInv, MediaInv, FoundInv, NoJob, Places, Claimed, Early, Failing

LEMMA FindStep == TypeInv /\ LineageInv /\ FindInv /\ [Next]_vars => FindInv'
<1>1. FindInv /\ UNCHANGED vars => FindInv'
  BY DEF vars, files, job, breeding, history, FindInv, GenesInv, NoJob, Somewhere, MediaInv,
     FoundInv, Found, Placed, Known, Near, InJob, InInbox, Displaced, Settled, Apart
<1> QED BY <1>1, BreederFinds, PickFinds, WorkerFinds, RecoverFinds, DeathFinds DEF Next, Work

LEMMA FindAlways == Spec => [](TypeInv /\ LineageInv /\ FindInv)
  BY TypeInit, TypeStep, LineageInit, LineageStep, FindInit, FindStep, PTL DEF Spec

\* While the worker waits for work, a lineage that was written is in the
\* catalog, beside its genome, or in an inbox sidecar that the next start
\* reaps: however breeders, worker, its deaths, the recovery of its jobs and
\* the reap interleave, for any number of children (breed.py, worker.py,
\* job_recovery.py).
THEOREM LineageIsFound == Spec => []LineageIsFindable
<1>1. FindInv => LineageIsFindable
  <2> SUFFICES ASSUME FindInv, wk = "poll", NEW k \in written
               PROVE  \/ Settled(k)
                      \/ k \in side["inbox"] /\ (k \in gen["inbox"] \/ k \in late)
    BY DEF LineageIsFindable, Resting
  <2>1. Found(k) /\ gen["job"] = {} /\ side["job"] = {} /\ todo = {}
    BY DEF FindInv, FoundInv, GenesInv, NoJob
  <2> QED BY <2>1 DEF Found, Placed, InJob, InInbox, Displaced, Booting, Looking
<1> QED BY <1>1, FindAlways, PTL

\* While the worker waits for work, an MP4 whose parents were on record when it
\* was catalogued names them, for any number of children (worker.py,
\* job_recovery.py).
THEOREM ParentsAreKnown == Spec => []CatalogKnowsParents
<1>1. TypeInv /\ LineageInv /\ FindInv => CatalogKnowsParents
  <2> SUFFICES ASSUME TypeInv, LineageInv, FindInv, wk = "poll", NEW k \in written
               PROVE  mp4[k] \in {"none", "bred"} \/ k \in late \cup cut
    BY DEF CatalogKnowsParents, Resting
  <2>1. Found(k) /\ gen["job"] = {} /\ side["job"] = {} /\ todo = {}
    BY DEF FindInv, FoundInv, GenesInv, NoJob
  <2>2. k \in gen["inbox"] => mp4[k] = "none"
    BY DEF FindInv, MediaInv, LineageInv
  <2> QED BY <2>1, <2>2 DEF Found, Known, InJob, InInbox, Booting, Looking
<1> QED BY <1>1, FindAlways, PTL
=============================================================================
