----------------------------- MODULE SeedProofs -----------------------------
(***************************************************************************)
(* Proofs about Seed, for any sheep, names, lists, seeders and bounds.      *)
(***************************************************************************)
EXTENDS Seed, FiniteSetTheorems, TLAPS

Answers == {"none", "staged", "skipped", "failed"}
Kinds   == {"none", "named", "paths", "archive", "generate"}
Steps   == {"idle", "next", "cache", "fetch", "raw", "port", "out",
            "failed", "copy", "copying", "generating"}

\* The steps that have the head of the list in hand.
InHand == {"cache", "fetch", "raw", "port", "out", "failed", "copy", "copying"}

Asked == [kind : Kinds, todo : Seq(Sheep), count : 0..1, force : BOOLEAN, again : BOOLEAN,
          now : Names \cup {None}]

\* What a seeder's step says of its request.
AtStep(p) ==
  /\ pc[p] = "idle" => req[p] = Idle
  /\ pc[p] = "next" => Now(p) = None
  /\ pc[p] \in InHand => req[p].todo # <<>> /\ Now(p) = Head(req[p].todo)
  /\ pc[p] = "generating" => Now(p) \in Fresh /\ req[p].kind = "generate"

ReqInv ==
  /\ pc \in [Seeders -> Steps]
  /\ req \in [Seeders -> Asked]
  /\ \A p \in Seeders : AtStep(p)

FilesInv ==
  /\ raw \in [Sheep -> Form] /\ out \in [Sheep -> Form] /\ inbox \in [Names -> Form]
  /\ job \in {None} \cup Claims

NotesInv ==
  /\ made \subseteq Fresh /\ {catalog, died, beside, gap, asked, twice} \subseteq SUBSET Names
  /\ manifest \subseteq Sheep /\ cutOff \subseteq Seeders
  /\ ans \in [Seeders -> [Sheep -> Answers]]
  /\ requests \in 0..MaxRequests /\ faults \in 0..MaxFaults

\* The inductive form of TypeOK: a request is a record, and its step tells what
\* it has in hand.
SeedInv == ReqInv /\ FilesInv /\ NotesInv

LEMMA InvIsTyped == SeedInv => TypeOK
BY DEF SeedInv, ReqInv, FilesInv, NotesInv, TypeOK, Asked, Steps, Answers, Now

LEMMA IdleIsAsked == Idle \in Asked /\ Idle.now = None /\ Idle.kind = "none" /\ Idle.todo = <<>>
BY DEF Idle, Asked, Kinds

LEMMA SeedInit == Init => SeedInv
<1> SUFFICES ASSUME Init PROVE SeedInv
  OBVIOUS
<1>1. ReqInv
  BY IdleIsAsked DEF Init, ReqInv, AtStep, Steps, InHand
<1>2. FilesInv
  BY DEF Init, FilesInv, Form
<1>3. NotesInv
  BY SeedAssumption DEF Init, NotesInv, NoAnswer, Answers
<1> QED
  BY <1>1, <1>2, <1>3 DEF SeedInv

\* A list that is not at its end has a first sheep, and the rest is a list.
LEMMA HeadOfList ==
  ASSUME NEW l \in Seq(Sheep), l # <<>>
  PROVE  Head(l) \in Sheep /\ Tail(l) \in Seq(Sheep)
OBVIOUS

\* In hand is a sheep.
LEMMA InHandIsSheep ==
  ASSUME SeedInv, NEW p \in Seeders, pc[p] \in InHand
  PROVE  Now(p) \in Sheep /\ Now(p) \in Names /\ req[p].todo \in Seq(Sheep)
BY HeadOfList DEF SeedInv, ReqInv, AtStep, Asked, Names

\* An answer ends the work on the head of the list.
LEMMA AnswerIs ==
  ASSUME SeedInv, NEW p \in Seeders, NEW s \in Sheep, NEW a \in Answers,
         req[p].todo # <<>>, Answer(p, s, a)
  PROVE  /\ ans' = [ans EXCEPT ![p][s] = a]
         /\ ans' \in [Seeders -> [Sheep -> Answers]]
         /\ req' \in [Seeders -> Asked]
         /\ req'[p].now = None /\ req'[p].kind = req[p].kind
         /\ req'[p].todo = Tail(req[p].todo)
         /\ \A q \in Seeders \ {p} : req'[q] = req[q]
<1>1. req \in [Seeders -> Asked] /\ ans \in [Seeders -> [Sheep -> Answers]]
  BY DEF SeedInv, ReqInv, NotesInv
<1>2. req[p] \in Asked /\ req[p].count \in 0..1 /\ Tail(req[p].todo) \in Seq(Sheep)
  BY <1>1, HeadOfList DEF Asked
<1> DEFINE c == IF a = "staged" /\ req[p].count > 0 THEN req[p].count - 1 ELSE req[p].count
           r == [req[p] EXCEPT !.todo = Tail(@), !.now = None, !.count = c]
<1>3. req' = [req EXCEPT ![p] = r]
  BY <1>1 DEF Answer
<1>4. c \in 0..1
  BY <1>2
<1> HIDE DEF c
<1>5. r \in Asked /\ r.now = None /\ r.kind = req[p].kind /\ r.todo = Tail(req[p].todo)
  BY <1>2, <1>4 DEF Asked
<1> QED
  BY <1>1, <1>3, <1>5 DEF Answer

\* When one seeder moves, it is enough to look at that seeder.
LEMMA OneMoves ==
  ASSUME SeedInv, NEW p \in Seeders, NEW to \in Steps,
         pc' = [pc EXCEPT ![p] = to],
         req' \in [Seeders -> Asked],
         \A q \in Seeders \ {p} : req'[q] = req[q],
         AtStep(p)'
  PROVE  ReqInv'
<1>1. pc \in [Seeders -> Steps] /\ pc' \in [Seeders -> Steps]
  BY DEF SeedInv, ReqInv
<1>2. ASSUME NEW q \in Seeders, q # p PROVE AtStep(q)'
  BY <1>1, <1>2 DEF SeedInv, ReqInv, AtStep, Now
<1> QED
  BY <1>1, <1>2 DEF ReqInv

\* A step with the head of the list in hand, before and after.
LEMMA StillInHand ==
  ASSUME SeedInv, NEW p \in Seeders, pc[p] \in InHand, NEW to \in InHand,
         pc' = [pc EXCEPT ![p] = to], req' = req
  PROVE  ReqInv'
<1>1. req' \in [Seeders -> Asked] /\ to \in Steps
  BY DEF SeedInv, ReqInv, InHand, Steps
<1>2. AtStep(p)'
  BY DEF SeedInv, ReqInv, AtStep, InHand, Now
<1> QED
  BY <1>1, <1>2, OneMoves

\* An answer, and on to the next of the list.
LEMMA AnsweredNext ==
  ASSUME SeedInv, NEW p \in Seeders, NEW s \in Sheep, NEW a \in Answers,
         req[p].todo # <<>>, Answer(p, s, a), pc' = [pc EXCEPT ![p] = "next"]
  PROVE  ReqInv' /\ ans' \in [Seeders -> [Sheep -> Answers]]
<1>1. /\ ans' \in [Seeders -> [Sheep -> Answers]]
      /\ req' \in [Seeders -> Asked] /\ req'[p].now = None
      /\ \A q \in Seeders \ {p} : req'[q] = req[q]
  BY AnswerIs
<1>2. pc \in [Seeders -> Steps] /\ pc'[p] = "next"
  BY DEF SeedInv, ReqInv
<1>3. AtStep(p)'
  BY <1>1, <1>2 DEF AtStep, InHand, Now
<1> QED
  BY <1>1, <1>3, OneMoves DEF Steps

\* The end of a request.
LEMMA BackToIdle ==
  ASSUME SeedInv, NEW p \in Seeders,
         pc' = [pc EXCEPT ![p] = "idle"], req' = [req EXCEPT ![p] = Idle]
  PROVE  ReqInv'
<1>1. req' \in [Seeders -> Asked] /\ req'[p] = Idle /\ pc'[p] = "idle"
  BY IdleIsAsked DEF SeedInv, ReqInv
<1>2. AtStep(p)'
  BY <1>1 DEF AtStep, InHand
<1>3. \A q \in Seeders \ {p} : req'[q] = req[q]
  BY DEF SeedInv, ReqInv
<1> QED
  BY <1>1, <1>2, <1>3, OneMoves DEF Steps

\* A new request.
LEMMA AskedNext ==
  ASSUME SeedInv, NEW p \in Seeders, NEW r \in Asked, r.now = None, Ask(p, r)
  PROVE  ReqInv'
<1>1. /\ pc' = [pc EXCEPT ![p] = "next"]
      /\ req' = [req EXCEPT ![p] = r]
      /\ req \in [Seeders -> Asked] /\ pc \in [Seeders -> Steps]
  BY DEF Ask, Goto, SeedInv, ReqInv
<1>2. AtStep(p)'
  BY <1>1 DEF AtStep, InHand, Now
<1> QED
  BY <1>1, <1>2, OneMoves DEF Steps

\* Every list of sheep the program asks for is one.
LEMMA StartAsks ==
  ASSUME SeedInv, NEW p \in Seeders, Request(p) \/ Archive(p)
  PROVE  \E r \in Asked : r.now = None /\ Ask(p, r)
<1>1. ASSUME Request(p) PROVE \E r \in Asked : r.now = None /\ Ask(p, r)
  <2>1. PICK l \in Lists, k \in {"named", "paths"}, opt \in Options :
          Ask(p, [Idle EXCEPT !.kind = k, !.todo = l, !.force = opt.force, !.again = opt.again])
    BY <1>1 DEF Request
  <2>2. l \in Seq(Sheep) /\ opt.force \in BOOLEAN /\ opt.again \in BOOLEAN
    BY SeedAssumption
  <2> DEFINE r == [Idle EXCEPT !.kind = k, !.todo = l, !.force = opt.force, !.again = opt.again]
  <2>3. r \in Asked /\ r.now = None
    BY <2>2, IdleIsAsked DEF Asked, Kinds
  <2> QED
    BY <2>1, <2>3
<1>2. ASSUME Archive(p) PROVE \E r \in Asked : r.now = None /\ Ask(p, r)
  <2>1. PICK o \in Orders(manifest), opt \in Options :
          Ask(p, [Idle EXCEPT !.kind = "archive", !.todo = o, !.count = 1,
                              !.force = opt.force, !.again = opt.again])
    BY <1>2 DEF Archive
  <2>2. manifest \subseteq Sheep /\ Cardinality(manifest) \in Nat
    BY SeedAssumption, FS_Subset, FS_CardinalityType DEF SeedInv, NotesInv
  <2>3. o \in Seq(Sheep) /\ opt.force \in BOOLEAN /\ opt.again \in BOOLEAN
    BY <2>2, SeedAssumption DEF Orders
  <2> DEFINE r == [Idle EXCEPT !.kind = "archive", !.todo = o, !.count = 1,
                          !.force = opt.force, !.again = opt.again]
  <2>4. 1 \in 0..1 /\ "archive" \in Kinds
    BY DEF Kinds
  <2>5. r \in Asked /\ r.now = None
    BY <2>3, <2>4, IdleIsAsked DEF Asked
  <2> QED
    BY <2>1, <2>5
<1> QED
  BY <1>1, <1>2

LEMMA ReqStep == SeedInv /\ [Next]_vars => ReqInv'
<1> SUFFICES ASSUME SeedInv, [Next]_vars PROVE ReqInv'
  OBVIOUS
<1> USE DEF Goto
<1>0. ASSUME UNCHANGED <<pc, req>> PROVE ReqInv'
  BY <1>0 DEF SeedInv, ReqInv, AtStep, Now
<1>1. ASSUME NEW p \in Seeders, Start(p) PROVE ReqInv'
  <2>1. CASE Request(p) \/ Archive(p)
    BY <2>1, StartAsks, AskedNext
  <2>2. CASE Refresh(p)
    BY <1>0, <2>2 DEF Refresh, asking
  <2>3. CASE Generate(p)
    <3>1. PICK x \in Fresh : req' = [req EXCEPT ![p] = [Idle EXCEPT !.kind = "generate", !.now = x]]
      BY <2>3 DEF Generate
    <3> DEFINE r == [Idle EXCEPT !.kind = "generate", !.now = x]
    <3>2. r \in Asked /\ r.now = x /\ r.kind = "generate"
      BY IdleIsAsked DEF Asked, Kinds, Names
    <3> HIDE DEF r
    <3>3. req' = [req EXCEPT ![p] = r] /\ req \in [Seeders -> Asked] /\ pc \in [Seeders -> Steps]
      BY <3>1 DEF r, SeedInv, ReqInv
    <3>4. pc' = [pc EXCEPT ![p] = "generating"]
      BY <2>3 DEF Generate
    <3>5. AtStep(p)'
      BY <3>2, <3>3, <3>4 DEF AtStep, InHand, Now
    <3> QED
      BY <3>2, <3>3, <3>4, <3>5, OneMoves DEF Steps
  <2> QED
    BY <1>1, <2>1, <2>2, <2>3 DEF Start
<1>2. ASSUME NEW p \in Seeders, Seeder(p) PROVE ReqInv'
  <2> USE DEF asking, history
  <2>1. CASE Finish(p)
    BY <2>1, BackToIdle DEF Finish, Depart
  <2>2. CASE Skip(p)
    <3>1. req[p].todo # <<>> /\ req[p].todo \in Seq(Sheep)
      BY <2>2 DEF Skip, Over, SeedInv, ReqInv, Asked
    <3>2. Head(req[p].todo) \in Sheep
      BY <3>1, HeadOfList
    <3> QED
      BY <2>2, <3>1, <3>2, AnsweredNext DEF Skip, Answers
  <2>3. CASE Begin(p)
    <3>1. req[p] \in Asked /\ req[p].todo # <<>>
      BY <2>3 DEF Begin, Over, SeedInv, ReqInv
    <3> DEFINE s == Head(req[p].todo)
               r == [req[p] EXCEPT !.now = s]
               to == IF req[p].kind = "paths" THEN "copy" ELSE "cache"
    <3>2. r \in Asked /\ r.now = Head(r.todo) /\ r.todo # <<>>
      BY <3>1, HeadOfList DEF Asked, Names
    <3>3. req' = [req EXCEPT ![p] = r] /\ pc' = [pc EXCEPT ![p] = to]
      BY <2>3 DEF Begin, TakeUp, SeedInv, ReqInv
    <3>4. to \in InHand
      BY DEF InHand
    <3> HIDE DEF r, to
    <3>5. req \in [Seeders -> Asked] /\ pc \in [Seeders -> Steps]
      BY DEF SeedInv, ReqInv
    <3>6. AtStep(p)' /\ to \in Steps
      BY <3>2, <3>3, <3>4, <3>5 DEF AtStep, InHand, Now, Steps
    <3> QED
      BY <3>2, <3>3, <3>5, <3>6, OneMoves
  <2>4. CASE UseCache(p)
    <3>1. pc[p] = "cache" /\ req' = req
      BY <2>4 DEF UseCache
    <3>2. \E to \in InHand : pc' = [pc EXCEPT ![p] = to]
      BY <2>4 DEF UseCache, InHand
    <3> QED
      BY <3>1, <3>2, StillInHand DEF InHand
  <2>5. CASE Fetch(p) \/ WriteRaw(p) \/ Port(p) \/ WriteOut(p) \/ Open(p)
    BY <2>5, StillInHand DEF Fetch, WriteRaw, Port, WriteOut, Open, InHand
  <2>6. CASE Failed(p)
    BY <2>6, InHandIsSheep, AnsweredNext
       DEF Failed, Answers, InHand, SeedInv, ReqInv, AtStep
  <2>7. CASE Taken(p)
    BY <2>7, InHandIsSheep, AnsweredNext
       DEF Taken, Answers, InHand, SeedInv, ReqInv, AtStep
  <2>8. CASE EndCopy(p)
    BY <2>8, InHandIsSheep, AnsweredNext
       DEF EndCopy, Answers, InHand, SeedInv, ReqInv, AtStep
  <2>9. CASE LoseCopy(p) \/ EndGenerate(p) \/ LoseGenerated(p)
    BY <2>9, BackToIdle DEF LoseCopy, EndGenerate, LoseGenerated, Raise, Depart
  <2> QED
    BY <1>2, <2>1, <2>2, <2>3, <2>4, <2>5, <2>6, <2>7, <2>8, <2>9
       DEF Seeder, Materialize
<1>3. ASSUME NEW p \in Seeders, Die(p) \/ GenerateFails(p) \/ WriteFails(p) PROVE ReqInv'
  <2>1. CASE Die(p) \/ GenerateFails(p)
    BY <2>1, BackToIdle DEF Die, Depart, GenerateFails
  <2>2. CASE WriteFails(p)
    BY <2>2, StillInHand DEF WriteFails, InHand
  <2> QED
    BY <1>3, <2>1, <2>2
<1>4. ASSUME Process \/ \E x \in Names : Claim(x) PROVE ReqInv'
  BY <1>0, <1>4 DEF Process, Tax, Ingest, Reject, Claim, asking
<1>5. CASE UNCHANGED vars
  BY <1>0, <1>5 DEF vars, asking
<1> QED
  BY <1>1, <1>2, <1>3, <1>4, <1>5 DEF Next

LEMMA WrittenIs == ASSUME NEW p PROVE Written(p) \in {"torn", "whole"}
BY DEF Written

\* What is in hand has a name.
LEMMA NowIsName ==
  ASSUME SeedInv, NEW p \in Seeders, pc[p] \in InHand \cup {"generating"}
  PROVE  Now(p) \in Names
BY InHandIsSheep DEF SeedInv, ReqInv, AtStep, Names

\* The writer's last act on its file.
LEMMA CloseIs ==
  ASSUME SeedInv, NEW p \in Seeders, pc[p] \in {"copying", "generating"}, Close(p)
  PROVE  /\ inbox' \in [Names -> Form]
         /\ job' \in {None} \cup Claims
<1>1. Now(p) \in Names
  BY NowIsName DEF InHand
<1>2. Written(p) \in {"torn", "whole"}
  BY WrittenIs
<1>3. CASE inbox[Now(p)] # "none"
  BY <1>1, <1>2, <1>3 DEF Close, SeedInv, FilesInv, Form
<1>4. CASE inbox[Now(p)] = "none"
  <2>1. inbox' = inbox
    BY <1>4 DEF Close
  <2>2. job' = IF job # None /\ job.name = Now(p) THEN [job EXCEPT !.form = Written(p)] ELSE job
    BY <1>4 DEF Close
  <2> QED
    BY <1>2, <2>1, <2>2 DEF SeedInv, FilesInv, Claims
<1> QED
  BY <1>3, <1>4

LEMMA FilesStep == SeedInv /\ [Next]_vars => FilesInv'
<1> SUFFICES ASSUME SeedInv, [Next]_vars PROVE FilesInv'
  OBVIOUS
<1> USE DEF Goto, FilesInv, Form, Claims
<1>0. FilesInv
  BY DEF SeedInv
<1>1. ASSUME NEW p \in Seeders, Start(p) PROVE FilesInv'
  <2>1. CASE Request(p) \/ Archive(p) \/ Refresh(p)
    BY <1>0, <2>1 DEF Request, Archive, Refresh, Ask, cache, world
  <2>2. CASE Generate(p)
    BY <1>0, <2>2 DEF Generate, cache, world, Names
  <2> QED
    BY <1>1, <2>1, <2>2 DEF Start
<1>2. ASSUME NEW p \in Seeders, Seeder(p) PROVE FilesInv'
  <2> USE DEF cache, world
  <2>1. CASE Finish(p) \/ Skip(p) \/ Begin(p)
    BY <1>0, <2>1 DEF Finish, Depart, Skip, Begin, TakeUp
  <2>2. CASE UseCache(p) \/ Failed(p) \/ Taken(p)
    BY <1>0, <2>2 DEF UseCache, Failed, Taken
  <2>3. CASE Fetch(p) \/ WriteRaw(p)
    BY <1>0, <2>3 DEF Fetch, WriteRaw
  <2>4. CASE Port(p) \/ WriteOut(p)
    BY <1>0, <2>4 DEF Port, WriteOut
  <2>5. CASE Open(p)
    BY <1>0, <2>5 DEF Open
  <2>6. CASE EndCopy(p) \/ LoseCopy(p) \/ EndGenerate(p) \/ LoseGenerated(p)
    <3>1. /\ inbox' \in [Names -> Form]
          /\ job' \in {None} \cup Claims
      BY <2>6, CloseIs DEF EndCopy, LoseCopy, EndGenerate, LoseGenerated
    <3> QED
      BY <1>0, <2>6, <3>1 DEF EndCopy, LoseCopy, EndGenerate, LoseGenerated, Raise, Depart
  <2> QED
    BY <1>2, <2>1, <2>2, <2>3, <2>4, <2>5, <2>6 DEF Seeder, Materialize
<1>3. ASSUME NEW p \in Seeders, Die(p) \/ GenerateFails(p) \/ WriteFails(p) PROVE FilesInv'
  BY <1>0, <1>3 DEF Die, Depart, GenerateFails, WriteFails, cache, world
<1>4. ASSUME Process PROVE FilesInv'
  <2>1. CASE Tax
    <3>1. job \in Claims
      BY <1>0, <2>1 DEF Tax
    <3>2. job' = None \/ job' = [job EXCEPT !.taxed = TRUE]
      BY <2>1 DEF Tax
    <3>3. job' \in {None} \cup Claims
      BY <3>1, <3>2
    <3> QED
      BY <1>0, <2>1, <3>3 DEF Tax, cache
  <2>2. CASE Ingest \/ Reject
    BY <1>0, <2>2 DEF Ingest, Reject, cache
  <2> QED
    BY <1>4, <2>1, <2>2 DEF Process
<1>5. ASSUME NEW x \in Names, Claim(x) PROVE FilesInv'
  BY <1>0, <1>5 DEF Claim, cache
<1>6. CASE UNCHANGED vars
  BY <1>0, <1>6 DEF vars, cache, world
<1> QED
  BY <1>1, <1>2, <1>3, <1>4, <1>5, <1>6 DEF Next

LEMMA NotesStep == SeedInv /\ [Next]_vars => NotesInv'
<1> SUFFICES ASSUME SeedInv, [Next]_vars PROVE NotesInv'
  OBVIOUS
<1> USE DEF Goto, NotesInv
<1>0. NotesInv
  BY DEF SeedInv
<1>1. ASSUME NEW p \in Seeders, Start(p) PROVE NotesInv'
  <2> USE SeedAssumption DEF world, bounds, history, asking
  <2>1. CASE Request(p) \/ Archive(p)
    <3>1. \E r \in Asked : Ask(p, r)
      BY <2>1, StartAsks
    <3> QED
      BY <1>0, <3>1 DEF Ask
  <2>2. CASE Refresh(p)
    BY <1>0, <2>2 DEF Refresh
  <2>3. CASE Generate(p)
    BY <1>0, <2>3 DEF Generate
  <2> QED
    BY <1>1, <2>1, <2>2, <2>3 DEF Start
<1>2. ASSUME NEW p \in Seeders, Seeder(p) PROVE NotesInv'
  <2> USE DEF world, bounds, history
  <2>0. NoAnswer \in [Sheep -> Answers]
    BY DEF NoAnswer, Answers
  <2>1. CASE Finish(p)
    BY <1>0, <2>0, <2>1 DEF Finish, Depart
  <2>2. CASE Skip(p) \/ Failed(p) \/ Taken(p) \/ EndCopy(p)
    <3>1. \E s \in Sheep, a \in Answers : Answer(p, s, a)
      <4>1. CASE Skip(p)
        <5>1. req[p].todo # <<>> /\ req[p].todo \in Seq(Sheep)
          BY <4>1 DEF Skip, Over, SeedInv, ReqInv, Asked
        <5> QED
          BY <4>1, <5>1, HeadOfList DEF Skip, Answers
      <4>2. CASE Failed(p) \/ Taken(p) \/ EndCopy(p)
        BY <4>2, InHandIsSheep DEF Failed, Taken, EndCopy, Answers, InHand
      <4> QED
        BY <2>2, <4>1, <4>2
    <3>2. ans' \in [Seeders -> [Sheep -> Answers]]
      BY <1>0, <3>1 DEF Answer
    <3> QED
      BY <1>0, <2>2, <3>2 DEF Skip, Failed, Taken, EndCopy
  <2>3. CASE Begin(p)
    <3>1. req[p].todo # <<>> /\ req[p].todo \in Seq(Sheep)
      BY <2>3 DEF Begin, Over, SeedInv, ReqInv, Asked
    <3>2. Head(req[p].todo) \in Names
      BY <3>1, HeadOfList DEF Names
    <3> QED
      BY <1>0, <2>3, <3>2 DEF Begin, TakeUp
  <2>4. CASE UseCache(p) \/ Fetch(p) \/ WriteRaw(p) \/ Port(p) \/ WriteOut(p)
    BY <1>0, <2>4 DEF UseCache, Fetch, WriteRaw, Port, WriteOut, asking
  <2>5. CASE Open(p)
    <3>1. Now(p) \in Names
      BY <2>5, NowIsName DEF Open, InHand
    <3> QED
      BY <1>0, <2>5, <3>1 DEF Open
  <2>6. CASE LoseCopy(p) \/ EndGenerate(p) \/ LoseGenerated(p)
    BY <1>0, <2>0, <2>6 DEF LoseCopy, EndGenerate, LoseGenerated, Raise, Depart
  <2> QED
    BY <1>2, <2>1, <2>2, <2>3, <2>4, <2>5, <2>6 DEF Seeder, Materialize
<1>3. ASSUME NEW p \in Seeders, Die(p) PROVE NotesInv'
  <2>1. {Now(p)} \ {None} \subseteq Names
    BY DEF SeedInv, ReqInv, Asked, Now
  <2>2. NoAnswer \in [Sheep -> Answers]
    BY DEF NoAnswer, Answers
  <2> QED
    BY <1>0, <1>3, <2>1, <2>2, SeedAssumption DEF Die, Depart, world
<1>4. ASSUME NEW p \in Seeders, GenerateFails(p) \/ WriteFails(p) PROVE NotesInv'
  <2>1. Now(p) \in Names
    BY <1>4, NowIsName DEF GenerateFails, WriteFails, InHand
  <2> QED
    BY <1>0, <1>4, <2>1, SeedAssumption DEF GenerateFails, WriteFails, world
<1>5. ASSUME Process PROVE NotesInv'
  <2>1. job # None /\ job.name \in Names
    BY <1>5 DEF Process, Tax, Ingest, Reject, SeedInv, FilesInv, Claims
  <2> QED
    BY <1>0, <1>5, <2>1 DEF Process, Tax, Ingest, Reject, asking, bounds, history
<1>6. ASSUME NEW x \in Names, Claim(x) PROVE NotesInv'
  BY <1>0, <1>6 DEF Claim, asking, bounds, history
<1>7. CASE UNCHANGED vars
  BY <1>0, <1>7 DEF vars, world, asking, bounds, history
<1> QED
  BY <1>1, <1>2, <1>3, <1>4, <1>5, <1>6, <1>7 DEF Next

LEMMA SeedStep == SeedInv /\ [Next]_vars => SeedInv'
BY ReqStep, FilesStep, NotesStep DEF SeedInv

\* Cache, inbox, requests, answers and the worker's claim keep their shape, for
\* any sheep, lists and seeders and any number of requests and faults.
THEOREM TypeCorrect == Spec => []TypeOK
BY SeedInit, SeedStep, InvIsTyped, PTL DEF Spec
-----------------------------------------------------------------------------
(* What a seeder's step leaves alone.                                      *)

\* What p does leaves every other seeder where it is.
OthersStay(p) == \A q \in Seeders \ {p} : pc'[q] = pc[q] /\ req'[q] = req[q]

LEMMA OthersAre ==
  ASSUME SeedInv, NEW p \in Seeders,
         Start(p) \/ Seeder(p) \/ Die(p) \/ GenerateFails(p) \/ WriteFails(p)
  PROVE  OthersStay(p)
<1> USE DEF OthersStay, Goto
<1>0. pc \in [Seeders -> Steps] /\ req \in [Seeders -> Asked]
  BY DEF SeedInv, ReqInv
<1>1. CASE Start(p)
  BY <1>0, <1>1 DEF Start, Request, Archive, Refresh, Generate, Ask, asking
<1>2. CASE Seeder(p)
  <2>1. CASE Finish(p) \/ Skip(p) \/ Begin(p)
    BY <1>0, <2>1 DEF Finish, Depart, Skip, Begin, Answer, TakeUp
  <2>2. CASE Materialize(p)
    BY <1>0, <2>2 DEF Materialize, UseCache, Fetch, WriteRaw, Port, WriteOut, Failed, Answer
  <2>3. CASE Taken(p) \/ Open(p) \/ EndCopy(p)
    BY <1>0, <2>3 DEF Taken, Open, EndCopy, Answer
  <2>4. CASE LoseCopy(p) \/ EndGenerate(p) \/ LoseGenerated(p)
    BY <1>0, <2>4 DEF LoseCopy, EndGenerate, LoseGenerated, Raise, Depart
  <2> QED
    BY <1>2, <2>1, <2>2, <2>3, <2>4 DEF Seeder
<1>3. CASE Die(p) \/ GenerateFails(p) \/ WriteFails(p)
  BY <1>0, <1>3 DEF Die, Depart, GenerateFails, WriteFails
<1> QED
  BY <1>1, <1>2, <1>3

\* Only two steps take something in hand.
LEMMA HandIs ==
  ASSUME SeedInv, NEW p \in Seeders,
         \/ Request(p) \/ Archive(p) \/ Refresh(p) \/ Die(p) \/ GenerateFails(p) \/ WriteFails(p)
         \/ Seeder(p) /\ ~Begin(p)
  PROVE  req'[p].now \in {req[p].now, None}
<1> USE DEF Goto
<1>0. req \in [Seeders -> Asked]
  BY DEF SeedInv, ReqInv
<1>1. CASE Request(p) \/ Archive(p)
  <2>1. PICK r \in Asked : r.now = None /\ Ask(p, r)
    BY <1>1, StartAsks
  <2> QED
    BY <1>0, <2>1 DEF Ask
<1>2. CASE Refresh(p)
  BY <1>0, <1>2 DEF Refresh, asking
<1>3. CASE Die(p) \/ GenerateFails(p) \/ Finish(p) \/ EndGenerate(p)
  BY <1>0, <1>3, IdleIsAsked DEF Die, Depart, GenerateFails, Finish, EndGenerate
<1>4. CASE LoseCopy(p) \/ LoseGenerated(p)
  BY <1>0, <1>4, IdleIsAsked DEF LoseCopy, LoseGenerated, Raise, Depart
<1>5. CASE WriteFails(p)
  BY <1>0, <1>5 DEF WriteFails
<1>6. CASE Skip(p) \/ Failed(p) \/ Taken(p) \/ EndCopy(p)
  BY <1>0, <1>6 DEF Skip, Failed, Taken, EndCopy, Answer, Asked
<1>7. CASE UseCache(p) \/ Fetch(p) \/ WriteRaw(p) \/ Port(p) \/ WriteOut(p) \/ Open(p)
  BY <1>0, <1>7 DEF UseCache, Fetch, WriteRaw, Port, WriteOut, Open
<1> QED
  BY <1>1, <1>2, <1>3, <1>4, <1>5, <1>6, <1>7 DEF Seeder, Materialize

\* Closing a file makes nothing waiting that was not, and no other job.
LEMMA CloseKeeps ==
  ASSUME SeedInv, NEW p \in Seeders, pc[p] \in {"copying", "generating"}, Close(p)
  PROVE  /\ \A x \in Names : inbox'[x] # "none" <=> inbox[x] # "none"
         /\ \A x \in Names \ {Now(p)} : inbox'[x] = inbox[x]
         /\ job' # None <=> job # None
         /\ job # None => job'.name = job.name
<1>1. Now(p) \in Names
  BY NowIsName DEF InHand
<1>2. Written(p) \in {"torn", "whole"}
  BY WrittenIs
<1>3. inbox \in [Names -> Form]
  BY DEF SeedInv, FilesInv
<1>4. CASE inbox[Now(p)] # "none"
  BY <1>1, <1>2, <1>3, <1>4 DEF Close
<1>5. CASE inbox[Now(p)] = "none"
  <2>1. inbox' = inbox
    BY <1>5 DEF Close
  <2>2. job' = IF job # None /\ job.name = Now(p) THEN [job EXCEPT !.form = Written(p)] ELSE job
    BY <1>5 DEF Close
  <2>3. job # None => job \in Claims
    BY DEF SeedInv, FilesInv
  <2>4. ASSUME job # None, job.name = Now(p) PROVE job' # None /\ job'.name = job.name
    <3>1. job' = [job EXCEPT !.form = Written(p)]
      BY <2>2, <2>4
    <3>2. job'.name = Now(p)
      BY <2>3, <2>4, <3>1 DEF Claims
    <3>3. job' # None
      BY <2>4, <3>1, <2>3, <1>2, SeedAssumption DEF Claims
    <3> QED
      BY <2>4, <3>2, <3>3
  <2> QED
    BY <2>1, <2>2, <2>4
<1> QED
  BY <1>4, <1>5
-----------------------------------------------------------------------------
(* Rendered twice.                                                         *)

\* The name waits, is being worked on, or is in a seeder's hand.
InPlay(x) == inbox[x] # "none" \/ (job # None /\ job.name = x) \/ \E p \in Seeders : Now(p) = x

\* A catalogued sheep is in play only because it was asked for again or through
\* the gap; only through the gap does a sheep wait beside its own job.  A name that
\* is still to be made is nowhere.
GapAt(x) == /\ x \in Fresh \ made => x \notin catalog /\ ~InPlay(x)
            /\ x \in catalog /\ InPlay(x) => x \in gap \cup asked
            /\ job # None /\ job.name = x /\ inbox[x] # "none" => x \in gap

GapInv == (\A x \in Names : GapAt(x)) /\ twice \subseteq gap \cup asked

\* Nothing comes into play.
LEMMA PlayKept ==
  ASSUME GapInv, gap \subseteq gap', asked \subseteq asked', UNCHANGED <<catalog, made, twice>>,
         \A x \in Names : inbox'[x] # "none" => inbox[x] # "none",
         job' # None => job # None /\ job'.name = job.name,
         \A p \in Seeders : req'[p].now \in {req[p].now, None}
  PROVE  GapInv'
<1>1. ASSUME NEW x \in Names PROVE GapAt(x)'
  <2>1. x # None
    BY SeedAssumption
  <2>2. InPlay(x)' => InPlay(x)
    BY <2>1 DEF InPlay, Now
  <2> QED
    BY <2>2 DEF GapInv, GapAt
<1> QED
  BY <1>1 DEF GapInv

LEMMA GapStep == SeedInv /\ GapInv /\ [Next]_vars => GapInv'
<1> SUFFICES ASSUME SeedInv, GapInv, [Next]_vars PROVE GapInv'
  OBVIOUS
<1> USE DEF Goto
<1>0. req \in [Seeders -> Asked] /\ inbox \in [Names -> Form]
  BY DEF SeedInv, ReqInv, FilesInv
<1>1. ASSUME NEW p \in Seeders,
             \/ Request(p) \/ Archive(p) \/ Refresh(p) \/ Die(p) \/ GenerateFails(p) \/ WriteFails(p)
             \/ Seeder(p) /\ ~Begin(p) /\ ~Open(p)
      PROVE  GapInv'
  <2>1. \A q \in Seeders : req'[q].now \in {req[q].now, None}
    <3>1. Start(p) \/ Seeder(p) \/ Die(p) \/ GenerateFails(p) \/ WriteFails(p)
      BY <1>1 DEF Start
    <3> QED
      BY <1>1, <3>1, HandIs, OthersAre DEF OthersStay
  <2>2. gap' = gap /\ asked' = asked /\ UNCHANGED <<catalog, made, twice>>
    <3> USE DEF world, history
    <3>1. CASE Request(p) \/ Archive(p)
      BY <3>1 DEF Request, Archive, Ask
    <3>2. CASE Refresh(p) \/ Die(p) \/ GenerateFails(p) \/ WriteFails(p)
      BY <3>2 DEF Refresh, Die, GenerateFails, WriteFails
    <3>3. CASE Finish(p) \/ Skip(p) \/ Taken(p)
      BY <3>3 DEF Finish, Depart, Skip, Taken
    <3>4. CASE Materialize(p)
      BY <3>4 DEF Materialize, UseCache, Fetch, WriteRaw, Port, WriteOut, Failed
    <3>5. CASE EndCopy(p) \/ LoseCopy(p) \/ EndGenerate(p) \/ LoseGenerated(p)
      BY <3>5 DEF EndCopy, LoseCopy, EndGenerate, LoseGenerated, Raise, Depart
    <3> QED
      BY <1>1, <3>1, <3>2, <3>3, <3>4, <3>5 DEF Seeder
  <2>3. /\ \A x \in Names : inbox'[x] # "none" => inbox[x] # "none"
        /\ job' # None => job # None /\ job'.name = job.name
    <3>1. CASE UNCHANGED <<inbox, job>>
      BY <3>1
    <3>2. CASE EndCopy(p) \/ LoseCopy(p) \/ EndGenerate(p) \/ LoseGenerated(p)
      <4>1. pc[p] \in {"copying", "generating"} /\ Close(p)
        BY <3>2 DEF EndCopy, LoseCopy, EndGenerate, LoseGenerated
      <4> QED
        BY <4>1, CloseKeeps
    <3>3. CASE GenerateFails(p)
      BY <1>0, <3>3 DEF GenerateFails, world
    <3>4. CASE Request(p) \/ Archive(p) \/ Refresh(p) \/ Die(p) \/ WriteFails(p)
      BY <3>1, <3>4 DEF Request, Archive, Ask, Refresh, Die, WriteFails, world
    <3>5. CASE Finish(p) \/ Skip(p) \/ Taken(p) \/ Materialize(p)
      BY <3>1, <3>5 DEF Finish, Depart, Skip, Taken, Materialize, UseCache, Fetch,
                        WriteRaw, Port, WriteOut, Failed, world
    <3> QED
      BY <1>1, <3>2, <3>3, <3>4, <3>5 DEF Seeder
  <2> QED
    BY <2>1, <2>2, <2>3, PlayKept
<1>2. ASSUME NEW p \in Seeders, Generate(p) PROVE GapInv'
  <2>1. PICK x \in Fresh \ made :
          /\ made' = made \cup {x}
          /\ inbox' = [inbox EXCEPT ![x] = "torn"]
          /\ req' = [req EXCEPT ![p] = [Idle EXCEPT !.kind = "generate", !.now = x]]
    BY <1>2 DEF Generate
  <2>2. UNCHANGED <<job, catalog, gap, asked, twice>>
    BY <1>2 DEF Generate, world
  <2>3. \A q \in Seeders : req'[q].now \in {req[q].now, x}
    BY <1>0, <2>1 DEF Asked, Idle
  <2>4. ASSUME NEW y \in Names PROVE GapAt(y)'
    <3>1. CASE y = x
      <4>1. x \in Names /\ x \notin catalog /\ ~(job # None /\ job.name = x)
        BY <2>1 DEF GapInv, GapAt, InPlay, Names
      <4> QED
        BY <4>1, <3>1, <2>1, <2>2 DEF GapAt
    <3>2. CASE y # x
      BY <1>0, <3>2, <2>1, <2>2, <2>3 DEF GapInv, GapAt, InPlay, Now
    <3> QED
      BY <3>1, <3>2
  <2> QED
    BY <2>2, <2>4 DEF GapInv
<1>3. ASSUME NEW p \in Seeders, Begin(p) PROVE GapInv'
  <2> DEFINE s == Head(req[p].todo)
  <2>1. /\ req' = [req EXCEPT ![p].now = s]
        /\ s \in catalog => s \in asked'
        /\ asked \subseteq asked' /\ UNCHANGED <<inbox, job, catalog, made, gap, twice>>
    BY <1>3 DEF Begin, TakeUp, Known, world
  <2>2. \A q \in Seeders : req'[q].now \in {req[q].now, s}
    BY <1>0, <2>1 DEF Asked
  <2>4. s \notin Fresh
    BY <1>0, <1>3, SeedAssumption DEF Begin, Over, Asked
  <2> HIDE DEF s
  <2>3. ASSUME NEW y \in Names PROVE GapAt(y)'
    BY <2>1, <2>2, <2>4 DEF GapInv, GapAt, InPlay, Now
  <2> QED
    BY <2>1, <2>3 DEF GapInv
<1>4. ASSUME NEW p \in Seeders, Open(p) PROVE GapInv'
  <2>1. /\ inbox' = [inbox EXCEPT ![Now(p)] = "torn"]
        /\ gap' = IF job # None /\ job.name = Now(p) THEN gap \cup {Now(p)} ELSE gap
        /\ UNCHANGED <<job, catalog, made, req, asked, twice>>
    BY <1>4 DEF Open, world
  <2>2. ASSUME NEW y \in Names PROVE GapAt(y)'
    BY <1>0, <2>1 DEF GapInv, GapAt, InPlay, Now
  <2> QED
    BY <2>1, <2>2 DEF GapInv
<1>5. ASSUME Tax \/ Reject PROVE GapInv'
  <2>1. /\ job' # None => job # None /\ job'.name = job.name
        /\ UNCHANGED <<inbox, catalog, made, req, gap, asked, twice>>
    <3>1. job # None => job \in Claims
      BY DEF SeedInv, FilesInv
    <3> QED
      BY <1>5, <3>1 DEF Tax, Reject, asking, history, Claims
  <2> QED
    BY <2>1, PlayKept
<1>6. ASSUME Ingest PROVE GapInv'
  <2>1. /\ job # None /\ job' = None /\ catalog' = catalog \cup {job.name}
        /\ twice' = IF job.name \in catalog THEN twice \cup {job.name} ELSE twice
        /\ gap' = IF \E p \in Seeders : Now(p) = job.name THEN gap \cup {job.name} ELSE gap
        /\ UNCHANGED <<inbox, made, req, asked>>
    BY <1>6 DEF Ingest, asking
  <2>2. job.name \in Names
    BY <2>1 DEF SeedInv, FilesInv, Claims
  <2>3. ASSUME NEW y \in Names PROVE GapAt(y)'
    BY <2>1 DEF GapInv, GapAt, InPlay, Now
  <2>4. job.name \in catalog => job.name \in gap \cup asked
    BY <2>1, <2>2 DEF GapInv, GapAt, InPlay
  <2> QED
    BY <2>1, <2>3, <2>4 DEF GapInv
<1>7. ASSUME NEW x \in Names, Claim(x) PROVE GapInv'
  <2>1. /\ job = None /\ inbox[x] # "none" /\ job'.name = x
        /\ inbox' = [inbox EXCEPT ![x] = "none"]
        /\ UNCHANGED <<catalog, made, req, gap, asked, twice>>
    BY <1>7 DEF Claim, asking, history
  <2>2. ASSUME NEW y \in Names PROVE GapAt(y)'
    BY <1>0, <2>1 DEF GapInv, GapAt, InPlay, Now
  <2> QED
    BY <2>1, <2>2 DEF GapInv
<1>8. CASE UNCHANGED vars
  BY <1>8, PlayKept DEF vars, world, asking, history
<1> QED
  BY <1>1, <1>2, <1>3, <1>4, <1>5, <1>6, <1>7, <1>8 DEF Next, Start, Process

\* A sheep is rendered again only if --no-skip-catalog asked for it, or it was staged
\* while its own job was running, or was in a seeder's hand when that job ended,
\* however many seeders there are.
THEOREM TwiceOnlyThroughTheGap == Spec => []RenderedTwiceOnlyThroughTheGap
<1>1. Init => GapInv
  <2> SUFFICES ASSUME Init PROVE GapInv
    OBVIOUS
  <2>1. ASSUME NEW x \in Names PROVE ~InPlay(x)
    BY SeedAssumption, IdleIsAsked DEF Init, InPlay, Now
  <2>2. catalog = {} /\ job = None /\ twice = {}
    BY DEF Init
  <2> QED
    BY <2>1, <2>2 DEF GapInv, GapAt
<1>2. GapInv => RenderedTwiceOnlyThroughTheGap
  BY DEF GapInv, RenderedTwiceOnlyThroughTheGap
<1> QED
  BY <1>1, <1>2, SeedInit, SeedStep, GapStep, PTL DEF Spec
-----------------------------------------------------------------------------
(* Torn files.                                                             *)

\* A name that no seeder died on or failed to write, and no two had in hand together: torn means
\* that its one writer is at it, and what is copied was whole.
TornAt(s) ==
  /\ raw[s] = "torn" => Writing("raw", s)
  /\ out[s] = "torn" => Writing("out", s)
  /\ inbox[s] = "torn" => Writing("copying", s)
  /\ \A p, q \in Seeders : Now(p) = s /\ Now(q) = s => p = q
  /\ \A p \in Seeders : (Now(p) = s /\ pc[p] \in {"copy", "copying"} /\ req[p].kind # "paths")
                           => out[s] = "whole"

TornInv == \A s \in Sheep \ (died \cup beside) : TornAt(s)

SameFiles(s) == raw'[s] = raw[s] /\ out'[s] = out[s] /\ inbox'[s] = inbox[s]

\* Another seeder's step, on another name.
LEMMA NotMine ==
  ASSUME NEW s \in Sheep, TornAt(s), NEW p \in Seeders, OthersStay(p), SameFiles(s),
         Now(p) # s, req'[p].now # s
  PROVE  TornAt(s)'
BY DEF TornAt, Writing, Now, OthersStay, SameFiles

\* What the one seeder that has the name in hand knows.
LEMMA MineIs ==
  ASSUME NEW s \in Sheep, TornAt(s), NEW p \in Seeders, Now(p) = s
  PROVE  /\ raw[s] = "torn" => pc[p] = "raw"
         /\ out[s] = "torn" => pc[p] = "out"
         /\ inbox[s] = "torn" => pc[p] = "copying"
         /\ \A q \in Seeders \ {p} : Now(q) # s
BY DEF TornAt, Writing

\* What that seeder has to leave behind.
LEMMA MineStays ==
  ASSUME NEW s \in Sheep, NEW p \in Seeders, OthersStay(p),
         \A q \in Seeders \ {p} : Now(q) # s,
         raw'[s] = "torn" => pc'[p] = "raw" /\ req'[p].now = s,
         out'[s] = "torn" => pc'[p] = "out" /\ req'[p].now = s,
         inbox'[s] = "torn" => pc'[p] = "copying" /\ req'[p].now = s,
         (req'[p].now = s /\ pc'[p] \in {"copy", "copying"} /\ req'[p].kind # "paths")
           => out'[s] = "whole"
  PROVE  TornAt(s)'
BY DEF TornAt, Writing, Now, OthersStay

\* The seeder that has s in hand.
LEMMA MineStep ==
  ASSUME SeedInv, NEW s \in Sheep, TornAt(s), NEW p \in Seeders, Now(p) = s,
         Seeder(p), s \notin (died \cup beside)'
  PROVE  TornAt(s)'
<1> USE DEF Goto
<1>0. /\ pc \in [Seeders -> Steps] /\ req \in [Seeders -> Asked] /\ inbox \in [Names -> Form]
      /\ raw \in [Sheep -> Form] /\ out \in [Sheep -> Form]
  BY DEF SeedInv, ReqInv, FilesInv
<1>1. OthersStay(p)
  BY OthersAre
<1>2. s \in Names /\ s # None /\ s \notin Fresh
  BY SeedAssumption DEF Names
<1>3. pc[p] \in InHand
  BY <1>0, <1>2, IdleIsAsked DEF SeedInv, ReqInv, AtStep, InHand, Steps, Now
<1>4. /\ raw[s] = "torn" => pc[p] = "raw"
      /\ out[s] = "torn" => pc[p] = "out"
      /\ inbox[s] = "torn" => pc[p] = "copying"
      /\ \A q \in Seeders \ {p} : Now(q) # s
  BY MineIs
<1>5. (pc[p] \in {"copy", "copying"} /\ req[p].kind # "paths") => out[s] = "whole"
  BY DEF TornAt
<1>6. CASE UseCache(p) \/ Fetch(p) \/ WriteRaw(p) \/ Port(p) \/ WriteOut(p) \/ Open(p)
  <2>1. req' = req
    BY <1>6 DEF UseCache, Fetch, WriteRaw, Port, WriteOut, Open
  <2>2. CASE UseCache(p)
    <3>1. /\ pc[p] = "cache" /\ UNCHANGED <<raw, out, inbox>>
          /\ pc'[p] \in {"copy", "port", "failed", "fetch"}
          /\ pc'[p] = "copy" => out[s] # "none"
      BY <1>0, <2>2 DEF UseCache, cache
    <3>2. out[s] \in Form
      BY <1>0
    <3> QED
      BY <1>1, <1>4, <2>1, <3>1, <3>2, MineStays DEF Form
  <2>3. CASE Fetch(p)
    <3>1. /\ pc[p] = "fetch" /\ UNCHANGED <<out, inbox>> /\ pc'[p] \in {"raw", "failed"}
          /\ raw' = IF pc'[p] = "raw" THEN [raw EXCEPT ![s] = "torn"] ELSE raw
      BY <1>0, <2>3 DEF Fetch
    <3> QED
      BY <1>0, <1>1, <1>4, <2>1, <3>1, MineStays DEF Now
  <2>4. CASE WriteRaw(p)
    <3>1. /\ pc[p] = "raw" /\ UNCHANGED <<out, inbox>> /\ pc'[p] = "port"
          /\ raw' = [raw EXCEPT ![s] = "whole"]
      BY <1>0, <2>4 DEF WriteRaw
    <3> QED
      BY <1>0, <1>1, <1>4, <2>1, <3>1, MineStays DEF Now
  <2>5. CASE Port(p)
    <3>1. /\ pc[p] = "port" /\ UNCHANGED <<raw, inbox>> /\ pc'[p] \in {"out", "failed"}
          /\ out' = IF pc'[p] = "out" THEN [out EXCEPT ![s] = "torn"] ELSE out
      BY <1>0, <2>5 DEF Port
    <3> QED
      BY <1>0, <1>1, <1>4, <2>1, <3>1, MineStays DEF Now
  <2>6. CASE WriteOut(p)
    <3>1. /\ pc[p] = "out" /\ UNCHANGED <<raw, inbox>> /\ pc'[p] = "copy"
          /\ out' = [out EXCEPT ![s] = "whole"]
      BY <1>0, <2>6 DEF WriteOut
    <3> QED
      BY <1>0, <1>1, <1>4, <2>1, <3>1, MineStays DEF Now
  <2>7. CASE Open(p)
    <3>1. /\ pc[p] = "copy" /\ UNCHANGED <<raw, out>> /\ pc'[p] = "copying"
          /\ inbox' = [inbox EXCEPT ![s] = "torn"]
      BY <1>0, <2>7 DEF Open, cache
    <3> QED
      BY <1>0, <1>1, <1>4, <1>5, <2>1, <3>1, MineStays DEF Now
  <2> QED
    BY <1>6, <2>2, <2>3, <2>4, <2>5, <2>6, <2>7
<1>7. CASE Failed(p) \/ Taken(p)
  <2>1. /\ pc[p] \in {"failed", "copy"} /\ UNCHANGED <<raw, out, inbox>>
        /\ pc'[p] = "next"
    BY <1>0, <1>7 DEF Failed, Taken, cache
  <2> QED
    BY <1>1, <1>4, <2>1, MineStays
<1>8. CASE EndCopy(p) \/ LoseCopy(p)
  <2>1. /\ pc[p] = "copying" /\ Close(p) /\ UNCHANGED <<raw, out>>
        /\ pc'[p] \in {"next", "idle"}
    BY <1>0, <1>8 DEF EndCopy, LoseCopy, Raise, Depart, cache
  <2>2. Written(p) = "whole"
    <3>1. Copying(s) = {p}
      BY <1>4, <2>1 DEF Copying
    <3> QED
      BY <1>5, <2>1, <3>1 DEF Written
  <2>3. inbox'[s] # "torn"
    BY <1>0, <1>2, <2>1, <2>2 DEF Close, Form
  <2> QED
    BY <1>1, <1>4, <2>1, <2>3, MineStays
<1>9. ~(Finish(p) \/ Skip(p) \/ Begin(p) \/ EndGenerate(p) \/ LoseGenerated(p))
  BY <1>3 DEF InHand, Finish, Skip, Begin, EndGenerate, LoseGenerated
<1> QED
  BY <1>6, <1>7, <1>8, <1>9 DEF Seeder, Materialize

LEMMA TornStep == SeedInv /\ TornInv /\ [Next]_vars => TornInv'
<1> SUFFICES ASSUME SeedInv, TornInv, [Next]_vars,
                    NEW s \in Sheep, s \notin (died \cup beside)'
             PROVE  TornAt(s)'
  BY DEF TornInv
<1> USE DEF Goto
<1>0. /\ pc \in [Seeders -> Steps] /\ req \in [Seeders -> Asked] /\ inbox \in [Names -> Form]
      /\ raw \in [Sheep -> Form] /\ out \in [Sheep -> Form]
  BY DEF SeedInv, ReqInv, FilesInv
<1>1. died \subseteq died' /\ beside \subseteq beside'
  <2>1. ASSUME NEW p \in Seeders, Start(p) PROVE died' = died /\ beside' = beside
    BY <2>1 DEF Start, Request, Archive, Refresh, Generate, Ask, history
  <2>2. ASSUME NEW p \in Seeders, Seeder(p) PROVE died' = died /\ beside \subseteq beside'
    <3> USE DEF history
    <3>1. CASE Finish(p) \/ Skip(p) \/ Taken(p) \/ Open(p) \/ Materialize(p)
      BY <3>1 DEF Finish, Depart, Skip, Taken, Open, Materialize, UseCache, Fetch,
                  WriteRaw, Port, WriteOut, Failed
    <3>2. CASE Begin(p)
      BY <3>2 DEF Begin, TakeUp
    <3>3. CASE EndCopy(p) \/ LoseCopy(p) \/ EndGenerate(p) \/ LoseGenerated(p)
      BY <3>3 DEF EndCopy, LoseCopy, EndGenerate, LoseGenerated, Raise, Depart
    <3> QED
      BY <2>2, <3>1, <3>2, <3>3 DEF Seeder
  <2>3. ASSUME NEW p \in Seeders, Die(p) \/ GenerateFails(p) \/ WriteFails(p)
        PROVE  died \subseteq died' /\ beside' = beside
    BY <2>3 DEF Die, Depart, GenerateFails, WriteFails
  <2>4. ASSUME Process \/ \E x \in Names : Claim(x) PROVE died' = died /\ beside' = beside
    BY <2>4 DEF Process, Tax, Ingest, Reject, Claim, history
  <2> QED
    BY <2>1, <2>2, <2>3, <2>4 DEF Next, vars, history
<1>2. TornAt(s) /\ s \in Names /\ s # None /\ s \notin Fresh
  BY <1>1, SeedAssumption DEF TornInv, Names
<1>3. ASSUME UNCHANGED <<pc, req>>, SameFiles(s) PROVE TornAt(s)'
  BY <1>2, <1>3 DEF TornAt, Writing, Now, SameFiles
<1>4. ASSUME NEW p \in Seeders, Start(p) PROVE TornAt(s)'
  <2>1. CASE Refresh(p)
    BY <1>3, <2>1 DEF Refresh, cache, asking, SameFiles
  <2>2. CASE Request(p) \/ Archive(p)
    <3>1. PICK r \in Asked : r.now = None /\ Ask(p, r)
      BY <2>2, StartAsks
    <3>2. Now(p) = None /\ req'[p].now = None /\ SameFiles(s)
      BY <1>0, <3>1, IdleIsAsked DEF Ask, cache, SameFiles, SeedInv, ReqInv, AtStep, Now
    <3> QED
      BY <1>2, <1>4, <3>2, OthersAre, NotMine
  <2>3. CASE Generate(p)
    <3>1. PICK x \in Fresh :
            /\ inbox' = [inbox EXCEPT ![x] = "torn"]
            /\ req' = [req EXCEPT ![p] = [Idle EXCEPT !.kind = "generate", !.now = x]]
      BY <2>3 DEF Generate
    <3>2. req'[p].now = x
      BY <1>0, <3>1 DEF Idle
    <3>3. SameFiles(s)
      BY <1>0, <1>2, <2>3, <3>1 DEF Generate, cache, SameFiles
    <3>4. Now(p) = None
      BY <2>3, IdleIsAsked DEF Generate, SeedInv, ReqInv, AtStep, Now
    <3> QED
      BY <1>2, <1>4, <3>2, <3>3, <3>4, OthersAre, NotMine
  <2> QED
    BY <1>4, <2>1, <2>2, <2>3 DEF Start
<1>5. ASSUME NEW p \in Seeders, Seeder(p) PROVE TornAt(s)'
  <2>1. CASE Now(p) = s
    BY <1>1, <1>2, <1>5, <2>1, MineStep
  <2>2. CASE Now(p) # s /\ ~Begin(p)
    <3>1. req'[p].now # s
      BY <1>2, <1>5, <2>2, HandIs DEF Now
    <3>2. SameFiles(s)
      <4> USE DEF SameFiles, cache
      <4>1. CASE Finish(p) \/ Skip(p) \/ Taken(p) \/ UseCache(p) \/ Failed(p)
        BY <4>1 DEF Finish, Depart, Skip, Taken, UseCache, Failed
      <4>2. CASE Fetch(p) \/ WriteRaw(p)
        <5>1. /\ raw' = raw \/ \E f \in Form : raw' = [raw EXCEPT ![Now(p)] = f]
              /\ UNCHANGED <<out, inbox>>
          BY <4>2 DEF Fetch, WriteRaw, Form
        <5> QED
          BY <1>0, <2>2, <5>1
      <4>3. CASE Port(p) \/ WriteOut(p)
        <5>1. /\ out' = out \/ \E f \in Form : out' = [out EXCEPT ![Now(p)] = f]
              /\ UNCHANGED <<raw, inbox>>
          BY <4>3 DEF Port, WriteOut, Form
        <5> QED
          BY <1>0, <2>2, <5>1
      <4>4. CASE Open(p)
        BY <1>0, <1>2, <2>2, <4>4 DEF Open
      <4>5. CASE EndCopy(p) \/ LoseCopy(p) \/ EndGenerate(p) \/ LoseGenerated(p)
        <5>1. /\ pc[p] \in {"copying", "generating"} /\ Close(p)
              /\ UNCHANGED <<raw, out>>
          BY <4>5 DEF EndCopy, LoseCopy, EndGenerate, LoseGenerated, Raise, Depart
        <5> QED
          BY <1>2, <2>2, <5>1, CloseKeeps
      <4> QED
        BY <1>5, <2>2, <4>1, <4>2, <4>3, <4>4, <4>5 DEF Seeder, Materialize
    <3> QED
      BY <1>2, <1>5, <2>2, <3>1, <3>2, OthersAre, NotMine
  <2>3. CASE Now(p) # s /\ Begin(p)
    <3> DEFINE t == Head(req[p].todo)
    <3>1. /\ UNCHANGED <<raw, out, inbox>>
          /\ req' = [req EXCEPT ![p].now = t]
          /\ beside' = IF \E q \in Seeders \ {p} : Now(q) = t THEN beside \cup {t} ELSE beside
          /\ pc'[p] = IF req[p].kind = "paths" THEN "copy" ELSE "cache"
      BY <1>0, <2>3 DEF Begin, TakeUp, cache
    <3> HIDE DEF t
    <3>2. req'[p].now = t /\ req'[p].kind = req[p].kind
      BY <1>0, <3>1 DEF Asked
    <3>3. CASE t # s
      BY <1>2, <1>5, <2>3, <3>1, <3>2, <3>3, OthersAre, NotMine DEF SameFiles
    <3>4. CASE t = s
      <4>1. \A q \in Seeders : Now(q) # s
        BY <2>3, <3>1, <3>4
      <4>2. raw[s] # "torn" /\ out[s] # "torn" /\ inbox[s] # "torn"
        BY <1>2, <4>1 DEF TornAt, Writing
      <4> QED
        BY <1>5, <3>1, <3>2, <4>1, <4>2, OthersAre, MineStays
    <3> QED
      BY <3>3, <3>4
  <2> QED
    BY <2>1, <2>2, <2>3
<1>6. ASSUME NEW p \in Seeders, Die(p) \/ GenerateFails(p) \/ WriteFails(p) PROVE TornAt(s)'
  <2>1. Now(p) # s
    BY <1>2, <1>6 DEF Die, Depart, GenerateFails, WriteFails
  <2>2. req'[p].now # s
    BY <1>2, <1>6, <2>1, HandIs DEF Now
  <2>3. SameFiles(s)
    <3>1. UNCHANGED <<raw, out>> /\ inbox' \in {inbox, [inbox EXCEPT ![Now(p)] = "none"]}
      BY <1>6 DEF Die, Depart, GenerateFails, WriteFails, cache
    <3> QED
      BY <1>0, <1>2, <2>1, <3>1 DEF SameFiles
  <2> QED
    BY <1>2, <1>6, <2>1, <2>2, <2>3, OthersAre, NotMine
<1>7. ASSUME Process PROVE TornAt(s)'
  BY <1>3, <1>7 DEF Process, Tax, Ingest, Reject, asking, cache, SameFiles
<1>8. ASSUME NEW x \in Names, Claim(x) PROVE TornAt(s)'
  <2>1. UNCHANGED <<pc, req, raw, out>> /\ inbox' = [inbox EXCEPT ![x] = "none"]
    BY <1>8 DEF Claim, asking, cache
  <2> QED
    BY <1>0, <1>2, <2>1 DEF TornAt, Writing, Now
<1>9. CASE UNCHANGED vars
  BY <1>3, <1>9 DEF vars, asking, cache, SameFiles
<1> QED
  BY <1>4, <1>5, <1>6, <1>7, <1>8, <1>9 DEF Next

\* Outside the names a seeder died on or failed to write, or two had in hand together, a torn file
\* has its writer at it, in the cache and in the inbox.
THEOREM TornHasAWriter == Spec => []TornOnlyByFault
<1>1. Init => TornInv
  <2> SUFFICES ASSUME Init, NEW s \in Sheep PROVE TornAt(s)
    BY DEF TornInv
  <2>1. raw[s] = "none" /\ out[s] = "none" /\ inbox[s] = "none"
    BY DEF Init, Names
  <2>2. \A p \in Seeders : Now(p) # s
    BY IdleIsAsked, SeedAssumption DEF Init, Now, Names
  <2> QED
    BY <2>1, <2>2 DEF TornAt
<1>2. TornInv => TornOnlyByFault
  BY DEF TornInv, TornAt, TornOnlyByFault
<1> QED
  BY <1>1, <1>2, SeedInit, SeedStep, TornStep, PTL DEF Spec
-----------------------------------------------------------------------------
(* Answers.                                                                *)

\* What leaves a list when its head is taken off is the head.
LEMMA TailKeeps ==
  ASSUME NEW l \in Seq(Sheep), l # <<>>, NEW i \in DOMAIN l
  PROVE  l[i] = Head(l) \/ \E j \in DOMAIN Tail(l) : Tail(l)[j] = l[i]
<1>1. Len(l) \in Nat /\ i \in 1..Len(l) /\ DOMAIN Tail(l) = 1..(Len(l) - 1)
  OBVIOUS
<1>2. CASE i = 1
  BY <1>2
<1>3. CASE i # 1
  <2>1. i - 1 \in DOMAIN Tail(l) /\ Tail(l)[i - 1] = l[i]
    BY <1>1, <1>3
  <2> QED
    BY <2>1
<1> QED
  BY <1>2, <1>3

\* With its head gone, the rest of the list is still there.
LEMMA HeadIsGone ==
  ASSUME SeedInv, NEW p \in Seeders, req[p].todo # <<>>,
         req'[p].todo = Tail(req[p].todo), NEW s \in Listed(p)
  PROVE  s \in Listed(p)' \/ s = Head(req[p].todo)
<1>1. req[p].todo \in Seq(Sheep)
  BY DEF SeedInv, ReqInv, Asked
<1>2. PICK i \in DOMAIN req[p].todo : s = req[p].todo[i]
  BY DEF Listed
<1> QED
  BY <1>1, <1>2, TailKeeps DEF Listed

LEMMA Accounted ==
  ASSUME SeedInv, [Next]_vars, NEW p \in Seeders, NEW s \in Sheep,
         req[p].kind = "named", s \in Listed(p)
  PROVE  s \in Listed(p)' \/ (ans[p][s])' # "none" \/ p \in cutOff'
<1> USE DEF Goto
<1>0. /\ req[p] \in Asked /\ req[p].todo \in Seq(Sheep)
      /\ ans \in [Seeders -> [Sheep -> Answers]]
  BY DEF SeedInv, ReqInv, NotesInv, Asked
<1>1. ASSUME req'[p] = req[p] PROVE s \in Listed(p)'
  BY <1>1 DEF Listed
<1>2. pc[p] \notin {"idle", "generating"} /\ req[p].todo # <<>>
  BY <1>0, IdleIsAsked DEF SeedInv, ReqInv, AtStep, Listed
<1>3. ASSUME NEW q \in Seeders, q # p, Start(q) \/ Seeder(q) \/ Die(q) \/ GenerateFails(q) \/ WriteFails(q)
      PROVE  s \in Listed(p)'
  BY <1>1, <1>3, OthersAre DEF OthersStay
<1>4. CASE Start(p)
  BY <1>1, <1>2, <1>4 DEF Start, Request, Archive, Ask, Generate, Refresh, asking
<1>5. CASE Seeder(p)
  <2>1. CASE Skip(p) \/ Failed(p) \/ Taken(p) \/ EndCopy(p)
    <3>1. Head(req[p].todo) \in Sheep
      BY <1>0, <1>2, HeadOfList
    <3>2. \E a \in Answers \ {"none"} : Answer(p, Head(req[p].todo), a)
      <4>1. CASE Skip(p)
        BY <4>1 DEF Skip, Answers
      <4>2. CASE Failed(p) \/ Taken(p) \/ EndCopy(p)
        <5>1. Now(p) = Head(req[p].todo)
          BY <4>2 DEF Failed, Taken, EndCopy, SeedInv, ReqInv, AtStep, InHand
        <5> QED
          BY <4>2, <5>1 DEF Failed, Taken, EndCopy, Answers
      <4> QED
        BY <2>1, <4>1, <4>2
    <3>3. PICK a \in Answers \ {"none"} : Answer(p, Head(req[p].todo), a)
      BY <3>2
    <3>4. /\ req'[p].todo = Tail(req[p].todo)
          /\ ans' = [ans EXCEPT ![p][Head(req[p].todo)] = a]
      BY <1>2, <3>1, <3>3, AnswerIs
    <3>5. ans'[p][Head(req[p].todo)] # "none"
      BY <1>0, <3>1, <3>4
    <3> QED
      BY <1>2, <3>4, <3>5, HeadIsGone
  <2>2. CASE Finish(p)
    BY <1>2, <2>2 DEF Finish, Depart, Over
  <2>3. CASE Begin(p)
    BY <1>0, <2>3 DEF Begin, TakeUp, Listed, SeedInv, ReqInv, Asked
  <2>4. CASE UseCache(p) \/ Fetch(p) \/ WriteRaw(p) \/ Port(p) \/ WriteOut(p) \/ Open(p)
    BY <1>1, <2>4 DEF UseCache, Fetch, WriteRaw, Port, WriteOut, Open
  <2>5. CASE LoseCopy(p)
    BY <2>5 DEF LoseCopy, Raise, Depart
  <2>6. ~(EndGenerate(p) \/ LoseGenerated(p))
    BY <1>2 DEF EndGenerate, LoseGenerated
  <2> QED
    BY <1>5, <2>1, <2>2, <2>3, <2>4, <2>5, <2>6 DEF Seeder, Materialize
<1>6. CASE Die(p) \/ GenerateFails(p) \/ WriteFails(p)
  BY <1>1, <1>6 DEF Die, Depart, GenerateFails, WriteFails
<1>7. ASSUME Process \/ \E x \in Names : Claim(x) PROVE s \in Listed(p)'
  BY <1>1, <1>7 DEF Process, Tax, Ingest, Reject, Claim, asking
<1>8. CASE UNCHANGED vars
  BY <1>1, <1>8 DEF vars, asking
<1> QED
  BY <1>3, <1>4, <1>5, <1>6, <1>7, <1>8 DEF Next

\* Every sheep of a list asked for by id is answered for, or the request ended
\* with an exception or a death.
THEOREM ListIsAnswered == Spec => EveryIdIsAnswered
<1>1. SeedInv /\ [Next]_vars
        => [\A p \in Seeders, s \in Sheep :
              (req[p].kind = "named" /\ s \in Listed(p)) =>
                 \/ s \in Listed(p)' \/ (ans[p][s])' # "none" \/ p \in cutOff']_vars
  BY Accounted
<1> QED
  BY <1>1, SeedInit, SeedStep, PTL DEF Spec, EveryIdIsAnswered
=============================================================================
