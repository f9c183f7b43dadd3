-------------------------- MODULE PeerShareProofs --------------------------
(* Proofs about PeerShare for any furnaces, publish processes, keys,       *)
(* revisions and faults.                                                   *)
EXTENDS PeerShare, TLAPS

\* What file f may be, where S are the genomes a publisher attested.
Cell(f, S) == IF f = "gen" THEN Body \cup {None}
              ELSE IF f = "sha" THEN S \cup {None, Torn}
              ELSE [of : S \cup {Torn}, by : Key] \cup {None}

AnyCell == Body \cup [of : Body \cup {Torn}, by : Key] \cup {None, Torn}

\* Files are well typed, and every integrity sidecar is about an attested genome.
FilesOK(a, S) ==
  /\ S \subseteq Body
  /\ a \in [Furnaces -> [Dir -> [File -> AnyCell]]]
  /\ \A h \in Furnaces, d \in Dir, f \in File : a[h][d][f] \in Cell(f, S)

Put(a, h, d, f, v) == [a EXCEPT ![h][d][f] = v]

PubPc  == {"idle", "tax", "sign", "writeSig", "hash", "writeSha", "check", "copy", "sig", "sha"}
PromPc == {"idle", "verify", "tax", "move", "reject", "sig", "sha"}

PubRec == [pc : PubPc, apply : BOOLEAN, move : BOOLEAN, of : Body \cup {None}, by : Key \cup {None}]

\* A publish with a sidecar open knows what it will write.
OpenOK(r) ==
  /\ r.pc \in {"writeSig", "writeSha"} => r.of \in Body
  /\ r.pc = "writeSig" => r.by \in Key

ControlOK ==
  /\ pub \in [Senders -> [Publishers -> PubRec]]
  /\ \A h \in Senders, p \in Publishers : OpenOK(pub[h][p])
  /\ prom \in [Furnaces -> PromPc]
  /\ shared \in [Furnaces -> SUBSET Furnaces]
  /\ \A h \in Furnaces : h \notin shared[h]

KeysOK ==
  /\ priv \in [Furnaces -> Key \cup {None}]
  /\ pubkey \in [Furnaces -> Key \cup {None}]
  /\ trusted \in [Furnaces -> SUBSET Key]
  /\ keying \in [Furnaces -> BOOLEAN]
  /\ revs \in 0 .. MaxRev

TypeInv == FilesOK(at, attested) /\ ControlOK /\ KeysOK

-----------------------------------------------------------------------------
(* Files.                                                                  *)

LEMMA CellType ==
  ASSUME NEW a, NEW S, FilesOK(a, S), NEW h \in Furnaces, NEW d \in Dir, NEW f \in File
  PROVE  a[h][d][f] \in Cell(f, S)
  BY DEF FilesOK

LEMMA NothingCell == \A S : \A f \in File : None \in Cell(f, S)
  BY DEF Cell

LEMMA MoreAttested ==
  ASSUME NEW a, NEW S, NEW T, FilesOK(a, S), S \subseteq T, T \subseteq Body
  PROVE  FilesOK(a, T)
<1>1. \A f \in File : Cell(f, S) \subseteq Cell(f, T)
  BY DEF Cell
<1> QED BY <1>1 DEF FilesOK

LEMMA PutType ==
  ASSUME NEW a, NEW S, FilesOK(a, S), NEW h \in Furnaces, NEW d \in Dir,
         NEW f \in File, NEW v \in Cell(f, S)
  PROVE  /\ FilesOK(Put(a, h, d, f, v), S)
         /\ \A g \in Furnaces, e \in Dir, i \in File :
              Put(a, h, d, f, v)[g][e][i]
                = IF g = h /\ e = d /\ i = f THEN v ELSE a[g][e][i]
<1>1. v \in AnyCell
  BY DEF Cell, AnyCell, FilesOK
<1>2. Put(a, h, d, f, v) \in [Furnaces -> [Dir -> [File -> AnyCell]]]
  BY <1>1 DEF Put, FilesOK
<1>3. \A g \in Furnaces, e \in Dir, i \in File :
        Put(a, h, d, f, v)[g][e][i] = IF g = h /\ e = d /\ i = f THEN v ELSE a[g][e][i]
  BY DEF Put, FilesOK
<1>4. \A g \in Furnaces, e \in Dir, i \in File : Put(a, h, d, f, v)[g][e][i] \in Cell(i, S)
  BY <1>3 DEF FilesOK
<1> QED BY <1>2, <1>3, <1>4 DEF FilesOK

LEMMA PutDirType ==
  ASSUME NEW a, NEW S, FilesOK(a, S), NEW h \in Furnaces, NEW d \in Dir,
         NEW c, c = [f \in File |-> c[f]], \A f \in File : c[f] \in Cell(f, S)
  PROVE  /\ FilesOK([a EXCEPT ![h][d] = c], S)
         /\ \A g \in Furnaces, e \in Dir, i \in File :
              [a EXCEPT ![h][d] = c][g][e][i]
                = IF g = h /\ e = d THEN c[i] ELSE a[g][e][i]
<1>1. \A f \in File : c[f] \in AnyCell
  BY DEF Cell, AnyCell, FilesOK
<1>2. [a EXCEPT ![h][d] = c] \in [Furnaces -> [Dir -> [File -> AnyCell]]]
  BY <1>1 DEF FilesOK
<1>3. \A g \in Furnaces, e \in Dir, i \in File :
        [a EXCEPT ![h][d] = c][g][e][i] = IF g = h /\ e = d THEN c[i] ELSE a[g][e][i]
  BY DEF FilesOK
<1>4. \A g \in Furnaces, e \in Dir, i \in File : [a EXCEPT ![h][d] = c][g][e][i] \in Cell(i, S)
  BY <1>3 DEF FilesOK
<1> QED BY <1>2, <1>3, <1>4 DEF FilesOK

LEMMA CleanedType ==
  ASSUME NEW b \in Body
  PROVE  Cleaned(b) \in Body /\ Cleaned(Cleaned(b)) = Cleaned(b)
  BY DEF Cleaned, Body

LEMMA GenomeType ==
  ASSUME NEW a, NEW S, FilesOK(a, S), NEW h \in Furnaces, NEW d \in Dir, a[h][d]["gen"] # None
  PROVE  a[h][d]["gen"] \in Body
  BY CellType DEF Cell, File

\* A file that leaves a directory for another, or is copied to it.
LEMMA CarryType ==
  ASSUME NEW a, NEW S, FilesOK(a, S), NEW h \in Furnaces, NEW d \in Dir, NEW e \in Dir,
         NEW f \in File, NEW gone \in BOOLEAN, d # e
  PROVE  FilesOK([a EXCEPT ![h][e][f] = a[h][d][f], ![h][d][f] = IF gone THEN None ELSE @], S)
<1> DEFINE b == Put(a, h, e, f, a[h][d][f])
           v == IF gone THEN None ELSE b[h][d][f]
<1>1. FilesOK(b, S)
  BY CellType, PutType
<1>2. v \in Cell(f, S)
  BY <1>1, CellType, NothingCell
<1>3. FilesOK(Put(b, h, d, f, v), S)
  BY <1>1, <1>2, PutType
<1> QED BY <1>3 DEF Put

LEMMA PublishFiles ==
  ASSUME TypeInv, NEW h \in Senders, NEW p \in Publishers, Publish(h, p)
  PROVE  FilesOK(at', attested') /\ attested \subseteq attested'
<1> USE PeerShareAssumption DEF TypeInv, Source, files, bounds, history
<1>0. h \in Furnaces /\ {"done", "out"} \subseteq Dir /\ {"gen", "sig", "sha"} \subseteq File
  BY DEF Dir, File
<1>a. /\ attested \subseteq Body
      /\ Source(h)["gen"] # None => Source(h)["gen"] \in Body
  BY <1>0, GenomeType DEF FilesOK
<1>1. CASE TaxSource(h, p)
  <2>1. attested' = attested
    BY <1>1 DEF TaxSource
  <2>2. CASE at' = at
    BY <2>1, <2>2
  <2>3. CASE at' # at
    <3>1. PICK b \in {Source(h)["gen"], Cleaned(Source(h)["gen"])} :
            at' = Put(at, h, "done", "gen", b)
      BY <1>1, <2>3 DEF TaxSource, Rewrite, Put
    <3>2. b \in Cell("gen", attested)
      BY <1>1, <1>a, <3>1, CleanedType DEF TaxSource, Cell
    <3> QED BY <1>0, <2>1, <3>1, <3>2, PutType
  <2> QED BY <2>2, <2>3
<1>2. ASSUME NEW f \in {"sig", "sha"}, NEW to, NEW torn \in Cell(f, attested), NEW key,
             Open(h, p, to, f, torn, key)
      PROVE  FilesOK(at', attested') /\ attested \subseteq attested'
  <2>1. at' = Put(at, h, "done", f, torn) /\ attested' = attested
    BY <1>2 DEF Open, Put
  <2> QED BY <1>0, <2>1, PutType
<1>3. ASSUME NEW f \in {"sig", "sha"}, pub[h][p].of \in Body,
             NEW v \in Cell(f, attested \cup {pub[h][p].of}), Write(h, p, f, v)
      PROVE  FilesOK(at', attested') /\ attested \subseteq attested'
  <2>1. PICK d \in {"done", "out"} : at' = Put(at, h, d, f, v)
    BY <1>3 DEF Write, Put
  <2>2. attested' = attested \cup {pub[h][p].of}
    BY <1>3 DEF Write
  <2>3. FilesOK(at, attested')
    BY <1>a, <1>3, <2>2, MoreAttested
  <2> QED BY <1>0, <1>3, <2>1, <2>2, <2>3, PutType
<1>6. CASE Sign(h, p) \/ Hash(h, p)
  <2>1. CASE Sign(h, p)
    <3>1. [of |-> Torn, by |-> priv[h]] \in Cell("sig", attested)
      BY <1>0, <2>1 DEF Sign, KeysOK, Cell
    <3> QED BY <1>2, <2>1, <3>1 DEF Sign
  <2>2. CASE Hash(h, p)
    <3>1. Torn \in Cell("sha", attested)
      BY DEF Cell
    <3> QED BY <1>2, <2>2, <3>1 DEF Hash
  <2> QED BY <1>6, <2>1, <2>2
<1>7. CASE WriteSig(h, p) \/ WriteSha(h, p)
  <2>1. OpenOK(pub[h][p])
    BY DEF ControlOK
  <2>2. CASE WriteSig(h, p)
    <3>1. pub[h][p].of \in Body /\ pub[h][p].by \in Key
      BY <2>1, <2>2 DEF OpenOK, WriteSig, Step
    <3>2. [of |-> pub[h][p].of, by |-> pub[h][p].by] \in Cell("sig", attested \cup {pub[h][p].of})
      BY <3>1 DEF Cell
    <3> QED BY <1>3, <2>2, <3>1, <3>2 DEF WriteSig
  <2>3. CASE WriteSha(h, p)
    <3>1. pub[h][p].of \in Body
      BY <2>1, <2>3 DEF OpenOK, WriteSha, Step
    <3>2. pub[h][p].of \in Cell("sha", attested \cup {pub[h][p].of})
      BY DEF Cell
    <3> QED BY <1>3, <2>3, <3>1, <3>2 DEF WriteSha
  <2> QED BY <1>7, <2>2, <2>3
<1>4. CASE StageGenome(h, p) \/ StageSides(h, p)
  <2>1. attested' = attested /\ (at' = at \/ \E f \in File : at' = Staged(h, p, f))
    BY <1>4, <1>0 DEF StageGenome, StageSides, StageSide
  <2>2. ASSUME NEW f \in File, at' = Staged(h, p, f)
        PROVE  FilesOK(at', attested)
    <3>1. pub[h][p].move \in BOOLEAN
      BY DEF ControlOK, PubRec
    <3> QED BY <1>0, <2>2, <3>1, CarryType DEF Staged
  <2> QED BY <2>1, <2>2
<1>5. CASE \/ PublishByHand(h, p) \/ ShareVoted(h, p) \/ SourceGone(h, p)
           \/ CannotSign(h, p) \/ CheckStaged(h, p) \/ PublishDies(h, p)
  BY <1>5 DEF PublishByHand, ShareVoted, Begin, SourceGone, CannotSign, CheckStaged,
              PublishDies
<1> QED BY <1>1, <1>4, <1>5, <1>6, <1>7 DEF Publish

LEMMA PromoteFiles ==
  ASSUME TypeInv, NEW h \in Furnaces, Promote(h) \/ Render(h) \/ Drop(h)
  PROVE  FilesOK(at', attested') /\ attested' = attested
<1> USE DEF files, bounds, history
<1>0. {"box", "work"} \subseteq Dir /\ {"gen", "sig", "sha"} \subseteq File
  BY DEF Dir, File
<1>1. FilesOK(at, attested) /\ attested' = attested
  BY DEF TypeInv, Promote, Render, Drop, BeginPromote, Plan, BoxGone, Verify, TaxBox,
         Move, Reject, MoveSides, MoveSide, PromoteDies
<1>2. ASSUME Repair(h), Box(h)["gen"] # None PROVE FilesOK(at', attested)
  <2>1. at' = at \/ at' = Put(at, h, "box", "gen", Cleaned(Box(h)["gen"]))
    BY <1>2 DEF Repair, Put, Box
  <2>2. Cleaned(Box(h)["gen"]) \in Cell("gen", attested)
    BY <1>0, <1>1, <1>2, GenomeType, CleanedType DEF Box, Cell
  <2> QED BY <1>0, <1>1, <2>1, <2>2, PutType
<1>3. ASSUME NEW f \in File, Leave(h, f) PROVE FilesOK(at', attested)
  BY <1>0, <1>1, <1>3, PutType, NothingCell DEF Leave, Put
<1>4. CASE Plan(h) \/ TaxBox(h)
  BY <1>1, <1>2, <1>4 DEF Plan, TaxBox
<1>5. CASE Reject(h) \/ MoveSides(h)
  BY <1>0, <1>1, <1>3, <1>5 DEF Reject, MoveSides, MoveSide
<1>6. CASE Move(h)
  <2>1. CASE at' = at
    BY <1>1, <2>1
  <2>2. CASE at' # at
    <3>1. at' = [at EXCEPT ![h]["work"]["gen"] = at[h]["box"]["gen"],
                           ![h]["box"]["gen"] = IF TRUE THEN None ELSE @]
      BY <1>6, <2>2 DEF Move, Box
    <3>2. FilesOK([at EXCEPT ![h]["work"]["gen"] = at[h]["box"]["gen"],
                             ![h]["box"]["gen"] = IF TRUE THEN None ELSE @], attested)
      BY <1>0, <1>1, CarryType
    <3> QED BY <1>1, <3>1, <3>2
  <2> QED BY <2>1, <2>2
<1>7. CASE Render(h)
  <2>1. at' = Put(at, h, "work", "gen", None)
    BY <1>7 DEF Render, Put
  <2> QED BY <1>0, <1>1, <2>1, PutType, NothingCell
<1>8. CASE Drop(h)
  <2>1. [rev |-> 0, clean |-> FALSE] \in Cell("gen", attested)
    BY PeerShareAssumption DEF Cell, Body
  <2>2. at' = Put(at, h, "box", "gen", [rev |-> 0, clean |-> FALSE])
    BY <1>8 DEF Drop, Put
  <2> QED BY <1>0, <1>1, <2>1, <2>2, PutType
<1>9. CASE BeginPromote(h) \/ BoxGone(h) \/ Verify(h) \/ PromoteDies(h)
  BY <1>1, <1>9 DEF BeginPromote, BoxGone, Verify, PromoteDies
<1> QED BY <1>1, <1>4, <1>5, <1>6, <1>7, <1>8, <1>9 DEF Promote

LEMMA DeliverFiles ==
  ASSUME TypeInv, NEW a \in Furnaces, NEW b \in Furnaces, NEW f \in File, Deliver(a, b, f)
  PROVE  FilesOK(at', attested') /\ attested' = attested
<1>1. "box" \in Dir /\ FilesOK(at, attested) /\ attested' = attested
  BY DEF Dir, TypeInv, Deliver
<1>2. at[a]["box"][f] \in Cell(f, attested)
  BY <1>1, CellType
<1>3. at' = Put(at, b, "box", f, at[a]["box"][f])
  BY DEF Deliver, Put
<1> QED BY <1>1, <1>2, <1>3, PutType

LEMMA SenderFiles ==
  ASSUME TypeInv, NEW h \in Senders, Rerender(h) \/ HandOver(h)
  PROVE  FilesOK(at', attested') /\ attested' = attested
<1>1. /\ h \in Furnaces /\ {"done", "out", "box"} \subseteq Dir /\ "gen" \in File
      /\ FilesOK(at, attested) /\ attested' = attested
  BY PeerShareAssumption DEF Dir, File, TypeInv, Rerender, HandOver
<1>2. CASE Rerender(h)
  <2>1. [rev |-> revs + 1, clean |-> h \in Taxers] \in Cell("gen", attested)
    BY <1>2, PeerShareAssumption DEF Rerender, Cell, Body, TypeInv, KeysOK
  <2>2. at' = Put(at, h, "done", "gen", [rev |-> revs + 1, clean |-> h \in Taxers])
    BY <1>2 DEF Rerender, Rewrite, Put
  <2> QED BY <1>1, <2>1, <2>2, PutType
<1>3. CASE HandOver(h)
  <2> DEFINE out == at[h]["out"]
             new == {f \in File : out[f] \notin {None, at[h]["box"][f]}}
             c   == [f \in File |-> IF f \in new THEN out[f] ELSE at[h]["box"][f]]
  <2>1. at' = [at EXCEPT ![h]["box"] = c]
    BY <1>3 DEF HandOver
  <2>2. \A f \in File : c[f] \in Cell(f, attested)
    BY <1>1, CellType
  <2>3. c = [f \in File |-> c[f]]
    OBVIOUS
  <2> HIDE DEF c
  <2> QED BY <1>1, <2>1, <2>2, <2>3, PutDirType
<1> QED BY <1>2, <1>3

-----------------------------------------------------------------------------
(* Type correctness.                                                       *)

LEMMA FilesStep ==
  TypeInv /\ Next => FilesOK(at', attested') /\ attested \subseteq attested'
<1> SUFFICES ASSUME TypeInv, Next
             PROVE  FilesOK(at', attested') /\ attested \subseteq attested'
  OBVIOUS
<1> USE PeerShareAssumption
<1>1. ASSUME UNCHANGED <<at, attested>>
      PROVE  FilesOK(at', attested') /\ attested \subseteq attested'
  BY <1>1 DEF TypeInv
<1>2. ASSUME NEW h \in Senders, OptIn(h) \/ NewKeys(h) \/ WritePublic(h) \/ KeyingDies(h)
      PROVE  UNCHANGED <<at, attested>>
  BY <1>2 DEF OptIn, NewKeys, WritePublic, KeyingDies, files, history
<1>3. ASSUME NEW h \in Receivers, NEW a \in Senders, TrustKey(h, a)
      PROVE  UNCHANGED <<at, attested>>
  BY <1>3 DEF TrustKey, files, history
<1>4. ASSUME NEW h \in Furnaces, MeshJoin(h)
      PROVE  UNCHANGED <<at, attested>>
  BY <1>4 DEF MeshJoin, files, history
<1> QED BY <1>1, <1>2, <1>3, <1>4, PublishFiles, PromoteFiles, DeliverFiles,
           SenderFiles DEF Next

LEMMA RowType ==
  ASSUME ControlOK, NEW h \in Senders, NEW p \in Publishers, NEW r \in PubRec, OpenOK(r),
         pub' = [pub EXCEPT ![h][p] = r], UNCHANGED <<prom, shared>>
  PROVE  ControlOK'
<1>1. pub' \in [Senders -> [Publishers -> PubRec]]
  BY DEF ControlOK
<1>2. \A g \in Senders, q \in Publishers : pub'[g][q] = IF g = h /\ q = p THEN r ELSE pub[g][q]
  BY DEF ControlOK
<1> QED BY <1>1, <1>2 DEF ControlOK

LEMMA PublishControl ==
  ASSUME TypeInv, NEW h \in Senders, NEW p \in Publishers, Publish(h, p)
  PROVE  ControlOK'
<1>0. ControlOK /\ pub[h][p] \in PubRec
  BY DEF TypeInv, ControlOK
<1>1. UNCHANGED <<prom, shared>>
  BY DEF Publish, PublishByHand, ShareVoted, Begin, SourceGone, TaxSource, Sign, Open, Write,
         WriteSig, WriteSha, CannotSign, Hash, CheckStaged, StageGenome, StageSides, StageSide,
         PublishDies, mesh
<1>3. CASE PublishByHand(h, p) \/ ShareVoted(h, p)
  <2>1. PICK apply \in BOOLEAN, move \in BOOLEAN :
          pub' = [pub EXCEPT ![h][p] = [NoPublish EXCEPT !.pc = "tax", !.apply = apply, !.move = move]]
    BY <1>3 DEF PublishByHand, ShareVoted, Begin
  <2> DEFINE r == [NoPublish EXCEPT !.pc = "tax", !.apply = apply, !.move = move]
  <2>2. r \in PubRec /\ OpenOK(r)
    BY DEF PubPc, PubRec, OpenOK, NoPublish
  <2> HIDE DEF r
  <2> QED BY <1>0, <1>1, <2>1, <2>2, RowType DEF r
<1>4. CASE SourceGone(h, p) \/ PublishDies(h, p)
  <2>1. NoPublish \in PubRec /\ OpenOK(NoPublish)
    BY DEF NoPublish, PubPc, PubRec, OpenOK
  <2>2. pub' = [pub EXCEPT ![h][p] = NoPublish]
    BY <1>4 DEF SourceGone, PublishDies
  <2> QED BY <1>0, <1>1, <2>1, <2>2, RowType
<1>5. ASSUME NEW from, NEW to \in PubPc \ {"writeSig", "writeSha"}, Step(h, p, from, to)
      PROVE  ControlOK'
  <2> DEFINE r == IF to = "idle" THEN NoPublish
                  ELSE [pub[h][p] EXCEPT !.pc = to, !.of = None, !.by = None]
  <2>1. r \in PubRec /\ OpenOK(r)
    BY <1>0, <1>5 DEF NoPublish, PubPc, PubRec, OpenOK
  <2>2. pub' = [pub EXCEPT ![h][p] = r]
    BY <1>5 DEF Step
  <2> HIDE DEF r
  <2> QED BY <1>0, <1>1, <2>1, <2>2, RowType
<1>6. CASE \/ TaxSource(h, p) \/ WriteSig(h, p) \/ CannotSign(h, p) \/ WriteSha(h, p)
           \/ CheckStaged(h, p) \/ StageGenome(h, p) \/ StageSides(h, p)
  <2>1. \E from, to : Step(h, p, from, to) /\ to \in {"idle", "sign", "hash", "check", "copy", "sig", "sha"}
    <3>1. CASE TaxSource(h, p)
      BY <3>1 DEF TaxSource
    <3>2. CASE WriteSig(h, p) \/ CannotSign(h, p)
      BY <3>2 DEF WriteSig, CannotSign
    <3>3. CASE WriteSha(h, p)
      BY <3>3 DEF WriteSha
    <3>4. CASE CheckStaged(h, p)
      BY <3>4 DEF CheckStaged
    <3>5. CASE StageGenome(h, p)
      BY <3>5 DEF StageGenome
    <3>6. CASE StageSides(h, p)
      BY <3>6 DEF StageSides, StageSide
    <3> QED BY <1>6, <3>1, <3>2, <3>3, <3>4, <3>5, <3>6
  <2> QED BY <1>5, <2>1 DEF PubPc
<1>7. CASE Sign(h, p) \/ Hash(h, p)
  <2>1. PICK to, f, torn, key :
          /\ to \in {"writeSig", "writeSha"} /\ Open(h, p, to, f, torn, key)
          /\ IF to = "writeSig" THEN key = priv[h] /\ key # None ELSE key = None
    BY <1>7 DEF Sign, Hash
  <2>2. h \in Furnaces /\ FilesOK(at, attested) /\ "done" \in Dir
    BY PeerShareAssumption DEF TypeInv, Dir
  <2>3. Source(h)["gen"] \in Body
    BY <2>1, <2>2, GenomeType DEF Open, Source
  <2>4. key \in Key \cup {None} /\ (to = "writeSig" => key \in Key)
    BY <2>1, <2>2 DEF TypeInv, KeysOK
  <2> DEFINE r == [pub[h][p] EXCEPT !.pc = to, !.of = Source(h)["gen"], !.by = key]
  <2>5. r \in PubRec /\ OpenOK(r)
    <3>1. to \in {"writeSig", "writeSha"}
      BY <2>1
    <3> QED BY <1>0, <2>3, <2>4, <3>1 DEF PubRec, OpenOK, PubPc
  <2>6. pub' = [pub EXCEPT ![h][p] = r]
    BY <2>1 DEF Open
  <2> HIDE DEF r
  <2> QED BY <1>0, <1>1, <2>5, <2>6, RowType
<1> QED BY <1>3, <1>4, <1>6, <1>7 DEF Publish

LEMMA ControlStep == TypeInv /\ Next => ControlOK'
<1> SUFFICES ASSUME TypeInv, ControlOK, Next
             PROVE  ControlOK'
  BY DEF TypeInv
<1> USE PeerShareAssumption
<1>1. ASSUME NEW h \in Furnaces, Promote(h)
      PROVE  ControlOK'
  <2>1. UNCHANGED <<pub, shared>>
    BY <1>1 DEF Promote, BeginPromote, Plan, BoxGone, Verify, TaxBox, Move, Reject,
            MoveSides, MoveSide, PromoteDies, mesh
  <2>2. prom' = prom \/ \E to \in PromPc : prom' = [prom EXCEPT ![h] = to]
    BY <1>1 DEF Promote, BeginPromote, Plan, BoxGone, Verify, TaxBox, Move, Reject,
            MoveSides, MoveSide, PromoteDies, Turn, PromPc
  <2> QED BY <2>1, <2>2 DEF ControlOK
<1>2. ASSUME NEW h \in Furnaces, MeshJoin(h)
      PROVE  ControlOK'
  <2>1. UNCHANGED <<pub, prom>>
    BY <1>2 DEF MeshJoin
  <2>2. PICK new \in SUBSET (Furnaces \ {h}) : shared' = [shared EXCEPT ![h] = @ \cup new]
    BY <1>2 DEF MeshJoin
  <2> QED BY <2>1, <2>2 DEF ControlOK
<1>3. ASSUME UNCHANGED <<pub, prom, shared>>
      PROVE  ControlOK'
  BY <1>3 DEF ControlOK
<1>4. ASSUME NEW h \in Senders, \/ Rerender(h) \/ OptIn(h) \/ NewKeys(h) \/ WritePublic(h)
                                \/ KeyingDies(h) \/ HandOver(h)
      PROVE  UNCHANGED <<pub, prom, shared>>
  BY <1>4 DEF Rerender, OptIn, NewKeys, WritePublic, KeyingDies, HandOver, mesh
<1>5. ASSUME NEW h \in Receivers, Render(h) \/ Drop(h) \/ \E a \in Senders : TrustKey(h, a)
      PROVE  UNCHANGED <<pub, prom, shared>>
  BY <1>5 DEF Render, Drop, TrustKey, mesh
<1>6. ASSUME NEW a \in Furnaces, NEW b \in Furnaces, NEW f \in File, Deliver(a, b, f)
      PROVE  UNCHANGED <<pub, prom, shared>>
  BY <1>6 DEF Deliver, mesh
<1> QED BY <1>1, <1>2, <1>3, <1>4, <1>5, <1>6, PublishControl DEF Next

\* A furnace's own public key is the newest one, unless it is being made or
\* making it was cut short.
OwnInv ==
  \A h \in Furnaces : ~keying[h] => pubkey[h] \in {None, priv[h]} \/ h \in died

LEMMA KeysStep == KeysOK /\ OwnInv /\ Next => KeysOK' /\ OwnInv'
<1> SUFFICES ASSUME KeysOK, OwnInv, Next
             PROVE  KeysOK' /\ OwnInv'
  OBVIOUS
<1> USE PeerShareAssumption
<1>1. ASSUME UNCHANGED <<priv, pubkey, trusted, keying, revs>>, died \subseteq died'
      PROVE  KeysOK' /\ OwnInv'
  BY <1>1 DEF KeysOK, OwnInv
<1>2. ASSUME NEW h \in Senders, NEW p \in Publishers, Publish(h, p)
      PROVE  UNCHANGED <<priv, pubkey, trusted, keying, revs>> /\ died \subseteq died'
  BY <1>2 DEF Publish, PublishByHand, ShareVoted, Begin, SourceGone, TaxSource, Sign, Open, Write,
         WriteSig, WriteSha, CannotSign, Hash, CheckStaged, StageGenome, StageSides, StageSide, PublishDies,
         keys, bounds, history
<1>3. ASSUME NEW h \in Furnaces, \/ Promote(h) \/ Render(h) \/ Drop(h) \/ MeshJoin(h)
      PROVE  UNCHANGED <<priv, pubkey, trusted, keying, revs>> /\ died \subseteq died'
  BY <1>3 DEF Promote, BeginPromote, Plan, BoxGone, Verify, TaxBox, Move, Reject,
         MoveSides, MoveSide, PromoteDies, Render, Drop, MeshJoin, keys, bounds, history
<1>4. ASSUME NEW a \in Furnaces, NEW b \in Furnaces, NEW f \in File, Deliver(a, b, f)
      PROVE  UNCHANGED <<priv, pubkey, trusted, keying, revs>> /\ died \subseteq died'
  BY <1>4 DEF Deliver, keys, bounds
<1>5. ASSUME NEW h \in Senders, HandOver(h)
      PROVE  UNCHANGED <<priv, pubkey, trusted, keying, revs>> /\ died \subseteq died'
  BY <1>5 DEF HandOver, keys
<1>6. ASSUME NEW h \in Senders, Rerender(h)
      PROVE  KeysOK' /\ OwnInv'
  BY <1>6 DEF Rerender, keys, KeysOK, OwnInv
<1>7. ASSUME NEW h \in Furnaces, NEW n, WritePrivate(h, n)
      PROVE  /\ priv' \in [Furnaces -> Key \cup {None}] /\ keying' \in [Furnaces -> BOOLEAN]
             /\ UNCHANGED <<pubkey, trusted>>
             /\ \A g \in Furnaces : ~keying'[g] => g # h
             /\ \A g \in Furnaces \ {h} : priv'[g] = priv[g] /\ keying'[g] = keying[g]
  BY <1>7 DEF WritePrivate, KeysOK, Key
<1>8. ASSUME NEW h \in Senders, NewKeys(h)
      PROVE  KeysOK' /\ OwnInv'
  <2>1. h \in Furnaces /\ UNCHANGED <<revs, died>>
    BY <1>8 DEF NewKeys, history
  <2>2. PICK n : WritePrivate(h, n)
    BY <1>8 DEF NewKeys
  <2> QED BY <1>7, <2>1, <2>2 DEF KeysOK, OwnInv
<1>9. ASSUME NEW h \in Senders, WritePublic(h)
      PROVE  KeysOK' /\ OwnInv'
  BY <1>9 DEF WritePublic, bounds, history, KeysOK, OwnInv
<1>10. ASSUME NEW h \in Senders, KeyingDies(h)
       PROVE  KeysOK' /\ OwnInv'
  BY <1>10 DEF KeyingDies, KeysOK, OwnInv
<1>11. ASSUME NEW h \in Senders, OptIn(h)
       PROVE  KeysOK' /\ OwnInv'
  <2>1. h \in Furnaces /\ UNCHANGED <<revs, died>>
    BY <1>11 DEF OptIn, bounds, history
  <2>2. CASE WritePrivate(h, 1)
    BY <1>7, <2>1, <2>2 DEF KeysOK, OwnInv
  <2>3. CASE ~WritePrivate(h, 1)
    <3>1. /\ pubkey' = [pubkey EXCEPT ![h] = IF @ = None THEN priv[h] ELSE @]
          /\ UNCHANGED <<priv, keying, trusted>>
      BY <1>11, <2>3 DEF OptIn, EnsureKeys
    <3> QED BY <2>1, <3>1 DEF KeysOK, OwnInv
  <2> QED BY <2>2, <2>3
<1>12. ASSUME NEW h \in Receivers, NEW a \in Senders, TrustKey(h, a)
       PROVE  KeysOK' /\ OwnInv'
  <2>1. UNCHANGED <<priv, pubkey, keying, revs, died>>
    BY <1>12 DEF TrustKey, bounds, history
  <2>2. PICK kept \in SUBSET Key : trusted' = [trusted EXCEPT ![h] = kept \cup {pubkey[a]}]
    BY <1>12 DEF TrustKey, KeysOK
  <2>3. pubkey[a] \in Key /\ trusted' \in [Furnaces -> SUBSET Key]
    BY <1>12, <2>2 DEF TrustKey, KeysOK
  <2> QED BY <2>1, <2>3 DEF KeysOK, OwnInv
<1> QED BY <1>1, <1>2, <1>3, <1>4, <1>5, <1>6, <1>8, <1>9, <1>10, <1>11, <1>12 DEF Next

LEMMA TypeInit == Init => TypeInv /\ OwnInv
<1> SUFFICES ASSUME Init
             PROVE  TypeInv /\ OwnInv
  OBVIOUS
<1> USE PeerShareAssumption
<1>0. First \in Body /\ Cleaned(First) \in Body
  <2>1. First \in Body
    BY DEF First, Body
  <2> QED BY <2>1, CleanedType
<1>1. ControlOK
  BY DEF Init, BeforePublish, AfterPublish, ControlOK, NoPublish, PubPc, PubRec, OpenOK, PromPc
<1>2. \A h \in Furnaces, n \in 1 .. MaxKeys : <<h, n>> \in Key
  BY DEF Key
<1>3. priv \in [Furnaces -> Key \cup {None}]
  BY <1>2 DEF Init, BeforePublish, AfterPublish
<1>4. KeysOK /\ OwnInv
  BY <1>3 DEF Init, BeforePublish, AfterPublish, KeysOK, OwnInv
<1> DEFINE S == [of : {First, Cleaned(First)}, by : Key] \cup {None}
<1>5. CASE BeforePublish
  <2>1. /\ attested = {}
        /\ at = [h \in Furnaces |-> [d \in Dir |-> IF d = "done" /\ h \in Senders
                                                   THEN Fresh ELSE Nothing]]
    BY <1>5 DEF BeforePublish
  <2>2. \A f \in File : Nothing[f] = None /\ Fresh[f] = IF f = "gen" THEN First ELSE None
    BY DEF Nothing, Fresh, File
  <2>3. {Nothing, Fresh} \subseteq [File -> AnyCell]
    BY <1>0 DEF Nothing, Fresh, AnyCell
  <2>4. at \in [Furnaces -> [Dir -> [File -> AnyCell]]]
    BY <2>1, <2>3
  <2>5. \A h \in Furnaces, d \in Dir, f \in File : at[h][d][f] \in Cell(f, {})
    BY <1>0, <2>1, <2>2 DEF Cell
  <2>6. FilesOK(at, attested)
    BY <2>1, <2>4, <2>5 DEF FilesOK
  <2> QED BY <1>1, <1>4, <2>6 DEF TypeInv
<1>6. CASE AfterPublish
  <2>1. PICK out \in [Senders -> UNION {Left(h) : h \in Senders}] :
          /\ \A h \in Senders : out[h] \in Left(h)
          /\ at = [h \in Furnaces |-> [d \in Dir |->
                    IF h \in Senders /\ d \in {"done", "out"}
                    THEN IF d = "out" THEN out[h] ELSE Fresh ELSE Nothing]]
    BY <1>6 DEF AfterPublish
  <2>2. \A f \in File : Nothing[f] = None /\ Fresh[f] = IF f = "gen" THEN First ELSE None
    BY DEF Nothing, Fresh, File
  <2>3. {Nothing, Fresh} \subseteq [File -> AnyCell]
    BY <1>0 DEF Nothing, Fresh, AnyCell
  <2>4. \A h \in Senders : /\ out[h] \in [File -> AnyCell]
                            /\ out[h]["gen"] \in Body /\ out[h]["sha"] \in Body
                            /\ out[h]["sig"] \in [of : Body, by : Key] \cup {None}
    <3> SUFFICES ASSUME NEW h \in Senders
                 PROVE  /\ out[h] \in [File -> AnyCell]
                        /\ out[h]["gen"] \in Body /\ out[h]["sha"] \in Body
                        /\ out[h]["sig"] \in [of : Body, by : Key] \cup {None}
      OBVIOUS
    <3> DEFINE Made(g, s, m) == out[h] = [f \in File |-> IF f = "gen" THEN g
                                            ELSE IF f = "sig" THEN s ELSE m]
    <3>1. \E g \in Body, m \in Body, s \in [of : Body, by : Key] \cup {None} : Made(g, s, m)
      <4>1. out[h] \in Left(h) /\ h \in Furnaces /\ <<h, 1>> \in Key
        BY <1>2, <2>1
      <4>2. CASE \E n \in 1 .. MaxKeys :
                   out[h] = [Fresh EXCEPT !["sig"] = [of |-> First, by |-> <<h, n>>],
                                          !["sha"] = First]
        <5>1. PICK n \in 1 .. MaxKeys :
                   out[h] = [Fresh EXCEPT !["sig"] = [of |-> First, by |-> <<h, n>>],
                                          !["sha"] = First]
          BY <4>2
        <5>2. [of |-> First, by |-> <<h, n>>] \in [of : Body, by : Key]
          BY <1>0, <1>2, <4>1
        <5>3. Made(First, [of |-> First, by |-> <<h, n>>], First)
          BY <5>1 DEF Fresh, Nothing, File
        <5> QED BY <1>0, <5>2, <5>3
      <4>3. CASE out[h] = [Nothing EXCEPT !["gen"] = Cleaned(First), !["sha"] = Cleaned(First)]
        <5>1. Made(Cleaned(First), None, Cleaned(First))
          BY <4>3 DEF Nothing, File
        <5> QED BY <1>0, <5>1
      <4>4. CASE out[h] = [Fresh EXCEPT !["sha"] = First,
                                        !["sig"] = [of |-> Cleaned(First), by |-> <<h, 1>>]]
        <5>1. [of |-> Cleaned(First), by |-> <<h, 1>>] \in [of : Body, by : Key]
          BY <1>0, <4>1
        <5>2. Made(First, [of |-> Cleaned(First), by |-> <<h, 1>>], First)
          BY <4>4 DEF Fresh, Nothing, File
        <5> QED BY <1>0, <5>1, <5>2
      <4> QED BY <4>1, <4>2, <4>3, <4>4 DEF Left
    <3> QED BY <3>1 DEF AnyCell, File
  <2>5. at \in [Furnaces -> [Dir -> [File -> AnyCell]]]
    BY <2>1, <2>3, <2>4
  <2>6. \A h \in Senders : at[h]["out"] = out[h]
    BY <2>1, PeerShareAssumption DEF Dir
  <2> DEFINE W(h) == {at[h]["out"]["sha"]} \cup
                     IF at[h]["out"]["sig"] = None THEN {} ELSE {at[h]["out"]["sig"].of}
  <2>a. attested = UNION {W(h) : h \in Senders}
    BY <1>6 DEF AfterPublish
  <2>b. \A h \in Senders : /\ W(h) \subseteq Body /\ out[h]["sha"] \in W(h)
                            /\ out[h]["sig"] \in [of : W(h), by : Key] \cup {None}
    <3> SUFFICES ASSUME NEW h \in Senders
                 PROVE  /\ W(h) \subseteq Body /\ out[h]["sha"] \in W(h)
                        /\ out[h]["sig"] \in [of : W(h), by : Key] \cup {None}
      OBVIOUS
    <3>1. W(h) = {out[h]["sha"]} \cup IF out[h]["sig"] = None THEN {} ELSE {out[h]["sig"].of}
      BY <2>6
    <3>2. CASE out[h]["sig"] = None
      BY <2>4, <3>1, <3>2
    <3>3. CASE out[h]["sig"] # None
      BY <2>4, <3>1, <3>3
    <3> QED BY <3>2, <3>3
  <2> HIDE DEF W
  <2>7. attested \subseteq Body /\ \A h \in Senders : W(h) \subseteq attested
    BY <2>a, <2>b
  <2>8. \A h \in Senders, f \in File : out[h][f] \in Cell(f, attested)
    BY <2>4, <2>7, <2>b DEF Cell, File
  <2>9. \A h \in Furnaces, d \in Dir, f \in File : at[h][d][f] \in Cell(f, attested)
    BY <1>0, <2>1, <2>2, <2>8 DEF Cell
  <2>10. FilesOK(at, attested)
    BY <2>5, <2>7, <2>9 DEF FilesOK
  <2> QED BY <1>1, <1>4, <2>10 DEF TypeInv
<1> QED BY <1>5, <1>6 DEF Init

LEMMA TypeStep == TypeInv /\ OwnInv /\ [Next]_vars => TypeInv' /\ OwnInv'
<1>1. CASE UNCHANGED vars
  BY <1>1 DEF vars, files, keys, mesh, bounds, history, TypeInv, ControlOK, KeysOK, OwnInv
<1>2. CASE Next
  BY <1>2, FilesStep, ControlStep, KeysStep DEF TypeInv
<1> QED BY <1>1, <1>2

\* Files, publishes, promotes, keys and links keep their shape, and no furnace
\* comes to share the folder with itself.
THEOREM TypeCorrect == Spec => []TypeOK
<1>1. TypeInv => TypeOK
  <2> SUFFICES ASSUME TypeInv
               PROVE  TypeOK
    OBVIOUS
  <2>1. \A h \in Furnaces, d \in Dir : /\ at[h][d]["gen"] \in Body \cup {None}
                                       /\ at[h][d]["sha"] \in attested \cup {None, Torn}
                                       /\ at[h][d]["sig"] \in [of : attested \cup {Torn}, by : Key] \cup {None}
    BY CellType DEF TypeInv, Cell, File
  <2>2. attested \subseteq Body
    BY DEF TypeInv, FilesOK
  <2> QED BY <2>1, <2>2, PeerShareAssumption DEF TypeInv, ControlOK, KeysOK, TypeOK, PromPc, PubRec
<1> QED BY <1>1, TypeInit, TypeStep, PTL DEF Spec

\* A furnace trusts the key it signs with, whatever keys were made, replaced,
\* trusted or derived, unless gen-keys died between its two files.
THEOREM OwnKey == Spec => []OwnKeyIsTrusted
<1>1. TypeInv /\ OwnInv => OwnKeyIsTrusted
  BY DEF TypeInv, KeysOK, OwnInv, OwnKeyIsTrusted, TrustedKeys, Own
<1> QED BY <1>1, TypeInit, TypeStep, PTL DEF Spec

-----------------------------------------------------------------------------
(* What waits for the worker was attested.                                 *)

Honest(b) == b \in attested \/ \E c \in attested : b = Cleaned(c)

\* A promote past its verification has an attested genome before it, and so
\* has the worker, unless the file was replaced under the promote.
HonestInv ==
  \A h \in Furnaces :
    /\ prom[h] \in {"tax", "move"} /\ Box(h)["gen"] # None
         => Honest(Box(h)["gen"]) \/ h \in swapped
    /\ at[h]["work"]["gen"] # None => Honest(at[h]["work"]["gen"]) \/ h \in swapped

\* Of furnace g nothing the invariant reads changes, except that its genomes go.
Calm(g) ==
  /\ g \in swapped => g \in swapped'
  /\ prom'[g] \in {"tax", "move"} /\ at'[g]["box"]["gen"] # None
       => \/ at'[g]["box"]["gen"] = at[g]["box"]["gen"] /\ prom[g] \in {"tax", "move"}
          \/ g \in swapped'
          \/ Honest(at'[g]["box"]["gen"])
  /\ at'[g]["work"]["gen"] # None
       => \/ at'[g]["work"]["gen"] = at[g]["work"]["gen"]
          \/ g \in swapped'
          \/ Honest(at'[g]["work"]["gen"])

LEMMA CalmIsHonest ==
  ASSUME HonestInv, attested \subseteq attested', \A g \in Furnaces : Calm(g)
  PROVE  HonestInv'
<1>1. \A b : Honest(b) => Honest(b)'
  BY DEF Honest
<1> QED BY <1>1 DEF HonestInv, Calm, Box, Honest

LEMMA OneActs ==
  ASSUME NEW h \in Furnaces, \A g \in Furnaces \ {h} : at'[g] = at[g] /\ prom'[g] = prom[g],
         swapped \subseteq swapped', Calm(h)
  PROVE  \A g \in Furnaces : Calm(g)
  BY DEF Calm

LEMMA PutElsewhere ==
  ASSUME NEW S, FilesOK(at, S), NEW h \in Furnaces, NEW d \in Dir, NEW f \in File, NEW v,
         at' = Put(at, h, d, f, v)
  PROVE  /\ \A g \in Furnaces \ {h} : at'[g] = at[g]
         /\ \A e \in Dir \ {d} : at'[h][e] = at[h][e]
         /\ \A i \in File \ {f} : at'[h][d][i] = at[h][d][i]
         /\ at'[h][d][f] = v
  BY DEF FilesOK, Put

LEMMA QuietCalm ==
  ASSUME UNCHANGED <<prom, swapped>>,
         \A g \in Furnaces : /\ at'[g]["box"]["gen"] = at[g]["box"]["gen"]
                             /\ at'[g]["work"]["gen"] = at[g]["work"]["gen"]
  PROVE  \A g \in Furnaces : Calm(g)
  BY DEF Calm

LEMMA PublishCalm ==
  ASSUME TypeInv, NEW h \in Senders, NEW p \in Publishers, Publish(h, p) \/ Rerender(h)
  PROVE  \A g \in Furnaces : Calm(g)
<1>1. UNCHANGED <<prom, swapped>>
  BY DEF Publish, PublishByHand, ShareVoted, Begin, SourceGone, TaxSource, Sign, Open, Write, WriteSig, WriteSha, CannotSign,
         Hash, CheckStaged, StageGenome, StageSides, StageSide, PublishDies, Rerender, history
<1>2. at \in [Furnaces -> [Dir -> [File -> AnyCell]]] /\ h \in Furnaces
  BY PeerShareAssumption DEF TypeInv, FilesOK
<1>3. \/ at' = at
      \/ \E d \in {"done", "out"}, f \in File : \E v : at' = Put(at, h, d, f, v)
      \/ \E f \in File : at' = Staged(h, p, f)
  BY DEF Publish, PublishByHand, ShareVoted, Begin, SourceGone, TaxSource, Sign, Open, Write, WriteSig, WriteSha, CannotSign,
         Hash, CheckStaged, StageGenome, StageSides, StageSide, PublishDies, Rerender,
         Rewrite, Put, files, File
<1>4. ASSUME NEW g \in Furnaces, NEW e \in {"box", "work"}
      PROVE  at'[g][e] = at[g][e]
  <2>1. CASE \E d \in {"done", "out"}, f \in File : \E v : at' = Put(at, h, d, f, v)
    BY <1>2, <2>1 DEF Put, Dir
  <2>2. CASE \E f \in File : at' = Staged(h, p, f)
    BY <1>2, <2>2 DEF Staged, Dir
  <2> QED BY <1>3, <2>1, <2>2
<1> QED BY <1>1, <1>4, QuietCalm

LEMMA FolderCalm ==
  ASSUME TypeInv, NEW h \in Furnaces,
         \/ HandOver(h) \/ Drop(h) \/ \E a \in Furnaces, f \in File : Deliver(a, h, f)
  PROVE  \A g \in Furnaces : Calm(g)
<1>1. UNCHANGED prom /\ swapped \subseteq swapped'
  BY DEF HandOver, Drop, Deliver, Swap
<1>2. at \in [Furnaces -> [Dir -> [File -> AnyCell]]] /\ {"box", "work"} \subseteq Dir
      /\ {"gen", "sig", "sha"} = File
  BY DEF TypeInv, FilesOK, Dir, File
<1>3. /\ \A g \in Furnaces \ {h} : at'[g] = at[g]
      /\ at'[h]["work"] = at[h]["work"]
      /\ at'[h]["box"]["gen"] = at[h]["box"]["gen"] \/ Swap(h)
  <2>1. CASE HandOver(h)
    <3> DEFINE new == {f \in File : at[h]["out"][f] \notin {None, at[h]["box"][f]}}
    <3>1. /\ at' = [at EXCEPT ![h]["box"] = [f \in File |->
                       IF f \in new THEN at[h]["out"][f] ELSE at[h]["box"][f]]]
          /\ "gen" \in new => Swap(h)
      BY <1>2, <2>1 DEF HandOver
    <3> HIDE DEF new
    <3> QED BY <1>2, <3>1
  <2>2. CASE Drop(h)
    BY <1>2, <2>2 DEF Drop
  <2>3. CASE \E a \in Furnaces, f \in File : Deliver(a, h, f)
    <3>1. PICK a \in Furnaces, f \in File : Deliver(a, h, f)
      BY <2>3
    <3>2. at' = Put(at, h, "box", f, at[a]["box"][f]) /\ (f = "gen" => Swap(h))
      BY <3>1 DEF Deliver, Put
    <3> QED BY <1>2, <3>2, PutElsewhere DEF TypeInv
  <2> QED BY <2>1, <2>2, <2>3
<1>4. Calm(h)
  BY <1>1, <1>3 DEF Calm, Swap
<1> QED BY <1>1, <1>3, <1>4, OneActs

LEMMA PromoteCalm ==
  ASSUME TypeInv, HonestInv, NEW h \in Furnaces, Promote(h) \/ Render(h)
  PROVE  \A g \in Furnaces : Calm(g)
<1>0. /\ at \in [Furnaces -> [Dir -> [File -> AnyCell]]] /\ {"box", "work"} \subseteq Dir
      /\ {"gen", "sig", "sha"} = File /\ prom \in [Furnaces -> PromPc] /\ attested \subseteq Body
      /\ FilesOK(at, attested)
  BY DEF TypeInv, FilesOK, ControlOK, Dir, File
<1>1. UNCHANGED swapped
  BY DEF Promote, BeginPromote, Plan, BoxGone, Verify, TaxBox, Move, Reject, MoveSides,
         MoveSide, PromoteDies, Render, history
<1>2. \A g \in Furnaces \ {h} : prom'[g] = prom[g]
  BY <1>0 DEF Promote, BeginPromote, Plan, BoxGone, Verify, TaxBox, Move, Reject,
         MoveSides, MoveSide, PromoteDies, Render, Turn
<1>3. \A g \in Furnaces \ {h} : at'[g] = at[g]
  BY <1>0 DEF Promote, BeginPromote, Plan, BoxGone, Verify, TaxBox, Move, Reject,
         MoveSides, MoveSide, PromoteDies, Render, Repair, Leave, files
<1> SUFFICES Calm(h)
  BY <1>1, <1>2, <1>3, OneActs
<1>4. CASE Verify(h)
  <2>1. CASE Verified(h)
    <3>1. /\ Box(h)["gen"] # None
          /\ Box(h)["sig"] \in [of : attested \cup {Torn}, by : Key] \cup {None}
          /\ Box(h)["sha"] \in attested \cup {None, Torn}
          /\ Box(h)["gen"] \in Body
      BY <1>0, <1>4, CellType, GenomeType DEF Verify, Box, Cell
    <3>2. Box(h)["gen"] \in attested
      BY <2>1, <3>1, NoneAssumption DEF Verified
    <3> QED BY <1>1, <1>4, <3>2 DEF Calm, Verify, Honest, Box, files
  <2>2. CASE ~Verified(h)
    BY <1>0, <1>1, <1>4, <2>2 DEF Verify, Turn, Calm, files
  <2> QED BY <2>1, <2>2
<1>5. CASE TaxBox(h)
  <2>1. prom[h] = "tax" /\ Box(h)["gen"] # None
    BY <1>5 DEF TaxBox, Turn
  <2>2. Honest(Box(h)["gen"]) \/ h \in swapped
    BY <2>1 DEF HonestInv
  <2>3. Honest(Box(h)["gen"]) => Honest(Cleaned(Box(h)["gen"]))
    BY <1>0, CleanedType DEF Honest
  <2>4. at'[h]["box"]["gen"] \in {Box(h)["gen"], Cleaned(Box(h)["gen"])}
        /\ at'[h]["work"] = at[h]["work"]
    BY <1>0, <1>5 DEF TaxBox, Repair, Box, files
  <2> QED BY <1>1, <2>2, <2>3, <2>4 DEF Calm
<1>6. CASE Move(h)
  <2>1. prom[h] = "move" /\ Box(h)["gen"] # None /\ prom'[h] \in {"idle", "sig"}
    BY <1>0, <1>6 DEF Move, Turn
  <2>2. Honest(Box(h)["gen"]) \/ h \in swapped
    BY <2>1 DEF HonestInv
  <2>3. at'[h]["work"]["gen"] \in {at[h]["work"]["gen"], Box(h)["gen"]}
    BY <1>0, <1>6 DEF Move, Box, files
  <2> QED BY <1>1, <2>1, <2>2, <2>3 DEF Calm
<1>7. CASE Plan(h) \/ BeginPromote(h) \/ BoxGone(h) \/ Reject(h) \/ MoveSides(h) \/ PromoteDies(h)
  <2>1. prom'[h] \notin {"tax", "move"}
    BY <1>0, <1>7 DEF Plan, BeginPromote, BoxGone, Reject, MoveSides, MoveSide,
            PromoteDies, Turn
  <2>2. at'[h]["work"] = at[h]["work"]
    BY <1>0, <1>7 DEF Plan, BeginPromote, BoxGone, Reject, MoveSides, MoveSide,
            PromoteDies, Repair, Leave, files
  <2> QED BY <1>1, <2>1, <2>2 DEF Calm
<1>8. CASE Render(h)
  <2>1. /\ at'[h]["work"]["gen"] = None /\ at'[h]["box"] = at[h]["box"] /\ prom' = prom
    BY <1>0, <1>8 DEF Render
  <2> QED BY <1>1, <2>1 DEF Calm
<1> QED BY <1>4, <1>5, <1>6, <1>7, <1>8 DEF Promote

LEMMA HonestStep == TypeInv /\ HonestInv /\ [Next]_vars => HonestInv'
<1>1. CASE UNCHANGED vars
  BY <1>1 DEF vars, files, history, HonestInv, Honest, Box
<1>2. ASSUME TypeInv, HonestInv, Next
      PROVE  HonestInv'
  <2> USE <1>2, PeerShareAssumption
  <2>1. attested \subseteq attested'
    BY FilesStep
  <2>2. ASSUME UNCHANGED <<at, prom, swapped>>
        PROVE  \A g \in Furnaces : Calm(g)
    BY <2>2, QuietCalm
  <2>3. ASSUME NEW h \in Senders, OptIn(h) \/ NewKeys(h) \/ WritePublic(h) \/ KeyingDies(h)
        PROVE  UNCHANGED <<at, prom, swapped>>
    BY <2>3 DEF OptIn, NewKeys, WritePublic, KeyingDies, files, history
  <2>4. ASSUME NEW h \in Receivers, NEW a \in Senders, TrustKey(h, a)
        PROVE  UNCHANGED <<at, prom, swapped>>
    BY <2>4 DEF TrustKey, files, history
  <2>5. ASSUME NEW h \in Furnaces, MeshJoin(h)
        PROVE  UNCHANGED <<at, prom, swapped>>
    BY <2>5 DEF MeshJoin, files, history
  <2>6. Cron \in Publishers
    OBVIOUS
  <2>7. \A g \in Furnaces : Calm(g)
    BY <2>2, <2>3, <2>4, <2>5, <2>6, PublishCalm, FolderCalm, PromoteCalm DEF Next
  <2> QED BY <2>1, <2>7, CalmIsHonest
<1> QED BY <1>1, <1>2

\* Whatever mixture of files Syncthing brings, whoever drops, replaces, signs or
\* repairs them, the worker is only given a genome some publisher attested,
\* byte for byte or up to promote's repair, unless it was replaced under promote.
THEOREM AttestedOnly == Spec => []OnlyAttestedIsRendered
<1>1. Init => HonestInv
  BY PeerShareAssumption DEF Init, BeforePublish, AfterPublish, HonestInv, Nothing, Dir, File
<1>2. HonestInv => OnlyAttestedIsRendered
  BY PeerShareAssumption DEF HonestInv, Honest, OnlyAttestedIsRendered
<1> QED BY <1>1, <1>2, HonestStep, TypeInit, TypeStep, PTL DEF Spec


-----------------------------------------------------------------------------
(* What publish leaves in share-out matches.  While a sender's genome       *)
(* stands still, each publish has made the sidecars be about it before it   *)
(* goes on, or another has one open and will; and two at once stage the     *)
(* same genome.  So the second to write, to copy, to move or to give up     *)
(* leaves nothing that does not match.                                     *)

SignedFor(dir, b) == dir["sig"] = None \/ dir["sig"].of = b

\* Some publish of the sender is at step x, or is carrying sidecars.
Busy(row, x)  == \E q \in Publishers : row[q].pc = x
Carrying(row) == \E q \in Publishers : row[q].pc \in {"sig", "sha"}

\* done's sidecars are about b, or will be when who has one open has written it.
Signed(done, row, b) == SignedFor(done, b) \/ Busy(row, "writeSig")
Hashed(done, row, b) == done["sha"] = b \/ Busy(row, "writeSha")

\* done is about to be staged to out, by the publish at r.
Prepared(done, out, row, r) ==
  /\ r.pc \in {"hash", "writeSha", "check", "copy"} /\ done["gen"] # None
       => Signed(done, row, done["gen"])
  /\ r.pc \in {"check", "copy"} /\ done["gen"] # None => Hashed(done, row, done["gen"])
  /\ r.pc = "copy" /\ out["gen"] # None => done["gen"] \in {None, out["gen"]}

\* What the publish at r is writing is about the genome, staged or not.
Opened(done, out, row, r) ==
  /\ r.pc = "writeSig" => done["sig"] # None
  /\ r.pc = "writeSha" => done["sha"] # None
  /\ r.pc \in {"writeSig", "writeSha"} =>
       /\ done["gen"] # None => r.of = done["gen"]
       /\ Carrying(row) => r.of = out["gen"]

\* The genome is staged, and the publish at r carries its sidecars, which
\* another one may have carried already.
Staging(done, out, row, r) ==
  r.pc \in {"sig", "sha"} =>
    /\ out["gen"] # None /\ done["gen"] \in {None, out["gen"]}
    /\ r.move => done["gen"] = None
    /\ Signed(done, row, out["gen"])
    /\ done["sha"] = None \/ Hashed(done, row, out["gen"])
    /\ out["sha"] = out["gen"] \/ Hashed(done, row, out["gen"])

OutOK(out, row) ==
  /\ out["gen"] = None => out["sig"] = None /\ out["sha"] = None
  /\ out["gen"] # None =>
       /\ SignedFor(out, out["gen"])
       /\ out["sig"] # None \/ out["sha"] = out["gen"] \/ Carrying(row)

PublishOK(done, out, row, r) ==
  Prepared(done, out, row, r) /\ Opened(done, out, row, r) /\ Staging(done, out, row, r)

SenderOK(done, out, row) ==
  OutOK(out, row) /\ \A p \in Publishers : PublishOK(done, out, row, row[p])

Spoilt(h) == h \in died \cup changed \cup stale \cup crossed

StagedInv == \A h \in Senders : ~Spoilt(h) => SenderOK(at[h]["done"], at[h]["out"], pub[h])

\* Nothing is asked of publishes that have ended.
LEMMA AllIdle ==
  ASSUME NEW done, NEW out, NEW row, OutOK(out, row), \A p \in Publishers : row[p].pc = "idle"
  PROVE  SenderOK(done, out, row)
  BY DEF SenderOK, PublishOK, Prepared, Opened, Staging

\* A publish that goes on changes nobody else's.
LEMMA StepRow ==
  ASSUME ControlOK, NEW h \in Senders, NEW p \in Publishers, NEW from, NEW to, Step(h, p, from, to)
  PROVE  /\ pub[h][p].pc = from
         /\ pub'[h][p].pc = to
         /\ to # "idle" => pub'[h][p].move = pub[h][p].move
         /\ \A q \in Publishers \ {p} : pub'[h][q] = pub[h][q]
         /\ \A g \in Senders \ {h} : pub'[g] = pub[g]
<1> DEFINE r == IF to = "idle" THEN NoPublish
                ELSE [pub[h][p] EXCEPT !.pc = to, !.of = None, !.by = None]
<1>1. pub \in [Senders -> [Publishers -> PubRec]]
  BY DEF ControlOK
<1>2. pub' = [pub EXCEPT ![h][p] = r] /\ pub[h][p].pc = from
  BY DEF Step
<1>3. pub[h][p] \in PubRec
  BY <1>1
<1>4. r.pc = to /\ (to # "idle" => r.move = pub[h][p].move)
  BY <1>3 DEF NoPublish, PubRec
<1> HIDE DEF r
<1>5. pub'[h][p] = r /\ \A q \in Publishers \ {p} : pub'[h][q] = pub[h][q]
  BY <1>1, <1>2
<1>6. \A g \in Senders \ {h} : pub'[g] = pub[g]
  BY <1>1, <1>2
<1> QED BY <1>2, <1>4, <1>5, <1>6

\* A publish that opens a sidecar.
LEMMA OpenRow ==
  ASSUME TypeInv, NEW h \in Senders, NEW p \in Publishers, NEW to, NEW f, NEW torn, NEW key,
         Open(h, p, to, f, torn, key)
  PROVE  /\ pub'[h][p].pc = to /\ pub'[h][p].of = at[h]["done"]["gen"]
         /\ \A q \in Publishers \ {p} : pub'[h][q] = pub[h][q]
         /\ at' = Put(at, h, "done", f, torn) /\ at[h]["done"]["gen"] # None
<1> DEFINE r == [pub[h][p] EXCEPT !.pc = to, !.of = Source(h)["gen"], !.by = key]
<1>1. pub \in [Senders -> [Publishers -> PubRec]]
  BY DEF TypeInv, ControlOK
<1>2. r.pc = to /\ r.of = at[h]["done"]["gen"]
  BY <1>1 DEF PubRec, Source
<1>3. pub' = [pub EXCEPT ![h][p] = r]
  BY DEF Open
<1> HIDE DEF r
<1>4. pub'[h][p] = r /\ \A q \in Publishers \ {p} : pub'[h][q] = pub[h][q]
  BY <1>1, <1>3
<1> QED BY <1>2, <1>4 DEF Open, Put, Source

\* The files of a sender after a step of one of its publishes.
LEMMA CarryFiles ==
  ASSUME NEW S, FilesOK(at, S), ControlOK, NEW h \in Senders, NEW p \in Publishers,
         NEW f \in File, at' = Staged(h, p, f)
  PROVE  /\ \A g \in Furnaces \ {h} : at'[g] = at[g]
         /\ at'[h]["out"][f] = at[h]["done"][f]
         /\ at'[h]["done"][f] = IF pub[h][p].move THEN None ELSE at[h]["done"][f]
         /\ \A e \in File \ {f} : /\ at'[h]["out"][e] = at[h]["out"][e]
                                  /\ at'[h]["done"][e] = at[h]["done"][e]
<1>1. at \in [Furnaces -> [Dir -> [File -> AnyCell]]] /\ h \in Furnaces /\ {"done", "out"} \subseteq Dir
  BY PeerShareAssumption DEF FilesOK, Dir
<1> DEFINE v == IF pub[h][p].move THEN None ELSE at[h]["done"][f]
<1>2. at' = [at EXCEPT ![h]["out"][f] = at[h]["done"][f], ![h]["done"][f] = v]
  BY <1>1 DEF Staged, Source
<1> HIDE DEF v
<1>3. /\ \A g \in Furnaces \ {h} : at'[g] = at[g]
      /\ at'[h]["out"][f] = at[h]["done"][f]
      /\ at'[h]["done"][f] = v
      /\ \A e \in File \ {f} : /\ at'[h]["out"][e] = at[h]["out"][e]
                               /\ at'[h]["done"][e] = at[h]["done"][e]
  BY <1>1, <1>2
<1> QED BY <1>3 DEF v

\* Of sender g nothing changes that the invariant reads.
Same(g) == /\ at'[g]["done"] = at[g]["done"] /\ at'[g]["out"] = at[g]["out"]
           /\ pub'[g] = pub[g]

LEMMA PublishOthers ==
  ASSUME TypeInv, NEW h \in Senders, NEW p \in Publishers, Publish(h, p)
  PROVE  \A g \in Senders \ {h} : Same(g)
<1>1. /\ Senders \subseteq Furnaces
      /\ at \in [Furnaces -> [Dir -> [File -> AnyCell]]] /\ FilesOK(at, attested) /\ ControlOK
      /\ pub \in [Senders -> [Publishers -> PubRec]]
  BY PeerShareAssumption DEF TypeInv, FilesOK, ControlOK
<1>2. \A g \in Senders \ {h} : pub'[g] = pub[g]
  <2>1. \/ \E from, to : Step(h, p, from, to)
        \/ \E r : pub' = [pub EXCEPT ![h][p] = r]
    BY DEF Publish, PublishByHand, ShareVoted, Begin, SourceGone, TaxSource, Sign, Open, Write, WriteSig, WriteSha, CannotSign,
       Hash, CheckStaged, StageGenome, StageSides, StageSide, PublishDies
  <2> QED BY <1>1, <2>1, StepRow
<1>3. \/ at' = at
      \/ \E d \in {"done", "out"}, f \in File : \E v : at' = Put(at, h, d, f, v)
      \/ \E f \in File : at' = Staged(h, p, f)
  BY DEF Publish, PublishByHand, ShareVoted, Begin, SourceGone, TaxSource, Sign, Open, Write, WriteSig, WriteSha, CannotSign,
         Hash, CheckStaged, StageGenome, StageSides, StageSide, PublishDies,
         Rewrite, Put, files, File
<1>4. \A g \in Senders \ {h} : at'[g] = at[g]
  <2>1. CASE \E d \in {"done", "out"}, f \in File : \E v : at' = Put(at, h, d, f, v)
    BY <1>1, <2>1 DEF Put
  <2>2. CASE \E f \in File : at' = Staged(h, p, f)
    BY <1>1, <2>2, CarryFiles
  <2> QED BY <1>3, <2>1, <2>2
<1> QED BY <1>2, <1>4 DEF Same

\* What a publish spoils stays spoilt.
LEMMA SpoiltStays ==
  ASSUME Next, NEW h \in Senders, Spoilt(h)
  PROVE  Spoilt(h)'
<1> DEFINE Grows == /\ died \subseteq died' /\ changed \subseteq changed'
                    /\ stale \subseteq stale' /\ crossed \subseteq crossed'
<1> USE PeerShareAssumption DEF history, bounds, keys
<1>1. ASSUME NEW g \in Senders, NEW p \in Publishers, Publish(g, p) PROVE Grows
  BY <1>1 DEF Publish, PublishByHand, ShareVoted, Begin, SourceGone, TaxSource, Rewrite, Sign, Open, Write,
     WriteSig, WriteSha, CannotSign, Hash, CheckStaged, StageGenome, StageSides, StageSide, PublishDies
<1>2. ASSUME NEW g \in Furnaces, Promote(g) PROVE Grows
  BY <1>2 DEF Promote, BeginPromote, Plan, BoxGone, Verify, TaxBox, Move, Reject, MoveSides,
     MoveSide, PromoteDies
<1>3. ASSUME NEW g \in Furnaces, Render(g) \/ Drop(g) \/ MeshJoin(g) PROVE Grows
  BY <1>3 DEF Render, Drop, MeshJoin
<1>4. ASSUME NEW g \in Senders, HandOver(g) \/ Rerender(g) PROVE Grows
  BY <1>4 DEF HandOver, Rerender, Rewrite
<1>5. ASSUME NEW g \in Senders, OptIn(g) \/ NewKeys(g) \/ WritePublic(g) \/ KeyingDies(g)
      PROVE  Grows
  BY <1>5 DEF OptIn, NewKeys, WritePublic, KeyingDies
<1>6. ASSUME NEW g, NEW a, TrustKey(g, a) PROVE Grows
  BY <1>6 DEF TrustKey
<1>7. ASSUME NEW a, NEW b, NEW f, Deliver(a, b, f) PROVE Grows
  BY <1>7 DEF Deliver
<1>8. Grows
  BY <1>1, <1>2, <1>3, <1>4, <1>5, <1>6, <1>7 DEF Next
<1> QED BY <1>8 DEF Spoilt

\* What a step of the publish p does to who is busy.
LEMMA RowStep ==
  ASSUME NEW row, NEW row2, NEW p \in Publishers, \A q \in Publishers \ {p} : row2[q] = row[q]
  PROVE  /\ \A x : x \notin {row[p].pc, row2[p].pc} => (Busy(row2, x) <=> Busy(row, x))
         /\ \A x : x # row[p].pc => (Busy(row, x) => Busy(row2, x))
         /\ Busy(row2, row2[p].pc)
         /\ row[p].pc \notin {"sig", "sha"} => (Carrying(row) => Carrying(row2))
         /\ row2[p].pc \notin {"sig", "sha"} => (Carrying(row2) => Carrying(row))
         /\ row2[p].pc \in {"sig", "sha"} => Carrying(row2)
         /\ row[p].pc \in {"sig", "sha"} => Carrying(row)
  BY DEF Busy, Carrying

\* A step of one publish keeps its sender's invariant, or spoils it.
LEMMA PublishSender ==
  ASSUME TypeInv, NEW h \in Senders, NEW p \in Publishers, Publish(h, p), ~Spoilt(h)',
         SenderOK(at[h]["done"], at[h]["out"], pub[h])
  PROVE  SenderOK(at'[h]["done"], at'[h]["out"], pub'[h])
<1> DEFINE done == at[h]["done"]
           out  == at[h]["out"]
           row  == pub[h]
           OK(q) == PublishOK(at'[h]["done"], at'[h]["out"], pub'[h], pub'[h][q])
<1>0. /\ FilesOK(at, attested) /\ ControlOK /\ h \in Furnaces
      /\ {"done", "out"} \subseteq Dir /\ File = {"gen", "sig", "sha"}
      /\ pub \in [Senders -> [Publishers -> PubRec]]
  BY PeerShareAssumption DEF TypeInv, ControlOK, Dir, File
<1>a. /\ OutOK(out, row)
      /\ \A q \in Publishers : /\ Prepared(done, out, row, row[q]) /\ Opened(done, out, row, row[q])
                               /\ Staging(done, out, row, row[q])
  BY DEF SenderOK, PublishOK
<1>b. ASSUME NEW f \in File, NEW v, at' = Put(at, h, "done", f, v)
      PROVE  /\ at'[h]["out"] = out /\ at'[h]["done"][f] = v
             /\ \A e \in File \ {f} : at'[h]["done"][e] = done[e]
  BY <1>0, <1>b, PutElsewhere DEF Dir
<1>c. ASSUME OutOK(at'[h]["out"], pub'[h]), OK(p), \A q \in Publishers \ {p} : OK(q)
      PROVE  SenderOK(at'[h]["done"], at'[h]["out"], pub'[h])
  BY <1>c DEF SenderOK
\* Steps that leave the files and who writes or carries them alone.
<1>d. ASSUME at' = at, \A q \in Publishers \ {p} : pub'[h][q] = row[q],
             {row[p].pc, pub'[h][p].pc} \cap {"writeSig", "writeSha", "sig", "sha"} = {},
             Prepared(done, out, row, pub'[h][p])
      PROVE  SenderOK(at'[h]["done"], at'[h]["out"], pub'[h])
  <2>1. /\ Busy(pub'[h], "writeSig") <=> Busy(row, "writeSig")
        /\ Busy(pub'[h], "writeSha") <=> Busy(row, "writeSha")
        /\ Carrying(pub'[h]) <=> Carrying(row)
    BY <1>d, RowStep
  <2>2. OutOK(at'[h]["out"], pub'[h])
    BY <1>a, <1>d, <2>1 DEF OutOK
  <2>3. OK(p)
    BY <1>d, <2>1 DEF PublishOK, Prepared, Opened, Staging, Signed, Hashed
  <2>4. ASSUME NEW q \in Publishers \ {p} PROVE OK(q)
    BY <1>a, <1>d, <2>1 DEF PublishOK, Prepared, Opened, Staging, Signed, Hashed
  <2> QED BY <1>c, <2>2, <2>3, <2>4
<1>1. CASE PublishByHand(h, p) \/ ShareVoted(h, p) \/ SourceGone(h, p)
  <2>1. /\ at' = at /\ \A q \in Publishers \ {p} : pub'[h][q] = row[q]
        /\ pub'[h][p].pc \in {"idle", "tax"}
        /\ row[p].pc \in {"idle", "tax", "sign", "hash", "copy"}
    <3>1. at' = at /\ row[p].pc \in {"idle", "tax", "sign", "hash", "copy"}
      BY <1>1 DEF PublishByHand, ShareVoted, Begin, SourceGone, files
    <3>2. PICK r : pub' = [pub EXCEPT ![h][p] = r] /\ r.pc \in {"idle", "tax"}
      <4>1. \A apply, move :
              [NoPublish EXCEPT !.pc = "tax", !.apply = apply, !.move = move].pc = "tax"
        BY DEF NoPublish
      <4>2. NoPublish.pc = "idle"
        BY DEF NoPublish
      <4>3. CASE SourceGone(h, p)
        BY <4>2, <4>3 DEF SourceGone
      <4>4. CASE PublishByHand(h, p) \/ ShareVoted(h, p)
        <5>1. PICK apply, move : Begin(h, p, apply, move)
          BY <4>4 DEF PublishByHand, ShareVoted
        <5> DEFINE r == [NoPublish EXCEPT !.pc = "tax", !.apply = apply, !.move = move]
        <5>2. pub' = [pub EXCEPT ![h][p] = r] /\ r.pc = "tax"
          BY <4>1, <5>1 DEF Begin
        <5> HIDE DEF r
        <5> QED BY <5>2
      <4> QED BY <1>1, <4>3, <4>4
    <3> QED BY <1>0, <3>1, <3>2
  <2>2. Prepared(done, out, row, pub'[h][p])
    BY <2>1 DEF Prepared
  <2> QED BY <1>d, <2>1, <2>2
<1>2. CASE PublishDies(h, p)
  BY <1>2 DEF PublishDies, Spoilt
<1>4. CASE CheckStaged(h, p)
  <2>1. /\ at' = at /\ \A q \in Publishers \ {p} : pub'[h][q] = row[q]
        /\ pub'[h][p].pc = (IF out["gen"] # None THEN "idle" ELSE "copy") /\ row[p].pc = "check"
    BY <1>0, <1>4, StepRow DEF CheckStaged, files
  <2>2. Prepared(done, out, row, pub'[h][p])
    BY <1>a, <2>1 DEF Prepared
  <2> QED BY <1>d, <2>1, <2>2
\* A publish that cannot sign goes on beside a signature of that genome or none.
<1>3. CASE CannotSign(h, p)
  <2>1. /\ at' = at /\ \A q \in Publishers \ {p} : pub'[h][q] = row[q]
        /\ pub'[h][p].pc = "hash" /\ row[p].pc \in {"sign", "writeSig"}
    BY <1>0, <1>3, StepRow DEF CannotSign, files
  <2>2. SignedFor(done, done["gen"]) /\ done["gen"] # None
    BY <1>3 DEF CannotSign, Spoilt, SignedFor, Source
  <2>3. /\ Busy(pub'[h], "writeSha") <=> Busy(row, "writeSha")
        /\ Carrying(pub'[h]) <=> Carrying(row)
    BY <2>1, RowStep
  <2>4. OutOK(at'[h]["out"], pub'[h])
    BY <1>a, <2>1, <2>3 DEF OutOK
  <2>5. OK(p)
    BY <2>1, <2>2 DEF PublishOK, Prepared, Opened, Staging, Signed
  <2>6. ASSUME NEW q \in Publishers \ {p} PROVE OK(q)
    BY <1>a, <2>1, <2>2, <2>3 DEF PublishOK, Prepared, Opened, Staging, Signed, Hashed
  <2> QED BY <1>c, <2>4, <2>5, <2>6
\* Steps that change what is about to be staged.
<1>5. CASE TaxSource(h, p)
  <2>1. /\ \A q \in Publishers \ {p} : pub'[h][q] = row[q]
        /\ pub'[h][p].pc \in {"idle", "sign"} /\ row[p].pc = "tax"
    <3>1. \E to \in {"idle", "sign"} : Step(h, p, "tax", to)
      BY <1>5 DEF TaxSource
    <3> QED BY <1>0, <3>1, StepRow
  <2>2. CASE at' = at
    <3>1. Prepared(done, out, row, pub'[h][p])
      BY <2>1 DEF Prepared
    <3> QED BY <1>d, <2>1, <2>2, <3>1
  <2>3. ASSUME at' # at, NEW b, Rewrite(h, b, Publishing(h) \ {p})
        PROVE  SenderOK(at'[h]["done"], at'[h]["out"], pub'[h])
    <3>1. at' = Put(at, h, "done", "gen", b)
      BY <2>3 DEF Rewrite, Put
    <3>2. /\ at'[h]["out"] = out /\ at'[h]["done"]["gen"] = b
          /\ at'[h]["done"]["sig"] = done["sig"] /\ at'[h]["done"]["sha"] = done["sha"]
      BY <1>0, <1>b, <3>1
    <3>3. b = done["gen"] \/ Publishing(h) \ {p} = {}
      BY <2>3 DEF Rewrite, Spoilt, Source
    <3>4. /\ Busy(pub'[h], "writeSig") <=> Busy(row, "writeSig")
          /\ Busy(pub'[h], "writeSha") <=> Busy(row, "writeSha")
          /\ Carrying(pub'[h]) <=> Carrying(row)
      BY <2>1, RowStep
    <3>5. OutOK(at'[h]["out"], pub'[h])
      BY <1>a, <3>2, <3>4 DEF OutOK
    <3>6. OK(p)
      BY <2>1 DEF PublishOK, Prepared, Opened, Staging
    <3>7. ASSUME NEW q \in Publishers \ {p} PROVE OK(q)
      <4>1. CASE b = done["gen"]
        BY <1>a, <2>1, <3>2, <3>4, <4>1 DEF PublishOK, Prepared, Opened, Staging, Signed, Hashed,
           SignedFor
      <4>2. CASE Publishing(h) \ {p} = {}
        <5>1. pub'[h][q].pc = "idle"
          BY <2>1, <4>2 DEF Publishing
        <5> QED BY <5>1 DEF PublishOK, Prepared, Opened, Staging
      <4> QED BY <3>3, <4>1, <4>2
    <3> QED BY <1>c, <3>5, <3>6, <3>7
  <2>4. at' = at \/ \E b : Rewrite(h, b, Publishing(h) \ {p})
    BY <1>5 DEF TaxSource
  <2> QED BY <2>2, <2>3, <2>4
\* A sidecar is opened: what it held no longer counts, and it will be about the genome.
<1>6. CASE Sign(h, p) \/ Hash(h, p)
  <2>1. PICK to, torn, key :
          /\ to \in {"writeSig", "writeSha"}
          /\ Open(h, p, to, IF to = "writeSig" THEN "sig" ELSE "sha", torn, key)
          /\ row[p].pc \in {"sign", "hash"} /\ torn # None
          /\ to = "writeSha" => row[p].pc = "hash"
    <3>1. CASE Sign(h, p)
      <4>1. priv[h] \in Key
        BY <1>0, <3>1 DEF Sign, TypeInv, KeysOK
      <4> QED BY <3>1, <4>1, NoneAssumption DEF Sign
    <3>2. CASE Hash(h, p)
      BY <3>2, NoneAssumption DEF Hash
    <3> QED BY <1>6, <3>1, <3>2
  <2> DEFINE f == IF to = "writeSig" THEN "sig" ELSE "sha"
  <2>2. /\ pub'[h][p].pc = to /\ pub'[h][p].of = done["gen"]
        /\ \A q \in Publishers \ {p} : pub'[h][q] = row[q]
        /\ at' = Put(at, h, "done", f, torn) /\ done["gen"] # None
    BY <2>1, OpenRow
  <2>3. /\ at'[h]["out"] = out /\ at'[h]["done"][f] = torn /\ at'[h]["done"]["gen"] = done["gen"]
        /\ \A e \in {"sig", "sha"} : e # f => at'[h]["done"][e] = done[e]
    BY <1>0, <1>b, <2>2
  <2>4. /\ Busy(row, "writeSig") => Busy(pub'[h], "writeSig")
        /\ Busy(row, "writeSha") => Busy(pub'[h], "writeSha")
        /\ Busy(pub'[h], to) /\ (Carrying(pub'[h]) <=> Carrying(row))
    <3>1. /\ row[p].pc \notin {"writeSig", "writeSha", "sig", "sha"}
          /\ pub'[h][p].pc = to /\ to \notin {"sig", "sha"}
      BY <2>1, <2>2
    <3> DEFINE row2 == pub'[h]
    <3>2. \A q \in Publishers \ {p} : row2[q] = row[q]
      BY <2>2
    <3> HIDE DEF row2
    <3>3. /\ \A x : x # row[p].pc => (Busy(row, x) => Busy(row2, x))
          /\ Busy(row2, row2[p].pc)
          /\ row[p].pc \notin {"sig", "sha"} => (Carrying(row) => Carrying(row2))
          /\ row2[p].pc \notin {"sig", "sha"} => (Carrying(row2) => Carrying(row))
      BY <3>2, RowStep
    <3>4. Busy(row, "writeSig") => Busy(row2, "writeSig")
      BY <3>1, <3>3
    <3>5. Busy(row, "writeSha") => Busy(row2, "writeSha")
      BY <3>1, <3>3
    <3> QED BY <3>1, <3>3, <3>4, <3>5 DEF row2
  <2>5. Carrying(row) => done["gen"] = out["gen"]
    BY <1>a, <2>2 DEF Carrying, Staging
  <2>6. OutOK(at'[h]["out"], pub'[h])
    BY <1>a, <2>3, <2>4 DEF OutOK
  <2>7. OK(p)
    BY <1>a, <2>1, <2>2, <2>3, <2>4, <2>5 DEF PublishOK, Prepared, Opened, Staging, Signed, SignedFor
  <2>8. ASSUME NEW q \in Publishers \ {p} PROVE OK(q)
    BY <1>a, <2>1, <2>2, <2>3, <2>4 DEF PublishOK, Prepared, Opened, Staging, Signed, Hashed, SignedFor
  <2> QED BY <1>c, <2>6, <2>7, <2>8
\* It is written.
<1>7. CASE WriteSig(h, p) \/ WriteSha(h, p)
  <2>1. PICK f, to, v :
          /\ f \in {"sig", "sha"}
          /\ Step(h, p, IF f = "sig" THEN "writeSig" ELSE "writeSha", to) /\ Write(h, p, f, v)
          /\ IF f = "sig" THEN to = "hash" /\ v = [of |-> row[p].of, by |-> row[p].by]
                          ELSE to \in {"check", "idle"} /\ v = row[p].of
    BY <1>7 DEF WriteSig, WriteSha
  <2>f. f = "sig" \/ f = "sha"
    BY <2>1
  <2>2. /\ \A q \in Publishers \ {p} : pub'[h][q] = row[q]
        /\ pub'[h][p].pc = to /\ row[p].pc = IF f = "sig" THEN "writeSig" ELSE "writeSha"
    BY <1>0, <2>1, StepRow
  <2>3. v # None /\ (f = "sig" => v.of = row[p].of)
    <3>1. OpenOK(row[p])
      BY <1>0 DEF ControlOK
    <3> QED BY <2>1, <2>2, <3>1, NoneAssumption DEF OpenOK
  <2>4. done[f] # None
    BY <1>a, <2>f, <2>2 DEF Opened
  <2>5. at' = Put(at, h, "done", f, v)
    BY <2>1, <2>4 DEF Write, Put, Source
  <2>6. /\ at'[h]["out"] = out /\ at'[h]["done"][f] = v /\ at'[h]["done"]["gen"] = done["gen"]
        /\ \A e \in {"sig", "sha"} : e # f => at'[h]["done"][e] = done[e]
    <3>1. f \in {"sig", "sha"}
      BY <2>f
    <3> QED BY <1>0, <1>b, <2>5, <3>1
  <2>7. /\ done["gen"] # None => row[p].of = done["gen"]
        /\ Carrying(row) => row[p].of = out["gen"]
    BY <1>a, <2>2 DEF Opened
  <2>8. /\ f = "sig" => (Busy(row, "writeSha") <=> Busy(pub'[h], "writeSha"))
        /\ f = "sha" => (Busy(row, "writeSig") <=> Busy(pub'[h], "writeSig"))
        /\ Carrying(pub'[h]) <=> Carrying(row)
    BY <2>1, <2>2, RowStep
  <2>9. OutOK(at'[h]["out"], pub'[h])
    BY <1>a, <2>6, <2>8 DEF OutOK
  <2>10. OK(p)
    BY <1>a, <2>1, <2>2, <2>3, <2>6, <2>7, <2>8
       DEF PublishOK, Prepared, Opened, Staging, Signed, Hashed, SignedFor
  <2>11. ASSUME NEW q \in Publishers \ {p} PROVE OK(q)
    <3>1. row[q].pc \in {"sig", "sha"} => Carrying(row)
      BY DEF Carrying
    <3> QED BY <1>a, <2>1, <2>2, <2>3, <2>6, <2>7, <2>8, <3>1
            DEF PublishOK, Prepared, Opened, Staging, Signed, Hashed, SignedFor
  <2> QED BY <1>c, <2>9, <2>10, <2>11
\* Steps that stage.
<1>8. CASE StageGenome(h, p)
  <2>1. /\ \A q \in Publishers \ {p} : pub'[h][q] = row[q]
        /\ pub'[h][p].pc = "sig" /\ row[p].pc = "copy" /\ pub'[h][p].move = row[p].move
    BY <1>0, <1>8, StepRow DEF StageGenome
  <2>2. at' = Staged(h, p, "gen") /\ done["gen"] # None
    BY <1>8 DEF StageGenome, Source
  <2>3. /\ at'[h]["out"]["gen"] = done["gen"]
        /\ at'[h]["done"]["gen"] = IF row[p].move THEN None ELSE done["gen"]
        /\ at'[h]["out"]["sig"] = out["sig"] /\ at'[h]["done"]["sig"] = done["sig"]
        /\ at'[h]["out"]["sha"] = out["sha"] /\ at'[h]["done"]["sha"] = done["sha"]
    BY <1>0, <2>2, CarryFiles
  <2>4. /\ Signed(done, row, done["gen"]) /\ Hashed(done, row, done["gen"])
        /\ out["gen"] # None => done["gen"] = out["gen"]
    BY <1>a, <2>1, <2>2 DEF Prepared
  <2>5. /\ Busy(pub'[h], "writeSig") <=> Busy(row, "writeSig")
        /\ Busy(pub'[h], "writeSha") <=> Busy(row, "writeSha")
        /\ Carrying(pub'[h])
    BY <2>1, RowStep
  <2>6. OutOK(at'[h]["out"], pub'[h])
    BY <1>a, <2>2, <2>3, <2>4, <2>5 DEF OutOK, SignedFor
  <2>7. OK(p)
    BY <2>1, <2>2, <2>3, <2>4, <2>5
       DEF PublishOK, Prepared, Opened, Staging, Signed, Hashed, SignedFor
  <2>8. ASSUME NEW q \in Publishers \ {p} PROVE OK(q)
    BY <1>a, <2>1, <2>2, <2>3, <2>4, <2>5
       DEF PublishOK, Prepared, Opened, Staging, Signed, Hashed, SignedFor
  <2> QED BY <1>c, <2>6, <2>7, <2>8
<1>9. ASSUME NEW f \in {"sig", "sha"}, NEW next \in {"sha", "idle"}, StageSide(h, p, f, next),
             f = "sig" <=> next = "sha"
      PROVE  SenderOK(at'[h]["done"], at'[h]["out"], pub'[h])
  <2>1. /\ \A q \in Publishers \ {p} : pub'[h][q] = row[q]
        /\ pub'[h][p].pc = next /\ row[p].pc = f
        /\ next = "sha" => pub'[h][p].move = row[p].move
    BY <1>0, <1>9, StepRow DEF StageSide
  <2>a. /\ Busy(pub'[h], "writeSig") <=> Busy(row, "writeSig")
        /\ Busy(pub'[h], "writeSha") <=> Busy(row, "writeSha")
        /\ Carrying(row) /\ (f = "sig" => Carrying(pub'[h]))
    BY <1>9, <2>1, RowStep
  <2>b. /\ f = "sig" => ~Busy(row, "writeSig")
        /\ f = "sha" => ~Busy(row, "writeSha")
    <3>1. ~Writing(h, f)
      BY <1>9 DEF StageSide, Spoilt
    <3> QED BY <3>1 DEF Writing, Busy
  <2>2. /\ out["gen"] # None /\ done["gen"] \in {None, out["gen"]}
        /\ row[p].move => done["gen"] = None
        /\ Signed(done, row, out["gen"])
        /\ done["sha"] = None \/ Hashed(done, row, out["gen"])
        /\ out["sha"] = out["gen"] \/ Hashed(done, row, out["gen"])
    BY <1>a, <2>1 DEF Staging
  <2>3. \/ done[f] = None /\ at' = at
        \/ done[f] # None /\ at' = Staged(h, p, f)
    BY <1>9 DEF StageSide, Source
  <2>4. /\ at'[h]["out"]["gen"] = out["gen"] /\ at'[h]["done"]["gen"] = done["gen"]
        /\ \A e \in {"sig", "sha"} : e # f =>
             at'[h]["out"][e] = out[e] /\ at'[h]["done"][e] = done[e]
        /\ at'[h]["out"][f] = IF done[f] = None THEN out[f] ELSE done[f]
        /\ at'[h]["done"][f] = IF row[p].move THEN None ELSE done[f]
    <3>1. CASE at' = Staged(h, p, f) /\ done[f] # None
      BY <1>0, <3>1, CarryFiles
    <3>2. CASE at' = at /\ done[f] = None
      BY <3>2
    <3> QED BY <2>3, <3>1, <3>2
  <2>5. ASSUME NEW q \in Publishers \ {p}
        PROVE  /\ row[q].pc = "writeSig" => f = "sha"
               /\ row[q].pc = "writeSha" => f = "sig"
    BY <2>b DEF Busy
  <2>6. CASE f = "sig"
    <3>1. OutOK(at'[h]["out"], pub'[h])
      BY <1>a, <2>2, <2>4, <2>6, <2>a, <2>b DEF OutOK, Signed, SignedFor
    <3>2. OK(p)
      BY <1>9, <2>1, <2>2, <2>4, <2>6, <2>a, <2>b
         DEF PublishOK, Prepared, Opened, Staging, Signed, Hashed, SignedFor
    <3>3. ASSUME NEW q \in Publishers \ {p} PROVE OK(q)
      BY <1>a, <2>1, <2>2, <2>4, <2>5, <2>6, <2>a, <2>b
         DEF PublishOK, Prepared, Opened, Staging, Signed, Hashed, SignedFor
    <3> QED BY <1>c, <3>1, <3>2, <3>3
  <2>7. CASE f = "sha"
    <3>1. OutOK(at'[h]["out"], pub'[h])
      BY <1>a, <2>2, <2>4, <2>7, <2>b, NoneAssumption, GenomeType, <1>0 DEF OutOK, Hashed, SignedFor
    <3>2. OK(p)
      BY <1>9, <2>1, <2>7 DEF PublishOK, Prepared, Opened, Staging
    <3>3. ASSUME NEW q \in Publishers \ {p} PROVE OK(q)
      BY <1>a, <2>1, <2>2, <2>4, <2>5, <2>7, <2>a, <2>b
         DEF PublishOK, Prepared, Opened, Staging, Signed, Hashed, SignedFor
    <3> QED BY <1>c, <3>1, <3>2, <3>3
  <2> QED BY <2>6, <2>7
<1>10. CASE StageSides(h, p)
  BY <1>9, <1>10 DEF StageSides
<1> QED BY <1>1, <1>2, <1>3, <1>4, <1>5, <1>6, <1>7, <1>8, <1>10 DEF Publish

LEMMA StagedStep == TypeInv /\ StagedInv /\ [Next]_vars => StagedInv'
<1>1. CASE UNCHANGED vars
  BY <1>1 DEF vars, files, history, StagedInv, Spoilt
<1>2. ASSUME TypeInv, StagedInv, Next, NEW h \in Senders, ~Spoilt(h)'
      PROVE  SenderOK(at'[h]["done"], at'[h]["out"], pub'[h])
  <2> USE PeerShareAssumption
  <2>1. SenderOK(at[h]["done"], at[h]["out"], pub[h])
    BY <1>2, SpoiltStays DEF StagedInv
  <2>2. /\ at \in [Furnaces -> [Dir -> [File -> AnyCell]]] /\ FilesOK(at, attested)
        /\ {"done", "out", "box", "work"} = Dir /\ h \in Furnaces
    BY <1>2 DEF TypeInv, FilesOK, Dir
  <2>3. ASSUME Same(h)
        PROVE  SenderOK(at'[h]["done"], at'[h]["out"], pub'[h])
    BY <2>1, <2>3 DEF Same
  <2>4. ASSUME NEW g \in Senders, NEW p \in Publishers, Publish(g, p)
        PROVE  SenderOK(at'[h]["done"], at'[h]["out"], pub'[h])
    <3>1. CASE g = h
      BY <1>2, <2>1, <2>4, <3>1, PublishSender
    <3>2. CASE g # h
      BY <1>2, <2>3, <2>4, <3>2, PublishOthers
    <3> QED BY <3>1, <3>2
  \* A re-render is only harmless while nothing is being published.
  <2>5. ASSUME NEW g \in Senders, Rerender(g)
        PROVE  SenderOK(at'[h]["done"], at'[h]["out"], pub'[h])
    <3> DEFINE b == [rev |-> revs + 1, clean |-> g \in Taxers]
    <3>1. Rewrite(g, b, Publishing(g)) /\ pub' = pub
      BY <2>5 DEF Rerender
    <3> HIDE DEF b
    <3>2. at' = Put(at, g, "done", "gen", b)
      BY <3>1 DEF Rewrite, Put
    <3>3. CASE g # h
      BY <2>1, <2>2, <3>1, <3>2, <3>3, PutElsewhere DEF File
    <3>4. CASE g = h
      <4>1. /\ at'[h]["out"] = at[h]["out"] /\ at'[h]["done"]["gen"] = b
            /\ at'[h]["done"]["sig"] = at[h]["done"]["sig"]
            /\ at'[h]["done"]["sha"] = at[h]["done"]["sha"]
        BY <2>2, <3>2, <3>4, PutElsewhere DEF File
      <4>2. b = at[h]["done"]["gen"] \/ Publishing(h) = {}
        BY <1>2, <3>1, <3>4 DEF Rewrite, Spoilt, Source
      <4>3. CASE b = at[h]["done"]["gen"]
        BY <2>1, <3>1, <4>1, <4>3 DEF SenderOK, OutOK, PublishOK, Prepared, Opened, Staging, Signed,
           Hashed, SignedFor
      <4>4. CASE Publishing(h) = {}
        <5>1. \A p \in Publishers : pub[h][p].pc = "idle"
          BY <4>4 DEF Publishing
        <5> QED BY <2>1, <3>1, <4>1, <5>1, AllIdle DEF SenderOK
      <4> QED BY <4>2, <4>3, <4>4
    <3> QED BY <3>3, <3>4
  \* All else happens in the shared folder, the inbox or among keys and links.
  <2>6. ASSUME NEW g \in Senders, OptIn(g) \/ NewKeys(g) \/ WritePublic(g) \/ KeyingDies(g)
        PROVE  Same(h)
    BY <2>6 DEF OptIn, NewKeys, WritePublic, KeyingDies, files, Same
  <2>7. ASSUME NEW g \in Senders, HandOver(g)
        PROVE  Same(h)
    <3>1. pub' = pub /\ \E c : at' = [at EXCEPT ![g]["box"] = c]
      BY <2>7 DEF HandOver
    <3> QED BY <2>2, <3>1 DEF Same
  <2>8. ASSUME NEW g \in Furnaces, Promote(g)
        PROVE  Same(h)
    <3>1. pub' = pub
      BY <2>8 DEF Promote, BeginPromote, Plan, BoxGone, Verify, TaxBox, Move, Reject,
         MoveSides, MoveSide, PromoteDies
    <3>2. ASSUME NEW v, NEW f \in File, at' = [at EXCEPT ![g]["box"][f] = v]
          PROVE  at'[h]["done"] = at[h]["done"] /\ at'[h]["out"] = at[h]["out"]
      BY <2>2, <3>2
    <3>3. \/ at' = at \/ \E v : \E f \in File : at' = [at EXCEPT ![g]["box"][f] = v]
          \/ Move(g)
      BY <2>8 DEF Promote, BeginPromote, Plan, BoxGone, Verify, TaxBox, Reject,
         MoveSides, MoveSide, PromoteDies, Repair, Leave, files, File
    <3>4. CASE Move(g)
      <4>1. at' = at \/ \E v : at' = [at EXCEPT ![g]["work"]["gen"] = v, ![g]["box"]["gen"] = None]
        BY <3>4 DEF Move, files
      <4>2. ASSUME NEW v, at' = [at EXCEPT ![g]["work"]["gen"] = v, ![g]["box"]["gen"] = None]
            PROVE  at'[h]["done"] = at[h]["done"] /\ at'[h]["out"] = at[h]["out"]
        BY <2>2, <4>2
      <4> QED BY <3>1, <4>1, <4>2 DEF Same
    <3>5. CASE at' = at
      BY <3>1, <3>5 DEF Same
    <3> QED BY <3>1, <3>2, <3>3, <3>4, <3>5 DEF Same
  <2>9. ASSUME NEW g \in Furnaces, Render(g) \/ Drop(g)
        PROVE  Same(h)
    <3>1. pub' = pub
      BY <2>9 DEF Render, Drop
    <3>2. \E d \in {"box", "work"} : \E v : at' = [at EXCEPT ![g][d]["gen"] = v]
      BY <2>9 DEF Render, Drop
    <3>3. at'[h]["done"] = at[h]["done"] /\ at'[h]["out"] = at[h]["out"]
      BY <2>2, <3>2
    <3> QED BY <3>1, <3>3 DEF Same
  <2>10. ASSUME NEW g \in Receivers, NEW a \in Senders, TrustKey(g, a)
         PROVE  Same(h)
    BY <2>10 DEF TrustKey, files, Same
  <2>11. ASSUME NEW g \in Furnaces, MeshJoin(g)
         PROVE  Same(h)
    BY <2>11 DEF MeshJoin, files, Same
  <2>12. ASSUME NEW a \in Furnaces, NEW g \in Furnaces, NEW f \in File, Deliver(a, g, f)
         PROVE  Same(h)
    <3>1. at' = [at EXCEPT ![g]["box"][f] = at[a]["box"][f]] /\ pub' = pub
      BY <2>12 DEF Deliver
    <3> QED BY <2>2, <3>1 DEF Same
  <2> QED BY <1>2, <2>3, <2>4, <2>5, <2>6, <2>7, <2>8, <2>9, <2>10, <2>11, <2>12 DEF Next
<1> QED BY <1>1, <1>2 DEF StagedInv

LEMMA StagedInit == Init => StagedInv
<1> SUFFICES ASSUME Init, NEW h \in Senders, ~Spoilt(h)
             PROVE  SenderOK(at[h]["done"], at[h]["out"], pub[h])
  BY DEF StagedInv
<1>1. \A p \in Publishers : pub[h][p].pc = "idle"
  BY DEF Init, NoPublish
<1>2. h \in Furnaces /\ "out" \in Dir /\ \A f \in File : Nothing[f] = None
  BY PeerShareAssumption DEF Dir, Nothing
<1>3. CASE BeforePublish
  <2>1. at[h]["out"] = Nothing
    BY <1>2, <1>3 DEF BeforePublish
  <2> QED BY <1>1, <1>2, <2>1, AllIdle DEF OutOK, File
<1>4. CASE AfterPublish
  <2> DEFINE out == at[h]["out"]
  <2>1. out \in UNION {Left(g) : g \in Senders}
    BY <1>2, <1>4 DEF AfterPublish
  <2>2. Matches(out)
    BY <1>4 DEF AfterPublish, Spoilt
  <2>3. {First, Cleaned(First)} \subseteq Body
    <3>1. First \in Body
      BY PeerShareAssumption DEF First, Body
    <3> QED BY <3>1, CleanedType
  <2>4. out["gen"] \in {First, Cleaned(First)}
    BY <2>1 DEF Left, Fresh, Nothing, File
  <2>5. out["gen"] # None
    BY <2>3, <2>4, NoneAssumption
  <2> QED BY <1>1, <2>2, <2>5, AllIdle DEF OutOK, SignedFor, Matches
<1> QED BY <1>3, <1>4 DEF Init

\* Once publish has ended, the staged sidecars are about the staged genome,
\* whichever of two publishes wrote, copied, moved or found it gone first: unless
\* one died, the genome changed under it, it could not renew a signature, or one
\* staged a sidecar another had open (peering publish, share_votes).
THEOREM StagedMatches == Spec => []StagedVerifies
<1>1. StagedInv => StagedVerifies
  BY DEF StagedInv, StagedVerifies, SenderOK, OutOK, SignedFor, Matches, Publishing, Carrying, Spoilt
<1> QED BY <1>1, TypeInit, TypeStep, StagedInit, StagedStep, PTL DEF Spec
=============================================================================
