--------------------------- MODULE FurnaceProofs ---------------------------
(* Proofs about Furnace for any number of genomes, sheep, jobs and crashes. *)
EXTENDS Furnace, TLAPS

-----------------------------------------------------------------------------
(* What the worker has in hand at each step.                               *)

\* poll_inbox has taken a name from the queue.
PickSteps == {"preflight", "postFail", "postUnlink"}

\* process_genome holds the claimed genome.
HoldSteps == {"claimUnlink", "wClaimed", "tax", "taxQuar", "taxUnlink",
              "optimize", "assess", "wRendering", "sequence", "animate",
              "wEncoding", "collect", "ffmpeg", "wGating", "gate", "rotate",
              "rotateMove", "install", "wSidecar", "wIngested", "dropFrames",
              "archive"}

\* process_genome has a job directory.
JobSteps == HoldSteps \cup {"wQueued", "claim", "leftover", "wFailed",
                            "failQuar", "failUnlink", "wQuarError", "failFrames"}

InHand ==
  /\ pc \in PickSteps \cup JobSteps => pick \in Bases
  /\ pc \in JobSteps => job \in Jobs /\ base[job] = pick
  /\ pc \in HoldSteps => file[job] \in Genomes

InRecovery == rstep # "idle" => rjob \in Jobs

TypeInv == TypeOK /\ InHand /\ InRecovery

LEMMA TypeInit == Init => TypeInv
<1> SUFFICES ASSUME Init PROVE TypeInv
  OBVIOUS
<1>1. crashes \in 0..MaxCrashes
  BY FurnaceAssumption DEF Init
<1>2. /\ inbox \in [Bases -> MaybeGenome] /\ sidecar \in [Bases -> MaybeGenome]
      /\ file \in [Jobs -> MaybeGenome] /\ tv \in [Jobs -> MaybeGenome]
      /\ catalog \in [Bases -> MaybeGenome \cup {Torn}]
      /\ prev \in [Bases -> MaybeGenome \cup {Torn}]
      /\ base \in [Jobs -> Bases \cup {None}]
  BY DEF Init, MaybeGenome
<1>3. /\ rec \in [Jobs -> {"none", "torn"} \cup InFlight \cup Terminal]
      /\ src \in [Jobs -> {"inbox", "job"}]
      /\ frames \in [Jobs -> BOOLEAN]
  BY DEF Init
<1>4. TypeOK
  BY <1>1, <1>2, <1>3 DEF Init, TypeOK
<1>5. InHand /\ InRecovery
  BY DEF Init, InHand, InRecovery, PickSteps, HoldSteps, JobSteps
<1> QED BY <1>4, <1>5 DEF TypeInv

LEMMA TypeStep == TypeInv /\ [Next]_vars => TypeInv'
<1> SUFFICES ASSUME TypeInv, [Next]_vars PROVE TypeInv'
  OBVIOUS
<1> USE FurnaceAssumption
    DEF TypeInv, TypeOK, InHand, InRecovery, PickSteps, HoldSteps, JobSteps,
        MaybeGenome, InFlight, Terminal, InFlightJobs, Goto, jobVars, catVars,
        recVars, history,
        workVars, WriteJob, WriteJobFails, FreeHands
<1>1. CASE \E g \in Genomes : Land(g)
  BY <1>1 DEF Land
<1>2. CASE Begin
  <2>1. CASE Pick BY <2>1 DEF Pick
  <2>2. CASE PreflightFail BY <2>2 DEF PreflightFail
  <2>3. CASE MakeJob BY <2>3 DEF MakeJob
  <2>4. CASE WriteQueued BY <2>4 DEF WriteQueued, WriteState
  <2>5. CASE Claim BY <2>5 DEF Claim
  <2>6. CASE ClaimUnlink BY <2>6 DEF ClaimUnlink
  <2>7. CASE ClaimFail BY <2>7 DEF ClaimFail
  <2>8. CASE WriteClaimed BY <2>8 DEF WriteClaimed, WriteState
  <2> QED BY <1>2, <2>1, <2>2, <2>3, <2>4, <2>5, <2>6, <2>7, <2>8 DEF Begin
<1>3. CASE Produce
  <2>1. CASE Tax BY <2>1 DEF Tax
  <2>2. CASE Optimize BY <2>2 DEF Optimize
  <2>3. CASE OptimizeFail \/ Sequence \/ Animate \/ Collect \/ Encode
    BY <2>3 DEF OptimizeFail, Sequence, Animate, Collect, Encode, Stage
  <2>4. CASE Assess \/ Gate BY <2>4 DEF Assess, Gate, Judge, WriteState
  <2>5. CASE WriteRendering \/ WriteEncoding \/ WriteGating
    BY <2>5 DEF WriteRendering, WriteEncoding, WriteGating, WriteState
  <2> QED BY <1>3, <2>1, <2>2, <2>3, <2>4, <2>5 DEF Produce
<1>4. CASE Publish
  <2>1. CASE RotateDropPrev BY <2>1 DEF RotateDropPrev
  <2>2. CASE RotateMove BY <2>2 DEF RotateMove
  <2>3. CASE RotateNothing BY <2>3 DEF RotateNothing
  <2>4. CASE Install BY <2>4 DEF Install
  <2>5. CASE PublishFail BY <2>5 DEF PublishFail
  <2>6. CASE WriteSidecar BY <2>6 DEF WriteSidecar
  <2>7. CASE WriteIngested BY <2>7 DEF WriteIngested, WriteState
  <2>8. CASE DropFrames("dropFrames", "archive") BY <2>8 DEF DropFrames
  <2>9. CASE Archive BY <2>9 DEF Archive
  <2>10. CASE Leftover BY <2>10 DEF Leftover
  <2> QED BY <1>4, <2>1, <2>2, <2>3, <2>4, <2>5, <2>6, <2>7, <2>8, <2>9, <2>10
          DEF Publish
<1>5. CASE Fail
  <2>1. CASE WriteFailed \/ WriteQuarError
    BY <2>1 DEF WriteFailed, WriteQuarError, WriteState
  <2>2. CASE TaxQuarantine BY <2>2 DEF TaxQuarantine, QuarantineCopy
  <2>3. CASE UnlinkClaimed("taxUnlink", "wFailed", "wFailed") BY <2>3 DEF UnlinkClaimed
  <2>4. CASE FailQuarantine
    BY <2>4 DEF FailQuarantine, QuarantineCopy, Held, Claimed
  <2>5. CASE FailNothing BY <2>5 DEF FailNothing
  <2>6. CASE UnlinkClaimed("failUnlink", "failFrames", "wQuarError") BY <2>6 DEF UnlinkClaimed
  <2>7. CASE DropFrames("failFrames", "postFail") BY <2>7 DEF DropFrames
  <2>8. CASE PostQuarantine BY <2>8 DEF PostQuarantine, QuarantineCopy
  <2>9. CASE PostUnlink BY <2>9 DEF PostUnlink
  <2>10. CASE PostNothing BY <2>10 DEF PostNothing
  <2> QED BY <1>5, <2>1, <2>2, <2>3, <2>4, <2>5, <2>6, <2>7, <2>8, <2>9, <2>10
          DEF Fail
<1>6. CASE Ready BY <1>6 DEF Ready
<1>7. ASSUME NEW by \in {"worker", "cli"}, ReclaimBegin(by) PROVE TypeInv'
  BY <1>7 DEF ReclaimBegin
<1>8. CASE ReclaimStage BY <1>8 DEF ReclaimStage, Candidate
<1>9. CASE ReclaimWrite BY <1>9 DEF ReclaimWrite
<1>10. CASE Crash BY <1>10 DEF Crash, WriteSteps
<1>11. CASE UNCHANGED vars BY <1>11 DEF vars
<1> QED BY <1>1, <1>2, <1>3, <1>4, <1>5, <1>6, <1>7, <1>8, <1>9, <1>10, <1>11
        DEF Next, Worker, Recover

\* The worker, startup recovery, the CLI and every crash keep the state well
\* typed, and the worker acts only on a job, a name and a genome it holds.
THEOREM TypeCorrect == Spec => []TypeOK
<1>1. Spec => []TypeInv
  BY TypeInit, TypeStep, PTL DEF Spec
<1>2. TypeInv => TypeOK
  BY DEF TypeInv
<1> QED BY <1>1, <1>2, PTL

-----------------------------------------------------------------------------
(* No job record outlives its worker in flight.                            *)

\* The steps at which the worker's own record may be in flight.
OwnerSteps == JobSteps \ {"wQueued", "dropFrames", "archive", "leftover",
                          "failQuar", "failUnlink", "wQuarError", "failFrames"}

\* A record is in flight only while the worker is at work on that very job, or
\* before startup recovery is through, or because a write of it failed.
OwnedOrStarting ==
  pc # "start" =>
    \A j \in InFlightJobs : j \in unwritten \/ (pc \in OwnerSteps /\ j = job)

GhostInv == TypeInv /\ OwnedOrStarting

LEMMA GhostStep == GhostInv /\ [Next]_vars => OwnedOrStarting'
<1> SUFFICES ASSUME GhostInv, [Next]_vars PROVE OwnedOrStarting'
  OBVIOUS
<1> USE DEF GhostInv, TypeInv, TypeOK, InHand, InRecovery, OwnedOrStarting,
            OwnerSteps, HoldSteps, JobSteps, InFlight, Terminal, InFlightJobs,
            Goto, jobVars, recVars, history,
            workVars, WriteJob, WriteJobFails, FreeHands
<1>1. CASE Begin
  BY <1>1 DEF Begin, Pick, PreflightFail, MakeJob, WriteQueued, WriteState,
              Claim, ClaimUnlink, ClaimFail, WriteClaimed, PickSteps
<1>2. CASE Produce
  <2>1. CASE Tax \/ Optimize \/ OptimizeFail \/ Sequence \/ Animate
             \/ Collect \/ Encode
    BY <2>1 DEF Tax, Optimize, OptimizeFail, Sequence, Animate, Collect,
                Encode, Stage
  <2>2. CASE Assess \/ Gate \/ WriteRendering \/ WriteEncoding \/ WriteGating
    BY <2>2 DEF Assess, Gate, Judge, WriteRendering, WriteEncoding,
                WriteGating, WriteState
  <2> QED BY <1>2, <2>1, <2>2 DEF Produce
<1>3. CASE Publish
  <2>1. CASE WriteIngested BY <2>1 DEF WriteIngested, WriteState
  <2>2. CASE PublishFail BY <2>2 DEF PublishFail
  <2> QED BY <1>3, <2>1, <2>2
          DEF Publish, RotateDropPrev, RotateMove, RotateNothing, Install,
              WriteSidecar, DropFrames, Archive, Leftover
<1>4. CASE Fail
  <2>1. CASE WriteFailed \/ WriteQuarError
    BY <2>1 DEF WriteFailed, WriteQuarError, WriteState
  <2> QED BY <1>4, <2>1
          DEF Fail, TaxQuarantine, UnlinkClaimed, FailQuarantine, FailNothing,
              QuarantineCopy, DropFrames, PostQuarantine, PostUnlink,
              PostNothing
<1>5. CASE Ready \/ Crash
  BY <1>5 DEF Ready, Crash
<1>6. CASE \E by \in {"worker", "cli"} : ReclaimBegin(by)
  BY <1>6 DEF ReclaimBegin
<1>7. CASE ReclaimStage \/ ReclaimWrite
  BY <1>7 DEF ReclaimStage, ReclaimWrite
<1>8. CASE (\E g \in Genomes : Land(g)) \/ UNCHANGED vars
  BY <1>8 DEF Land, vars
<1> QED BY <1>1, <1>2, <1>3, <1>4, <1>5, <1>6, <1>7, <1>8
        DEF Next, Worker, Recover

\* However many crashes and disk errors there are, and whatever the CLI takes
\* from a live worker, a worker that waits for the next genome leaves no record
\* in flight, for a drain to wait for, but one that a write of it failed to end.
THEOREM NoGhost == Spec => []NoGhostJob
<1>1. Init => GhostInv
  BY TypeInit DEF Init, GhostInv, OwnedOrStarting
<1>2. GhostInv /\ [Next]_vars => GhostInv'
  BY TypeStep, GhostStep DEF GhostInv
<1>3. GhostInv => NoGhostJob
  BY DEF GhostInv, OwnedOrStarting, OwnerSteps, JobSteps, HoldSteps, NoGhostJob,
         AtRest
<1> QED BY <1>1, <1>2, <1>3, PTL DEF Spec

-----------------------------------------------------------------------------
(* The last copy of a genome.                                              *)

\* A job directory is empty until its worker claims into it.
FreshJobs == \A j \in Jobs : base[j] = None => file[j] = None

\* Before a file is overwritten or removed its genome is somewhere else.
SafeHands ==
  /\ pc \in {"wQueued", "claim"} => file[job] = None
  /\ pc = "claimUnlink" => inbox[pick] = file[job]
  /\ pc \in {"taxUnlink", "failUnlink"} => file[job] \in quar \cup {None}
  /\ pc = "postUnlink" => inbox[pick] \in quar

KeepInv == TypeInv /\ FreshJobs /\ SafeHands /\ NoGenomeErased

LEMMA KeepStep ==
  ASSUME ~Restage
  PROVE  KeepInv /\ [Next]_vars => (FreshJobs /\ SafeHands /\ NoGenomeErased)'
<1> SUFFICES ASSUME ~Restage, KeepInv, [Next]_vars
             PROVE  (FreshJobs /\ SafeHands /\ NoGenomeErased)'
  OBVIOUS
<1> USE FurnaceAssumption
    DEF KeepInv, TypeInv, TypeOK, InHand, InRecovery, FreshJobs, SafeHands,
        NoGenomeErased, Settled, Waits, InJobDir, PickSteps, HoldSteps,
        JobSteps, MaybeGenome, Goto, jobVars, catVars, recVars, history,
        workVars, WriteJob, WriteJobFails, FreeHands
<1>1. CASE \E g \in Genomes : Land(g)
  BY <1>1 DEF Land, Busy
<1>2. CASE Begin
  <2>1. CASE Pick BY <2>1 DEF Pick
  <2>2. CASE PreflightFail BY <2>2 DEF PreflightFail
  <2>3. CASE MakeJob BY <2>3 DEF MakeJob
  <2>4. CASE WriteQueued BY <2>4 DEF WriteQueued, WriteState
  <2>5. CASE Claim BY <2>5 DEF Claim
  <2>6. CASE ClaimUnlink BY <2>6 DEF ClaimUnlink
  <2>7. CASE ClaimFail BY <2>7 DEF ClaimFail
  <2>8. CASE WriteClaimed BY <2>8 DEF WriteClaimed, WriteState
  <2> QED BY <1>2, <2>1, <2>2, <2>3, <2>4, <2>5, <2>6, <2>7, <2>8 DEF Begin
<1>3. CASE Produce
  BY <1>3 DEF Produce, Tax, Optimize, OptimizeFail, Sequence, Animate, Collect,
              Encode, Stage, Assess, Gate, Judge, WriteRendering,
              WriteEncoding, WriteGating, WriteState
<1>4. CASE Publish
  <2>1. CASE Archive BY <2>1 DEF Archive
  <2>2. CASE Leftover BY <2>2 DEF Leftover
  <2> QED BY <1>4, <2>1, <2>2
          DEF Publish, RotateDropPrev, RotateMove, RotateNothing, Install,
              PublishFail, WriteSidecar, WriteIngested, WriteState, DropFrames
<1>5. CASE Fail
  <2>1. CASE WriteFailed \/ WriteQuarError
    BY <2>1 DEF WriteFailed, WriteQuarError, WriteState
  <2>2. CASE TaxQuarantine BY <2>2 DEF TaxQuarantine, QuarantineCopy
  <2>3. CASE UnlinkClaimed("taxUnlink", "wFailed", "wFailed") BY <2>3 DEF UnlinkClaimed
  <2>4. CASE FailQuarantine
    BY <2>4 DEF FailQuarantine, QuarantineCopy, Held, Claimed
  <2>5. CASE FailNothing BY <2>5 DEF FailNothing
  <2>6. CASE UnlinkClaimed("failUnlink", "failFrames", "wQuarError") BY <2>6 DEF UnlinkClaimed
  <2>7. CASE DropFrames("failFrames", "postFail") BY <2>7 DEF DropFrames
  <2>8. CASE PostQuarantine BY <2>8 DEF PostQuarantine, QuarantineCopy
  <2>9. CASE PostUnlink BY <2>9 DEF PostUnlink
  <2>10. CASE PostNothing BY <2>10 DEF PostNothing
  <2> QED BY <1>5, <2>1, <2>2, <2>3, <2>4, <2>5, <2>6, <2>7, <2>8, <2>9, <2>10
          DEF Fail
<1>6. CASE Ready \/ Crash BY <1>6 DEF Ready, Crash
<1>7. CASE \E by \in {"worker", "cli"} : ReclaimBegin(by)
  BY <1>7 DEF ReclaimBegin
<1>8. CASE ReclaimStage BY <1>8 DEF ReclaimStage, Candidate
<1>9. CASE ReclaimWrite \/ UNCHANGED vars BY <1>9 DEF ReclaimWrite, vars
<1> QED BY <1>1, <1>2, <1>3, <1>4, <1>5, <1>6, <1>7, <1>8, <1>9
        DEF Next, Worker, Recover

\* While no name is staged again during its job, no sequence of steps, errors,
\* crashes, recoveries and CLI calls erases a genome that landed, on one file
\* system or several.
THEOREM GenomesAreKept == ASSUME ~Restage PROVE Spec => []NoGenomeErased
<1>1. Init => KeepInv
  BY TypeInit DEF Init, KeepInv, FreshJobs, SafeHands, NoGenomeErased
<1>2. KeepInv /\ [Next]_vars => KeepInv'
  BY TypeStep, KeepStep DEF KeepInv
<1>3. KeepInv => NoGenomeErased
  BY DEF KeepInv
<1> QED BY <1>1, <1>2, <1>3, PTL DEF Spec

-----------------------------------------------------------------------------
(* The catalog.                                                            *)

\* Every file holds a genome of the id in its name.
FilesKeepTheirId ==
  /\ \A b \in Bases : inbox[b] # None => BaseOf[inbox[b]] = b
  /\ \A j \in Jobs : /\ file[j] # None => BaseOf[file[j]] = base[j]
                     /\ tv[j] # None => BaseOf[tv[j]] = base[j]

\* On one file system an MP4 is renamed into place, never torn.
NothingTorn == \A b \in Bases : catalog[b] # Torn /\ prev[b] # Torn

CatalogInv ==
  /\ TypeInv /\ FreshJobs /\ FilesKeepTheirId /\ NothingTorn
  /\ pc = "rotateMove" => catalog[base[job]] # None
  /\ FlockCopySurvives

LEMMA CatalogStep ==
  ASSUME ~CrossDevice
  PROVE  CatalogInv /\ [Next]_vars => CatalogInv'
<1> SUFFICES ASSUME ~CrossDevice, CatalogInv, [Next]_vars PROVE CatalogInv'
  OBVIOUS
<1>1. TypeInv'
  BY TypeStep DEF CatalogInv
<1> USE FurnaceAssumption
    DEF CatalogInv, TypeInv, TypeOK, InHand, InRecovery, FreshJobs,
        FilesKeepTheirId, NothingTorn, FlockCopySurvives, PickSteps,
        HoldSteps, JobSteps, MaybeGenome, Goto, jobVars, catVars, recVars,
        history,
        workVars, WriteJob, WriteJobFails, FreeHands
<1>2. CASE \E g \in Genomes : Land(g)
  BY <1>1, <1>2 DEF Land
<1>3. CASE Begin
  BY <1>1, <1>3 DEF Begin, Pick, PreflightFail, MakeJob, WriteQueued,
              WriteState, Claim, ClaimUnlink, ClaimFail, WriteClaimed
<1>4. CASE Produce
  BY <1>1, <1>4 DEF Produce, Tax, Optimize, OptimizeFail, Sequence, Animate,
              Collect, Encode, Stage, Assess, Gate, Judge, WriteRendering,
              WriteEncoding, WriteGating, WriteState
<1>5. CASE Publish
  <2>1. CASE RotateDropPrev BY <1>1, <2>1 DEF RotateDropPrev
  <2>2. CASE RotateMove BY <1>1, <2>2 DEF RotateMove
  <2>3. CASE Install BY <1>1, <2>3 DEF Install
  <2>4. CASE Archive \/ Leftover BY <1>1, <2>4 DEF Archive, Leftover
  <2>5. CASE RotateNothing \/ PublishFail \/ WriteSidecar \/ WriteIngested
             \/ DropFrames("dropFrames", "archive")
    BY <1>1, <2>5 DEF RotateNothing, PublishFail, WriteSidecar, WriteIngested,
                      WriteState, DropFrames
  <2> QED BY <1>5, <2>1, <2>2, <2>3, <2>4, <2>5 DEF Publish
<1>6. CASE Fail
  BY <1>1, <1>6
     DEF Fail, WriteFailed, WriteQuarError, WriteState, TaxQuarantine, QuarantineCopy,
         UnlinkClaimed, FailQuarantine, FailNothing, DropFrames,
         PostQuarantine, PostUnlink, PostNothing
<1>7. CASE Ready \/ Crash BY <1>1, <1>7 DEF Ready, Crash
<1>8. CASE \E by \in {"worker", "cli"} : ReclaimBegin(by)
  BY <1>1, <1>8 DEF ReclaimBegin
<1>9. CASE ReclaimStage BY <1>1, <1>9 DEF ReclaimStage, Candidate
<1>10. CASE ReclaimWrite \/ UNCHANGED vars BY <1>1, <1>10 DEF ReclaimWrite, vars
<1> QED BY <1>2, <1>3, <1>4, <1>5, <1>6, <1>7, <1>8, <1>9, <1>10
        DEF Next, Worker, Recover

\* On one file system an id that was in the catalog always has a complete MP4,
\* in place or as .prev, whatever fails and wherever the worker dies.
THEOREM FlockIsKept == ASSUME ~CrossDevice PROVE Spec => []FlockCopySurvives
<1>1. Init => CatalogInv
  BY TypeInit, FurnaceAssumption
     DEF Init, CatalogInv, FreshJobs, FilesKeepTheirId, NothingTorn,
         FlockCopySurvives
<1>2. CatalogInv /\ [Next]_vars => CatalogInv'
  BY CatalogStep
<1>3. CatalogInv => FlockCopySurvives
  BY DEF CatalogInv
<1> QED BY <1>1, <1>2, <1>3, PTL DEF Spec

-----------------------------------------------------------------------------
(* One worker, and recovery only before it watches the inbox.              *)

\* Without the CLI a record in recovery belongs to a dead worker, and a live
\* worker's own record is in flight while it works.
SoloInv ==
  /\ rby = "worker"
  /\ rstep # "idle" => pc = "start" /\ rjob \in InFlightJobs
  /\ pc \in OwnerSteps \ {"wFailed"} => rec[job] \in InFlight

SoloState == GhostInv /\ SoloInv

LEMMA SoloStep ==
  ASSUME ~RecoveryCli
  PROVE  SoloState /\ [Next]_vars => SoloState'
<1> SUFFICES ASSUME ~RecoveryCli, SoloState, [Next]_vars PROVE SoloInv'
  BY TypeStep, GhostStep DEF SoloState, GhostInv
<1> USE DEF SoloState, SoloInv, GhostInv, TypeInv, TypeOK, InHand, InRecovery,
            OwnedOrStarting, OwnerSteps, HoldSteps, JobSteps, InFlight, Terminal,
            InFlightJobs, Goto, jobVars, recVars, history,
            workVars, WriteJob, WriteJobFails, FreeHands
<1>1. CASE Begin
  BY <1>1 DEF Begin, Pick, PreflightFail, MakeJob, WriteQueued, WriteState,
              Claim, ClaimUnlink, ClaimFail, WriteClaimed, PickSteps
<1>2. CASE Produce
  <2>1. CASE Tax \/ Optimize \/ OptimizeFail \/ Sequence \/ Animate
             \/ Collect \/ Encode
    BY <2>1 DEF Tax, Optimize, OptimizeFail, Sequence, Animate, Collect,
                Encode, Stage
  <2>2. CASE Assess \/ Gate \/ WriteRendering \/ WriteEncoding \/ WriteGating
    BY <2>2 DEF Assess, Gate, Judge, WriteRendering, WriteEncoding,
                WriteGating, WriteState
  <2> QED BY <1>2, <2>1, <2>2 DEF Produce
<1>3. CASE Publish
  <2>1. CASE WriteIngested BY <2>1 DEF WriteIngested, WriteState
  <2>2. CASE PublishFail BY <2>2 DEF PublishFail
  <2> QED BY <1>3, <2>1, <2>2
          DEF Publish, RotateDropPrev, RotateMove, RotateNothing, Install,
              WriteSidecar, DropFrames, Archive, Leftover
<1>4. CASE Fail
  <2>1. CASE WriteFailed \/ WriteQuarError
    BY <2>1 DEF WriteFailed, WriteQuarError, WriteState
  <2> QED BY <1>4, <2>1
          DEF Fail, TaxQuarantine, UnlinkClaimed, FailQuarantine, FailNothing,
              QuarantineCopy, DropFrames, PostQuarantine, PostUnlink,
              PostNothing
<1>5. CASE Ready \/ Crash
  BY <1>5 DEF Ready, Crash
<1>6. CASE \E by \in {"worker", "cli"} : ReclaimBegin(by)
  BY <1>6 DEF ReclaimBegin
<1>7. CASE ReclaimStage \/ ReclaimWrite
  BY <1>7 DEF ReclaimStage, ReclaimWrite
<1>8. CASE (\E g \in Genomes : Land(g)) \/ UNCHANGED vars
  BY <1>8 DEF Land, vars
<1> QED BY <1>1, <1>2, <1>3, <1>4, <1>5, <1>6, <1>7, <1>8
        DEF Next, Worker, Recover

LEMMA SoloAlways == ASSUME ~RecoveryCli PROVE Spec => []SoloState
<1>1. Init => SoloState
  BY TypeInit DEF Init, SoloState, SoloInv, GhostInv, OwnedOrStarting,
                  InFlightJobs, InFlight, OwnerSteps, JobSteps, HoldSteps
<1> QED BY <1>1, SoloStep, PTL DEF Spec

-----------------------------------------------------------------------------
(* genomes_done holds what was rendered.                                   *)

PublishedSteps == {"wSidecar", "wIngested", "dropFrames", "archive"}

\* Past the install the genome in hand is rendered; past the claim nothing has
\* its name in the inbox, where poll_inbox would archive it unseen.
DoneInv ==
  /\ DoneWasRendered
  /\ pc \in PublishedSteps => file[job] \in rendered
  /\ pc \in (HoldSteps \ {"claimUnlink"}) \cup {"leftover"} => inbox[pick] = None

LEMMA DoneStep ==
  ASSUME ~RecoveryCli, ~Restage
  PROVE  SoloState /\ DoneInv /\ [Next]_vars => DoneInv'
<1> SUFFICES ASSUME ~RecoveryCli, ~Restage, SoloState, DoneInv, [Next]_vars
             PROVE  DoneInv'
  OBVIOUS
<1> USE FurnaceAssumption
    DEF SoloState, SoloInv, GhostInv, TypeInv, TypeOK, InHand, InRecovery,
        DoneInv, DoneWasRendered, PublishedSteps, HoldSteps, JobSteps, PickSteps,
        MaybeGenome, Goto, jobVars, catVars, recVars, history,
        workVars, WriteJob, WriteJobFails, FreeHands
<1>1. CASE \E g \in Genomes : Land(g)
  BY <1>1 DEF Land, Busy
<1>2. CASE Begin
  BY <1>2 DEF Begin, Pick, PreflightFail, MakeJob, WriteQueued, WriteState,
              Claim, ClaimUnlink, ClaimFail, WriteClaimed
<1>3. CASE Produce
  BY <1>3 DEF Produce, Tax, Optimize, OptimizeFail, Sequence, Animate, Collect,
              Encode, Stage, Assess, Gate, Judge, WriteRendering,
              WriteEncoding, WriteGating, WriteState
<1>4. CASE Publish
  <2>1. CASE Install BY <2>1 DEF Install
  <2>2. CASE Archive BY <2>2 DEF Archive
  <2>3. CASE Leftover BY <2>3 DEF Leftover
  <2> QED BY <1>4, <2>1, <2>2, <2>3
          DEF Publish, RotateDropPrev, RotateMove, RotateNothing, PublishFail,
              WriteSidecar, WriteIngested, WriteState, DropFrames
<1>5. CASE Fail
  BY <1>5 DEF Fail, WriteFailed, WriteQuarError, WriteState, TaxQuarantine,
              QuarantineCopy, UnlinkClaimed, FailQuarantine, FailNothing,
              DropFrames, PostQuarantine, PostUnlink, PostNothing
<1>6. CASE Ready \/ Crash BY <1>6 DEF Ready, Crash
<1>7. CASE (\E by \in {"worker", "cli"} : ReclaimBegin(by)) \/ ReclaimWrite
  BY <1>7 DEF ReclaimBegin, ReclaimWrite
<1>8. CASE ReclaimStage BY <1>8 DEF ReclaimStage
<1>9. CASE UNCHANGED vars BY <1>9 DEF vars
<1> QED BY <1>1, <1>2, <1>3, <1>4, <1>5, <1>6, <1>7, <1>8, <1>9
        DEF Next, Worker, Recover

\* However often the worker dies, on one file system or several and with disk
\* errors anywhere, a genome is archived as done only after its own MP4 reached
\* the catalog, if no name is staged again while its job runs and nobody runs
\* the recovery CLI beside the worker.
THEOREM DoneIsRendered ==
  ASSUME ~RecoveryCli, ~Restage
  PROVE  Spec => []DoneWasRendered
<1>1. Init => DoneInv
  BY DEF Init, DoneInv, DoneWasRendered, PublishedSteps, HoldSteps
<1>2. DoneInv => DoneWasRendered
  BY DEF DoneInv
<1> QED BY <1>1, <1>2, SoloAlways, DoneStep, PTL DEF Spec

-----------------------------------------------------------------------------
(* The sidecar and the MP4.                                                *)

\* The catalog has a complete MP4 that its sidecar does not describe.
Undescribed(b) == catalog[b] \in Genomes /\ sidecar[b] # catalog[b]

\* The job that left it so, or is about to describe it.
Accounts(j, b) ==
  /\ base[j] = b
  /\ rec[j] \in InFlight \cup {"superseded", "torn", "failed"}
  /\ file[j] = catalog[b] \/ catalog[b] \in quar

\* Recovery that found no MP4 when it began still has none to supersede with.
DescribedInv ==
  /\ \A b \in Bases : Undescribed(b) => \E j \in Jobs : Accounts(j, b)
  /\ pc \in {"wSidecar", "wIngested"} => catalog[base[job]] = file[job]
  /\ pc = "wIngested" => sidecar[base[job]] = file[job]
  /\ pc \in {"dropFrames", "archive"} => rec[job] = "ingested"
  /\ rstep # "idle" /\ ~rcat => catalog[base[rjob]] = None
  /\ pc \in {"taxUnlink", "failUnlink"} => file[job] \in quar \cup {None}
  /\ FreshJobs
  /\ pc \in {"wQueued", "claim"} => file[job] = None

LEMMA DescribedStep ==
  ASSUME ~RecoveryCli
  PROVE  SoloState /\ DescribedInv /\ [Next]_vars => DescribedInv'
<1> SUFFICES ASSUME ~RecoveryCli, SoloState, DescribedInv, [Next]_vars
             PROVE  DescribedInv'
  OBVIOUS
<1> USE FurnaceAssumption
    DEF SoloState, SoloInv, GhostInv, OwnedOrStarting, OwnerSteps, TypeInv,
        TypeOK, InHand, InRecovery, FreshJobs, DescribedInv, Undescribed, Accounts,
        InFlightJobs, InFlight, Terminal, HoldSteps, JobSteps, PickSteps,
        MaybeGenome, Goto, jobVars, catVars, recVars, history,
        workVars, WriteJob, WriteJobFails, FreeHands
<1>1. CASE \E g \in Genomes : Land(g)
  BY <1>1 DEF Land
<1>2. CASE Begin
  <2>1. CASE MakeJob BY <2>1 DEF MakeJob
  <2>2. CASE Claim BY <2>2 DEF Claim
  <2>3. CASE WriteQueued BY <2>3 DEF WriteQueued, WriteState
  <2>4. CASE WriteClaimed BY <2>4 DEF WriteClaimed, WriteState
  <2> QED BY <1>2, <2>1, <2>2, <2>3, <2>4
          DEF Begin, Pick, PreflightFail, ClaimUnlink, ClaimFail
<1>3. CASE Produce
  <2>1. CASE Assess \/ Gate BY <2>1 DEF Assess, Gate, Judge, WriteState
  <2>2. CASE WriteRendering \/ WriteEncoding \/ WriteGating
    BY <2>2 DEF WriteRendering, WriteEncoding, WriteGating, WriteState
  <2> QED BY <1>3, <2>1, <2>2
          DEF Produce, Tax, Optimize, OptimizeFail, Sequence, Animate, Collect,
              Encode, Stage
<1>4. CASE Publish
  <2>1. CASE RotateMove BY <2>1 DEF RotateMove
  <2>2. CASE Install BY <2>2 DEF Install
  <2>3. CASE WriteSidecar BY <2>3 DEF WriteSidecar
  <2>4. CASE WriteIngested BY <2>4 DEF WriteIngested, WriteState
  <2>5. CASE Archive BY <2>5 DEF Archive
  <2>6. CASE DropFrames("dropFrames", "archive") BY <2>6 DEF DropFrames
  <2> QED BY <1>4, <2>1, <2>2, <2>3, <2>4, <2>5, <2>6
          DEF Publish, RotateDropPrev, RotateNothing, PublishFail, Leftover
<1>5. CASE Fail
  <2>1. CASE WriteFailed \/ WriteQuarError
    BY <2>1 DEF WriteFailed, WriteQuarError, WriteState
  <2>2. CASE TaxQuarantine BY <2>2 DEF TaxQuarantine, QuarantineCopy
  <2>3. CASE FailQuarantine
    BY <2>3 DEF FailQuarantine, QuarantineCopy, Held, Claimed
  <2>4. CASE UnlinkClaimed("taxUnlink", "wFailed", "wFailed")
    BY <2>4 DEF UnlinkClaimed
  <2>5. CASE UnlinkClaimed("failUnlink", "failFrames", "wQuarError")
    BY <2>5 DEF UnlinkClaimed
  <2>6. CASE PostQuarantine BY <2>6 DEF PostQuarantine, QuarantineCopy
  <2> QED BY <1>5, <2>1, <2>2, <2>3, <2>4, <2>5, <2>6
          DEF Fail, FailNothing, DropFrames, PostUnlink, PostNothing
<1>6. CASE Ready BY <1>6 DEF Ready
<1>7. CASE Crash BY <1>7 DEF Crash, WriteSteps
<1>8. ASSUME NEW by \in {"worker", "cli"}, ReclaimBegin(by)
      PROVE  DescribedInv'
  <2>1. PICK j \in InFlightJobs : rjob' = j /\ rcat' = (catalog[base[j]] # None)
    BY <1>8 DEF ReclaimBegin
  <2>2. ~rcat' => catalog[base[rjob']] = None
    BY <2>1
  <2> QED BY <1>8, <2>2 DEF ReclaimBegin
<1>9. CASE ReclaimStage \/ ReclaimWrite
  BY <1>9 DEF ReclaimStage, ReclaimWrite
<1>10. CASE UNCHANGED vars BY <1>10 DEF vars
<1> QED BY <1>1, <1>2, <1>3, <1>4, <1>5, <1>6, <1>7, <1>8, <1>9, <1>10
        DEF Next, Worker, Recover

\* At rest every complete MP4 is described by the sidecar beside it but for the
\* cases the property names, whatever failed and wherever the worker died, on
\* one file system or several and with names staged again at any time, if
\* nobody runs the recovery CLI beside the worker.
THEOREM SidecarDescribes ==
  ASSUME ~RecoveryCli
  PROVE  Spec => []SidecarMatchesMp4
<1>1. Init => DescribedInv
  BY FurnaceAssumption DEF Init, DescribedInv, Undescribed, FreshJobs
<1>2. SoloState /\ DescribedInv => SidecarMatchesMp4
  BY DEF SoloState, SoloInv, GhostInv, OwnedOrStarting, OwnerSteps, JobSteps,
         HoldSteps, DescribedInv, Undescribed, Accounts, SidecarMatchesMp4,
         AtRest, InFlightJobs
<1> QED BY <1>1, <1>2, SoloAlways, DescribedStep, PTL DEF Spec

-----------------------------------------------------------------------------
(* What recovery leaves behind.                                            *)

\* A landed genome is settled, or it is in a job that recovery or the worker
\* still has to end, or in one that it was right to leave.
AccountedFor ==
  \A g \in landed \ replaced :
    Settled(g) \/ \E j \in Jobs : file[j] = g /\ (j \in InFlightJobs \/ LeftBehind(j))

\* The record of a recorded claim is in flight, and the genome in its job.
ClaimedInFlight(j) == j \in InFlightJobs /\ src[j] = "job" /\ file[j] # None

\* While the record of a recorded claim is in flight, nothing else waits under
\* its name or is claimed under it; so after its second step recovery has put the
\* genome back there.
RestoredInv ==
  /\ \A j \in Jobs : ClaimedInFlight(j) =>
       /\ inbox[base[j]] \in {None, file[j]}
       /\ pc # "start" => inbox[base[j]] = None
       /\ pick = base[j] => j = job
  /\ \A i, j \in Jobs : ClaimedInFlight(i) /\ ClaimedInFlight(j)
                           /\ base[i] = base[j] => i = j
  /\ \A j \in InFlightJobs : tv[j] # None => ClaimedInFlight(j)
  /\ rstep = "write" /\ ~rcat /\ src[rjob] = "job" /\ tv[rjob] # None
       /\ file[rjob] # None => inbox[base[rjob]] = file[rjob]

\* job.json names the inbox path until the claim is written, the worker's own src
\* until the genome is claimed; the TV copy comes after that, and the record has
\* ended before the genome leaves the job.
ClaimInv ==
  /\ pc \in {"start", "poll", "preflight"} => job = None
  /\ pc \in {"wQueued", "claim", "claimUnlink"} => at = "inbox"
  /\ pc \in HoldSteps \ {"claimUnlink"} => at = "job"
  /\ pc \in {"wQueued", "claim", "claimUnlink", "wClaimed"} => src[job] = "inbox"
  /\ pc \in HoldSteps \ {"claimUnlink", "wClaimed"} => src[job] = "job"
  /\ pc \in {"wQueued", "claim", "claimUnlink", "wClaimed", "tax", "taxQuar",
            "taxUnlink", "optimize"} => tv[job] = None
  /\ pc \in {"dropFrames", "archive", "failQuar", "failUnlink"}
       => rec[job] \notin InFlight
  /\ \A j \in Jobs : base[j] = None => src[j] = "inbox" /\ tv[j] = None

RequeueInv == AccountedFor /\ RestoredInv /\ ClaimInv

LEMMA RequeueStep ==
  ASSUME ~RecoveryCli, ~Restage
  PROVE  SoloState /\ KeepInv /\ DoneInv /\ RequeueInv /\ [Next]_vars => RequeueInv'
<1> SUFFICES ASSUME ~RecoveryCli, ~Restage, SoloState, KeepInv, DoneInv,
                    RequeueInv, [Next]_vars
             PROVE  RequeueInv'
  OBVIOUS
<1> USE FurnaceAssumption
    DEF SoloState, SoloInv, GhostInv, OwnedOrStarting, OwnerSteps, TypeInv,
        TypeOK, InHand, InRecovery, KeepInv, FreshJobs, SafeHands, DoneInv,
        RequeueInv, AccountedFor, RestoredInv, ClaimedInFlight, ClaimInv, LeftBehind, Settled,
        Waits, InFlightJobs, InFlight, Terminal, HoldSteps, JobSteps, PickSteps,
        MaybeGenome, Goto, jobVars, catVars, recVars, history,
        workVars, WriteJob, WriteJobFails, FreeHands
<1>1. CASE \E g \in Genomes : Land(g)
  BY <1>1 DEF Land, Busy
<1>2. CASE Begin
  <2>1. CASE Pick BY <2>1 DEF Pick
  <2>2. CASE PreflightFail BY <2>2 DEF PreflightFail
  <2>3. CASE MakeJob BY <2>3 DEF MakeJob
  <2>4. CASE WriteQueued BY <2>4 DEF WriteQueued, WriteState
  <2>5. CASE Claim BY <2>5 DEF Claim
  <2>6. CASE ClaimUnlink BY <2>6 DEF ClaimUnlink
  <2>7. CASE ClaimFail BY <2>7 DEF ClaimFail
  <2>8. CASE WriteClaimed BY <2>8 DEF WriteClaimed, WriteState
  <2> QED BY <1>2, <2>1, <2>2, <2>3, <2>4, <2>5, <2>6, <2>7, <2>8 DEF Begin
<1>3. CASE Produce
  <2>1. CASE Optimize BY <2>1 DEF Optimize
  <2>2. CASE Assess \/ Gate BY <2>2 DEF Assess, Gate, Judge, WriteState
  <2>3. CASE WriteRendering \/ WriteEncoding \/ WriteGating
    BY <2>3 DEF WriteRendering, WriteEncoding, WriteGating, WriteState
  <2> QED BY <1>3, <2>1, <2>2, <2>3
          DEF Produce, Tax, OptimizeFail, Sequence, Animate, Collect, Encode, Stage
<1>4. CASE Publish
  <2>1. CASE WriteIngested BY <2>1 DEF WriteIngested, WriteState
  <2>2. CASE Archive BY <2>2 DEF Archive
  <2>3. CASE Leftover BY <2>3 DEF Leftover
  <2> QED BY <1>4, <2>1, <2>2, <2>3
          DEF Publish, RotateDropPrev, RotateMove, RotateNothing, Install,
              PublishFail, WriteSidecar, DropFrames
<1>5. CASE Fail
  <2>1. CASE WriteFailed \/ WriteQuarError
    BY <2>1 DEF WriteFailed, WriteQuarError, WriteState
  <2>2. CASE TaxQuarantine BY <2>2 DEF TaxQuarantine, QuarantineCopy
  <2>3. CASE FailQuarantine
    BY <2>3 DEF FailQuarantine, QuarantineCopy, Held, Claimed
  <2>4. CASE UnlinkClaimed("taxUnlink", "wFailed", "wFailed")
    BY <2>4 DEF UnlinkClaimed
  <2>5. CASE UnlinkClaimed("failUnlink", "failFrames", "wQuarError")
    BY <2>5 DEF UnlinkClaimed
  <2>6. CASE PostQuarantine BY <2>6 DEF PostQuarantine, QuarantineCopy
  <2>7. CASE PostUnlink BY <2>7 DEF PostUnlink
  <2> QED BY <1>5, <2>1, <2>2, <2>3, <2>4, <2>5, <2>6, <2>7
          DEF Fail, FailNothing, DropFrames, PostNothing
<1>6. CASE Ready BY <1>6 DEF Ready
<1>7. CASE Crash BY <1>7 DEF Crash, WriteSteps
<1>8. CASE \E by \in {"worker", "cli"} : ReclaimBegin(by)
  BY <1>8 DEF ReclaimBegin
<1>9. CASE ReclaimStage BY <1>9 DEF ReclaimStage, ShouldRequeue, Candidate
<1>10. CASE ReclaimWrite BY <1>10 DEF ReclaimWrite
<1>11. CASE UNCHANGED vars BY <1>11 DEF vars
<1> QED BY <1>1, <1>2, <1>3, <1>4, <1>5, <1>6, <1>7, <1>8, <1>9, <1>10, <1>11
        DEF Next, Worker, Recover

\* Without a crash or a disk error only the genome in the worker's hands is not
\* settled, and its failure path finds it.
CalmInv ==
  crashes = 0 /\ ~DiskErrors =>
    /\ \A g \in landed \ replaced :
         \/ Settled(g)
         \/ /\ pc \in HoldSteps \cup {"wFailed", "failQuar", "failUnlink"}
            /\ file[job] = g
    /\ pc \in HoldSteps \ {"claimUnlink"} => at = "job"
    /\ pc \in {"wFailed", "failQuar"} /\ file[job] # None => at = "job"

LEMMA CalmStep ==
  ASSUME ~RecoveryCli, ~Restage
  PROVE  SoloState /\ KeepInv /\ CalmInv /\ [Next]_vars => CalmInv'
<1> SUFFICES ASSUME ~RecoveryCli, ~Restage, SoloState, KeepInv, CalmInv,
                    [Next]_vars
             PROVE  CalmInv'
  OBVIOUS
<1> USE FurnaceAssumption
    DEF SoloState, SoloInv, GhostInv, TypeInv, TypeOK, InHand, InRecovery,
        KeepInv, FreshJobs, SafeHands, CalmInv, Settled, Waits, HoldSteps,
        JobSteps, PickSteps, MaybeGenome, Goto, jobVars, catVars, recVars, history,
        workVars, WriteJob, WriteJobFails, FreeHands
<1>1. CASE \E g \in Genomes : Land(g)
  BY <1>1 DEF Land
<1>2. CASE Begin
  <2>1. CASE Pick BY <2>1 DEF Pick
  <2>2. CASE PreflightFail BY <2>2 DEF PreflightFail
  <2>3. CASE MakeJob BY <2>3 DEF MakeJob
  <2>4. CASE WriteQueued BY <2>4 DEF WriteQueued, WriteState
  <2>5. CASE Claim BY <2>5 DEF Claim
  <2>6. CASE ClaimUnlink BY <2>6 DEF ClaimUnlink
  <2>7. CASE ClaimFail BY <2>7 DEF ClaimFail
  <2>8. CASE WriteClaimed BY <2>8 DEF WriteClaimed, WriteState
  <2> QED BY <1>2, <2>1, <2>2, <2>3, <2>4, <2>5, <2>6, <2>7, <2>8 DEF Begin
<1>3. CASE Produce
  BY <1>3 DEF Produce, Tax, Optimize, OptimizeFail, Sequence, Animate, Collect,
              Encode, Stage, Assess, Gate, Judge, WriteRendering,
              WriteEncoding, WriteGating, WriteState
<1>4. CASE Publish
  <2>1. CASE Archive BY <2>1 DEF Archive
  <2>2. CASE Leftover BY <2>2 DEF Leftover
  <2> QED BY <1>4, <2>1, <2>2
          DEF Publish, RotateDropPrev, RotateMove, RotateNothing, Install,
              PublishFail, WriteSidecar, WriteIngested, WriteState, DropFrames
<1>5. CASE Fail
  <2>1. CASE WriteFailed \/ WriteQuarError
    BY <2>1 DEF WriteFailed, WriteQuarError, WriteState
  <2>2. CASE TaxQuarantine BY <2>2 DEF TaxQuarantine, QuarantineCopy
  <2>3. CASE FailQuarantine
    BY <2>3 DEF FailQuarantine, QuarantineCopy, Held, Claimed
  <2>4. CASE FailNothing BY <2>4 DEF FailNothing, Held, Claimed
  <2>5. CASE UnlinkClaimed("taxUnlink", "wFailed", "wFailed")
    BY <2>5 DEF UnlinkClaimed
  <2>6. CASE UnlinkClaimed("failUnlink", "failFrames", "wQuarError")
    BY <2>6 DEF UnlinkClaimed
  <2>7. CASE DropFrames("failFrames", "postFail") BY <2>7 DEF DropFrames
  <2>8. CASE PostQuarantine BY <2>8 DEF PostQuarantine, QuarantineCopy
  <2>9. CASE PostUnlink \/ PostNothing BY <2>9 DEF PostUnlink, PostNothing
  <2> QED BY <1>5, <2>1, <2>2, <2>3, <2>4, <2>5, <2>6, <2>7, <2>8, <2>9 DEF Fail
<1>6. CASE Ready BY <1>6 DEF Ready
<1>7. CASE Crash
  <2>1. crashes' # 0
    BY <1>7 DEF Crash
  <2> QED BY <2>1
<1>8. CASE (\E by \in {"worker", "cli"} : ReclaimBegin(by)) \/ ReclaimWrite
  BY <1>8 DEF ReclaimBegin, ReclaimWrite
<1>9. CASE ReclaimStage BY <1>9 DEF ReclaimStage
<1>10. CASE UNCHANGED vars BY <1>10 DEF vars
<1> QED BY <1>1, <1>2, <1>3, <1>4, <1>5, <1>6, <1>7, <1>8, <1>9, <1>10
        DEF Next, Worker, Recover

\* Crash recovery is complete but for the cases the property names: at rest no
\* genome sits anywhere else than in the inbox, done or quarantine unless its
\* job is one of them and there was a crash or a disk error, if no name is
\* staged again while its job runs and nobody runs the recovery CLI beside the
\* worker.
THEOREM RecoveryIsComplete ==
  ASSUME ~RecoveryCli, ~Restage
  PROVE  Spec => []StrandedOnlyIfLeftBehind
<1>1. Init => KeepInv /\ DoneInv /\ RequeueInv /\ CalmInv
  BY TypeInit
     DEF Init, KeepInv, FreshJobs, SafeHands, NoGenomeErased, DoneInv,
         DoneWasRendered, PublishedSteps, HoldSteps, RequeueInv, AccountedFor,
         RestoredInv, ClaimedInFlight, ClaimInv, CalmInv, InFlightJobs,
         InFlight
<1>2. KeepInv /\ [Next]_vars => KeepInv'
  BY TypeStep, KeepStep DEF KeepInv
<1>3. SoloState /\ RequeueInv /\ CalmInv => StrandedOnlyIfLeftBehind
  <2> SUFFICES ASSUME SoloState, RequeueInv, CalmInv, AtRest,
                      NEW g \in Genomes, Stranded(g)
               PROVE  /\ \E j \in Jobs : file[j] = g /\ LeftBehind(j)
                      /\ crashes > 0 \/ DiskErrors
    BY DEF StrandedOnlyIfLeftBehind
  <2>1. InFlightJobs \subseteq unwritten
    BY DEF SoloState, GhostInv, OwnedOrStarting, OwnerSteps, JobSteps, HoldSteps, AtRest
  <2>2. \E j \in Jobs : file[j] = g /\ LeftBehind(j)
    BY <2>1 DEF RequeueInv, AccountedFor, Stranded, LeftBehind, InFlightJobs
  <2>3. crashes # 0 \/ DiskErrors
    BY DEF CalmInv, Stranded, AtRest, HoldSteps
  <2>4. crashes \in Nat
    BY FurnaceAssumption DEF SoloState, GhostInv, TypeInv, TypeOK
  <2> QED BY <2>2, <2>3, <2>4
<1> QED BY <1>1, <1>2, <1>3, SoloAlways, DoneStep, RequeueStep, CalmStep, PTL DEF Spec
=============================================================================
