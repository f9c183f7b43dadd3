--------------------------- MODULE WatchdogProofs ---------------------------
(***************************************************************************)
(* An Opt Out stands, heavy acts keep their distance, and a heal keeps the  *)
(* Tailscale login, for any cooldown, any number of faults and any switches *)
(* of the configuration.  At the end: what the drain, which the watchdog    *)
(* and the operator request through one file, makes of the worker, for      *)
(* every bound on the inbox and on a job's stages (module Drain).           *)
(***************************************************************************)
EXTENDS Watchdog, Drain, TLAPS

LEMMA TypeInit == Init => TypeOK
<1> SUFFICES ASSUME Init PROVE FlagsOK /\ StatesOK BY DEF TypeOK
<1>1. FlagsOK BY DEF Init, FlagsOK
<1>2. StatesOK
  BY WatchdogAssumption DEF Init, StatesOK, Nets, NoWedge, NoSight, NoLan
<1> QED BY <1>1, <1>2

LEMMA FlagStep == FlagsOK /\ Next => FlagsOK'
<1> SUFFICES ASSUME FlagsOK, Next PROVE FlagsOK' OBVIOUS
<1> USE DEF FlagsOK, Goto, Do, world, files, memory, stamps, history
<1>1. CASE Cron \/ Probe \/ SkipCable
  BY <1>1, Zenon DEF Cron, Probe, SkipCable
<1>2. CASE Bounce \/ NoBounce BY <1>2, Zenon DEF Bounce, NoBounce, Heavy
<1>3. CASE Connect \/ Check   BY <1>3, Zenon DEF Connect, Check
<1>4. CASE Reload \/ Recheck  BY <1>4, Zenon DEF Reload, Recheck, Heavy
<1>5. CASE Mark \/ RequestDrain BY <1>5, Zenon DEF Mark, RequestDrain
<1>6. CASE Reboot             BY <1>6, Zenon DEF Reboot, Boot, NoMemory
<1>7. CASE Rewan \/ Daemon    BY <1>7, Zenon DEF Rewan, Daemon
<1>8. CASE Up \/ Sync         BY <1>8, Zenon DEF Up, Sync, NoMemory
<1>9. CASE \E c \in {"enroll", "stop"} : Ask(c) BY <1>9, Zenon DEF Ask
<1>10. CASE Enroll \/ StartUnits BY <1>10, Zenon DEF Enroll, StartUnits
<1>11. CASE WriteAck \/ Verify
  BY <1>11, Zenon DEF WriteAck, Verify, ShareLive, Online
<1>12. CASE StopUnits \/ Unack BY <1>12, Zenon DEF StopUnits, Unack
<1>13. CASE Logout            BY <1>13, Zenon DEF Logout
<1>14. CASE NetChanges        BY <1>14, Zenon DEF NetChanges
<1>15. CASE ServiceFails      BY <1>15, Zenon DEF ServiceFails
<1>16. CASE PowerCycle        BY <1>16, Zenon DEF PowerCycle, Boot, NoMemory
<1>17. CASE Tick              BY <1>17, Zenon DEF Tick
<1> QED
  BY <1>1, <1>2, <1>3, <1>4, <1>5, <1>6, <1>7, <1>8, <1>9, <1>10, <1>11, <1>12,
     <1>13, <1>14, <1>15, <1>16, <1>17
  DEF Next, Heal, HealLan, OptIn, OptOut

LEMMA StateStep == TypeOK /\ Next => StatesOK'
<1> SUFFICES ASSUME FlagsOK, StatesOK, Next PROVE StatesOK' BY DEF TypeOK
<1> USE WatchdogAssumption DEF StatesOK, Goto, Do, world, files, memory,
          stamps, history
<1>0. /\ "ok" \in Nets /\ Wifi \subseteq Nets
      /\ net = "eth" => {"eth"} \subseteq Nets
      /\ NoSight \in [up : BOOLEAN, net : Nets, wan : BOOLEAN]
      /\ NoLan \in [free : BOOLEAN, heavy : BOOLEAN, down : BOOLEAN]
  BY DEF Nets, Wifi, NoSight, NoLan
<1>1. CASE Cron
  <2>1. seen' \in [up : BOOLEAN, net : Nets, wan : BOOLEAN]
    BY <1>1 DEF Cron, Online, WanOk, FlagsOK
  <2> QED BY <1>1, <2>1 DEF Cron
<1>2. CASE Probe
  <2>1. wd' \in {"wifi", "daemon"} BY <1>2 DEF Probe
  <2>2. seen' \in [up : BOOLEAN, net : Nets, wan : BOOLEAN]
    BY <1>2 DEF Probe, WanOk
  <2> QED BY <1>2, <2>1, <2>2 DEF Probe
<1>3. CASE SkipCable \/ Bounce \/ NoBounce
  <2>1. seen' \in [up : BOOLEAN, net : Nets, wan : BOOLEAN]
    BY <1>0, <1>3 DEF SkipCable, Bounce, NoBounce
  <2>2. lan' \in [free : BOOLEAN, heavy : BOOLEAN, down : BOOLEAN]
    <3>1. CASE SkipCable BY <3>1 DEF SkipCable
    <3>2. CASE Bounce BY <3>2 DEF Bounce
    <3>3. CASE NoBounce /\ cool = 0 BY <3>3 DEF NoBounce
    <3>4. CASE NoBounce /\ cool # 0 BY <3>4 DEF NoBounce
    <3> QED BY <1>3, <3>1, <3>2, <3>3, <3>4
  <2>3. last' \in 0..Cooldown
    BY <1>3 DEF SkipCable, Bounce, NoBounce, Heavy
  <2> QED BY <1>3, <2>1, <2>2, <2>3 DEF SkipCable, Bounce, NoBounce
<1>4. CASE Connect            BY <1>0, <1>4 DEF Connect
<1>5. CASE Check \/ Recheck
  <2>1. wd' \in {"reload", "mark"} BY <1>5 DEF Check, Recheck
  <2>2. wedge' \in 0..NoWedge     BY <1>5 DEF Check, Recheck, Wedge, NoWedge
  <2>3. lan' \in [free : BOOLEAN, heavy : BOOLEAN, down : BOOLEAN]
    BY <1>5 DEF Check, Recheck, LanOk
  <2> QED BY <1>5, <2>1, <2>2, <2>3 DEF Check, Recheck
<1>6. CASE Reload
  <2>1. lan' \in [free : BOOLEAN, heavy : BOOLEAN, down : BOOLEAN]
    BY <1>6 DEF Reload
  <2>2. net' \in Nets BY <1>0, <1>6 DEF Reload
  <2>3. last' \in 0..Cooldown BY <1>6 DEF Reload, Heavy
  <2> QED BY <1>6, <2>1, <2>2, <2>3 DEF Reload
<1>7. CASE Mark
  <2>1. wd' \in {"drain", "rewan"} BY <1>7 DEF Mark, Decision
  <2>2. cool' \in 0..Cooldown     BY <1>7 DEF Mark
  <2>3. lan' \in [free : BOOLEAN, heavy : BOOLEAN, down : BOOLEAN]
    BY <1>0, <1>7 DEF Mark
  <2>4. seen' \in [up : BOOLEAN, net : Nets, wan : BOOLEAN]
    BY <1>0, <1>7 DEF Mark
  <2> QED BY <1>7, <2>1, <2>2, <2>3, <2>4 DEF Mark
<1>8. CASE RequestDrain       BY <1>8 DEF RequestDrain
<1>9. CASE Reboot
  BY <1>0, <1>9 DEF Reboot, Boot, NoMemory
<1>10. CASE Rewan \/ Daemon   BY <1>10 DEF Rewan, Daemon, WanOk
<1>11. CASE Up                BY <1>11 DEF Up, TailscaleUp
<1>12. CASE Sync
  BY <1>0, <1>12 DEF Sync, NoMemory
<1>13. CASE OptIn
  BY <1>13 DEF OptIn, Ask, Enroll, TailscaleUp, StartUnits, WriteAck, Verify
<1>14. CASE OptOut
  BY <1>14 DEF OptOut, Ask, StopUnits, Logout, Unack
<1>15. CASE NetChanges        BY <1>15 DEF NetChanges, Fault
<1>16. CASE ServiceFails      BY <1>16 DEF ServiceFails, Fault
<1>17. CASE PowerCycle
  BY <1>0, <1>17 DEF PowerCycle, Fault, Boot, NoMemory
<1>18. CASE Tick              BY <1>18 DEF Tick, NoWedge
<1> QED
  BY <1>1, <1>2, <1>3, <1>4, <1>5, <1>6, <1>7, <1>8, <1>9, <1>10, <1>11, <1>12,
     <1>13, <1>14, <1>15, <1>16, <1>17, <1>18 DEF Next, Heal, HealLan

\* The types of operator, watchdog and stamps, for any bounds.
THEOREM TypeCorrect == Spec => []TypeOK
<1>1. TypeOK /\ UNCHANGED vars => TypeOK'
  BY DEF TypeOK, FlagsOK, StatesOK, vars, world, files, memory, stamps, history
<1>2. TypeOK /\ [Next]_vars => TypeOK'
  BY <1>1, FlagStep, StateStep DEF TypeOK
<1> QED BY <1>2, TypeInit, PTL DEF Spec

-----------------------------------------------------------------------------
(* Opt Out: what its steps have done so far.                               *)

OutInv ==
  out => /\ wd = "idle"
         /\ op \in {"idle", "stop", "logout", "unack"}
         /\ op # "stop" => ~sync /\ ~enabled
         /\ op \in {"idle", "unack"} => ts # "in"
         /\ op = "idle" => ~ack

LEMMA OutStep == TypeOK /\ OutInv /\ [Next]_vars => OutInv'
<1> SUFFICES ASSUME TypeOK, OutInv, [Next]_vars PROVE OutInv' OBVIOUS
<1> USE DEF OutInv, world, files, memory, stamps, history
<1>1. CASE Heal
  <2>1. CASE Cron
    BY <2>1 DEF Cron, Goto
  <2>2. CASE ~Cron
    <3>1. wd # "idle"
      BY <1>1, <2>2 DEF Heal, HealLan, Goto, Probe, SkipCable, Bounce,
           NoBounce, Connect, Check, Reload, Recheck, Mark, RequestDrain,
           Reboot, Rewan, Daemon, Up, Sync
    <3>2. out' => out
      BY <1>1, <2>2 DEF Heal, HealLan, Probe, SkipCable, Bounce, NoBounce,
           Connect, Check, Reload, Recheck, Mark, RequestDrain, Reboot, Boot,
           Rewan, Daemon, Up, Sync, Heavy, NoMemory
    <3> QED BY <3>1, <3>2
  <2> QED BY <2>1, <2>2
<1>2. CASE OptIn
  BY <1>2 DEF OptIn, Do, Ask, Enroll, StartUnits, WriteAck, Verify
<1>3. CASE OptOut
  <2>1. CASE Ask("stop")   BY <2>1 DEF Ask, Do
  <2>2. CASE StopUnits     BY <2>2 DEF StopUnits, Do
  <2>3. CASE Logout        BY <2>3 DEF Logout, Do
  <2>4. CASE Unack         BY <2>4 DEF Unack, Do
  <2> QED BY <1>3, <2>1, <2>2, <2>3, <2>4 DEF OptOut
<1>4. CASE NetChanges   BY <1>4 DEF NetChanges
<1>5. CASE ServiceFails BY <1>5 DEF ServiceFails
<1>6. CASE PowerCycle   BY <1>6 DEF PowerCycle, Boot, NoMemory
<1>7. CASE Tick         BY <1>7 DEF Tick
<1>8. CASE UNCHANGED vars BY <1>8 DEF vars
<1> QED BY <1>1, <1>2, <1>3, <1>4, <1>5, <1>6, <1>7, <1>8 DEF Next

\* An Opt Out that no heal ran beside and that reached tailscaled stands through
\* any faults and boots until the next Opt In.
THEOREM OptOutHolds == Spec => []OptOutStands
<1>1. Init => OutInv BY DEF Init, OutInv
<1>2. OutInv => OptOutStands BY DEF OutInv, OptOutStands
<1> QED BY <1>1, <1>2, OutStep, TypeCorrect, PTL DEF Spec

-----------------------------------------------------------------------------
(* Heavy acts: cooldown and time since the last one add up.                *)

Bounced == {"connect", "check", "reload", "recheck", "mark"}

SpaceInv ==
  /\ lan.heavy => wd \in Bounced
  /\ lan.free => wd \in Bounced /\ (lan.heavy \/ cool = 0)
  /\ wd = "reload" => lan.free
  /\ kept /\ ~lan.heavy => last + cool >= Cooldown

LEMMA SpaceStep == TypeOK /\ SpaceInv /\ [Next]_vars => SpaceInv'
<1> SUFFICES ASSUME TypeOK, SpaceInv, [Next]_vars PROVE SpaceInv' OBVIOUS
<1> USE WatchdogAssumption DEF TypeOK, StatesOK, SpaceInv, Bounced, world, files, memory,
          stamps, history
<1>1. CASE Heal
  <2> USE DEF Goto
  <2>1. CASE Cron \/ Probe BY <2>1 DEF Cron, Probe
  <2>2. CASE Bounce       BY <2>2 DEF Bounce, Heavy
  <2>3. CASE NoBounce     BY <2>3 DEF NoBounce
  <2>4. CASE SkipCable \/ Connect BY <2>4 DEF SkipCable, Connect
  <2>5. CASE Check
    <3>1. wd' \in {"reload", "mark"} /\ (wd' = "reload" => lan.free)
      BY <2>5 DEF Check, MustReload, MayReload
    <3> QED BY <2>5, <3>1 DEF Check
  <2>6. CASE Reload       BY <2>6 DEF Reload, Heavy
  <2>7. CASE Recheck      BY <2>7 DEF Recheck
  <2>8. CASE Mark
    <3>1. ~lan.heavy' /\ ~lan.free' BY <2>8 DEF Mark, NoLan
    <3>2. wd' # "reload" BY <2>8 DEF Mark, Decision
    <3>3. kept' = kept /\ last' = last /\ last \in Nat BY <2>8 DEF Mark
    <3>4. cool' = IF lan.heavy THEN Cooldown ELSE cool BY <2>8 DEF Mark
    <3> QED BY <3>1, <3>2, <3>3, <3>4
  <2>9. CASE RequestDrain BY <2>9 DEF RequestDrain
  <2>10. CASE Reboot      BY <2>10 DEF Reboot, Boot, NoMemory, NoLan
  <2>11. CASE Rewan \/ Daemon \/ Up BY <2>11 DEF Rewan, Daemon, Up
  <2>12. CASE Sync        BY <2>12 DEF Sync, NoMemory, NoLan
  <2> QED BY <1>1, <2>1, <2>2, <2>3, <2>4, <2>5, <2>6, <2>7, <2>8, <2>9,
             <2>10, <2>11, <2>12 DEF Heal, HealLan
<1>2. CASE OptIn
  BY <1>2 DEF OptIn, Ask, Enroll, StartUnits, WriteAck, Verify
<1>3. CASE OptOut
  BY <1>3 DEF OptOut, Ask, StopUnits, Logout, Unack
<1>4. CASE NetChanges   BY <1>4 DEF NetChanges
<1>5. CASE ServiceFails BY <1>5 DEF ServiceFails
<1>6. CASE PowerCycle   BY <1>6 DEF PowerCycle, Boot, NoMemory, NoLan
<1>7. CASE Tick         BY <1>7 DEF Tick
<1>8. CASE UNCHANGED vars BY <1>8 DEF vars
<1> QED BY <1>1, <1>2, <1>3, <1>4, <1>5, <1>6, <1>7, <1>8 DEF Next

\* A heal's first bounce or driver reload comes a cooldown after those of every
\* earlier heal that lived to stamp them, for any cooldown.
THEOREM HeavyActsSpaced == Spec => HeavyActsAreSpaced
<1>1. Init => SpaceInv
  BY WatchdogAssumption DEF Init, SpaceInv, NoLan
<1>2. TypeOK /\ SpaceInv /\ Bounce => last >= Cooldown \/ ~kept
  BY WatchdogAssumption DEF TypeOK, StatesOK, SpaceInv, Bounce, Goto, Bounced
<1>3. TypeOK /\ SpaceInv /\ Reload /\ ~lan.heavy => last >= Cooldown \/ ~kept
  BY WatchdogAssumption DEF TypeOK, StatesOK, SpaceInv, Reload, Goto
<1>4. TypeOK /\ SpaceInv
        => [Bounce \/ (Reload /\ ~lan.heavy) => last >= Cooldown \/ ~kept]_vars
  BY <1>2, <1>3
<1> QED BY <1>1, <1>4, SpaceStep, TypeCorrect, PTL DEF Spec, HeavyActsAreSpaced

-----------------------------------------------------------------------------
(* The login: what the heal last saw of the internet is still so, or is     *)
(* known to have been cut.                                                  *)

SightInv == wd \in {"daemon", "up"} /\ seen.wan => WanOk(net) \/ cut

LEMMA SightStep == TypeOK /\ SightInv /\ [Next]_vars => SightInv'
<1> SUFFICES ASSUME TypeOK, SightInv, [Next]_vars PROVE SightInv' OBVIOUS
<1> USE DEF SightInv, world, files, memory, stamps, history
<1>0. seen \in [up : BOOLEAN, net : Nets, wan : BOOLEAN]
  BY DEF TypeOK, StatesOK
<1>1. CASE Heal
  <2> USE DEF Goto
  <2>1. CASE Probe \/ Rewan
    <3>1. seen'.wan = WanOk(net) /\ net' = net
      BY <1>0, <2>1 DEF Probe, Rewan
    <3> QED BY <3>1 DEF WanOk
  <2>2. CASE Daemon
    BY <2>2 DEF Daemon
  <2>3. CASE Cron \/ SkipCable \/ Bounce \/ NoBounce \/ Connect \/ Check \/ Reload \/ Recheck
             \/ RequestDrain \/ Up \/ Sync
    BY <2>3 DEF Cron, SkipCable, Bounce, NoBounce, Connect, Check, Reload, Recheck,
         RequestDrain, Up, Sync
  <2>4. CASE Mark
    BY <2>4 DEF Mark, Decision
  <2>5. CASE Reboot
    BY <2>5 DEF Reboot, Boot
  <2> QED BY <1>1, <2>1, <2>2, <2>3, <2>4, <2>5 DEF Heal, HealLan
<1>2. CASE OptIn
  BY <1>2 DEF OptIn, Ask, Enroll, StartUnits, WriteAck, Verify
<1>3. CASE OptOut
  BY <1>3 DEF OptOut, Ask, StopUnits, Logout, Unack
<1>4. CASE NetChanges   BY <1>4 DEF NetChanges
<1>5. CASE ServiceFails BY <1>5 DEF ServiceFails
<1>6. CASE PowerCycle   BY <1>6 DEF PowerCycle, Boot
<1>7. CASE Tick         BY <1>7 DEF Tick
<1>8. CASE UNCHANGED vars BY <1>8 DEF vars
<1> QED BY <1>1, <1>2, <1>3, <1>4, <1>5, <1>6, <1>7, <1>8 DEF Next

\* A heal does not cost the Tailscale login, whatever the network does, unless
\* WAN failed after the heal's last look at it (need_up in tailscale_watch.py).
THEOREM LoginIsKept == Spec => HealKeepsLogin
<1>1. Init => SightInv
  BY DEF Init, SightInv
<1>2. SightInv /\ Up /\ ts = "in" => ts' = "in" \/ cut \/ ~WanHeal
  BY DEF SightInv, Up, Goto, TailscaleUp
<1>3. SightInv => [Up /\ ts = "in" => ts' = "in" \/ cut \/ ~WanHeal]_vars
  BY <1>2
<1> QED BY <1>1, <1>3, SightStep, TypeCorrect, PTL DEF Spec, HealKeepsLogin

-----------------------------------------------------------------------------
(***************************************************************************)
(* The drain (worker_drain.py) with the poll loop and the drain CLI.        *)
(***************************************************************************)
LEMMA DrainTypeInit == DrainInit => DrainTypeOK
<1> SUFFICES ASSUME DrainInit PROVE DrainTypeOK
  OBVIOUS
<1>1. inbox \in 0..MaxInbox /\ left \in 0..Stages /\ taken \in 0..2
  BY DrainAssumption DEF DrainInit
<1>2. /\ flag \in BOOLEAN /\ gate \in BOOLEAN /\ frozen \in BOOLEAN
      /\ saw \in BOOLEAN /\ steady \in BOOLEAN
      /\ torn \in BOOLEAN /\ orphaned \in BOOLEAN /\ ghost \in BOOLEAN
  BY DEF DrainInit
<1> QED
  BY <1>1, <1>2 DEF DrainInit, DrainTypeOK

\* Every step of the worker, the operator and the supervisor keeps the types.
LEMMA DrainTypeStep == DrainTypeOK /\ [DrainNext]_drainVars => DrainTypeOK'
<1> SUFFICES ASSUME DrainTypeOK, [DrainNext]_drainVars PROVE DrainTypeOK'
  OBVIOUS
<1> USE DrainAssumption DEF DrainTypeOK, Busy, cli, job
<1>1. CASE Worker
  <2>1. CASE Top \/ WaitForGate \/ RecheckFlag \/ SyncInbox \/ LastCheck
    BY <2>1 DEF Top, WaitForGate, RecheckFlag, SyncInbox, LastCheck, Step, DrainRequested
  <2>2. CASE Refuse \/ Preflight \/ WriteQueued
    BY <2>2 DEF Refuse, Preflight, WriteQueued, Step
  <2>3. CASE Claim
    BY <2>3 DEF Claim, Step
  <2>4. CASE Stage \/ LastStage \/ Finish \/ FinishFails \/ Tail
    BY <2>4 DEF Stage, LastStage, Finish, FinishFails, Tail, Step
  <2> QED
    BY <1>1, <2>1, <2>2, <2>3, <2>4 DEF Worker
<1>2. CASE Truncate
  BY <1>2 DEF Truncate
<1>3. CASE Request \/ Cancel \/ BeginWait
  <2>1. CASE Request
    BY <2>1 DEF Request
  <2>2. CASE Cancel
    <3>1. flag' \in BOOLEAN /\ steady' \in BOOLEAN
      BY <2>2 DEF Cancel
    <3>2. UNCHANGED <<gate, frozen, inbox, pc, rec, left, ghost, waiter, saw,
                      torn, taken, orphaned>>
      BY <2>2 DEF Cancel
    <3> QED BY <3>1, <3>2
  <2>3. CASE BeginWait
    BY <2>3 DEF BeginWait
  <2> QED
    BY <1>3, <2>1, <2>2, <2>3
<1>4. CASE Wait
  <2>1. CASE ReadFlag
    BY <2>1 DEF ReadFlag
  <2>2. CASE ReadJobs
    BY <2>2 DEF ReadJobs
  <2> QED
    BY <1>4, <2>1, <2>2 DEF Wait
<1>5. CASE Restart
  BY <1>5 DEF Restart
<1>6. CASE Switch
  BY <1>6 DEF Switch
<1>7. CASE Arrive \/ Withdraw
  BY <1>7 DEF Arrive, Withdraw
<1>8. CASE UNCHANGED drainVars
  BY <1>8 DEF drainVars
<1> QED
  BY <1>1, <1>2, <1>3, <1>4, <1>5, <1>6, <1>7, <1>8 DEF DrainNext

\* Every variable keeps its type.
THEOREM DrainTypeCorrect == DrainSpec => []DrainTypeOK
<1> QED
  BY DrainTypeInit, DrainTypeStep, PTL DEF DrainSpec

-----------------------------------------------------------------------------
(***************************************************************************)
(* One more genome.  While the drain stands only a worker that had passed   *)
(* the last look at the flag may still claim, and after that claim it comes *)
(* back to the loop, where the flag stops it.                               *)
(***************************************************************************)
Committed == pc \in {"process", "queue", "claim"}

ClaimsLeft == flag => taken = 0 \/ (taken = 1 /\ ~Committed)

\* No step lets a drained worker become committed, and a claim uses it up.
LEMMA ClaimsLeftStep == DrainTypeOK /\ ClaimsLeft /\ [DrainNext]_drainVars => ClaimsLeft'
<1> SUFFICES ASSUME DrainTypeOK, ClaimsLeft, [DrainNext]_drainVars PROVE ClaimsLeft'
  OBVIOUS
<1> USE DEF DrainTypeOK, ClaimsLeft, Committed, Busy, cli, job
<1>1. CASE Worker
  <2>1. CASE Top \/ WaitForGate \/ RecheckFlag \/ SyncInbox \/ LastCheck
    BY <2>1 DEF Top, WaitForGate, RecheckFlag, SyncInbox, LastCheck, Step, DrainRequested
  <2>2. CASE Refuse \/ Preflight \/ WriteQueued
    BY <2>2 DEF Refuse, Preflight, WriteQueued, Step
  <2>3. CASE Claim
    BY <2>3 DEF Claim, Step
  <2>4. CASE Stage \/ LastStage \/ Finish \/ FinishFails \/ Tail
    BY <2>4 DEF Stage, LastStage, Finish, FinishFails, Tail, Step
  <2> QED
    BY <1>1, <2>1, <2>2, <2>3, <2>4 DEF Worker
<1>2. CASE Truncate
  BY <1>2 DEF Truncate
<1>3. CASE Request \/ Cancel \/ BeginWait
  BY <1>3 DEF Request, Cancel, BeginWait
<1>4. CASE Wait
  BY <1>4 DEF Wait, ReadFlag, ReadJobs
<1>5. CASE Restart
  BY <1>5 DEF Restart
<1>6. CASE Switch \/ Arrive \/ Withdraw
  BY <1>6 DEF Switch, Arrive, Withdraw
<1>7. CASE UNCHANGED drainVars
  BY <1>7 DEF drainVars
<1> QED
  BY <1>1, <1>2, <1>3, <1>4, <1>5, <1>6, <1>7 DEF DrainNext

\* Whenever it is requested, a drain is followed by at most one more claim.
THEOREM DrainStopsClaiming == DrainSpec => []AtMostOneMore
<1>1. DrainInit => ClaimsLeft
  BY DEF DrainInit, ClaimsLeft
<1>2. ClaimsLeft => AtMostOneMore
  BY DEF ClaimsLeft, AtMostOneMore
<1> QED
  BY DrainTypeInit, DrainTypeStep, ClaimsLeftStep, <1>1, <1>2, PTL DEF DrainSpec

-----------------------------------------------------------------------------
(***************************************************************************)
(* A wait that saw a job.  While the worker has a job in hand its job.json  *)
(* says inFlight or is half written; so a wait that saw it and is not       *)
(* cancelled finds the worker inside that job or, drained, past all, unless *)
(* it saw a record that no write could end, and then it never finds idle.   *)
(***************************************************************************)
\* The worker's steps after job.json of the job was written.
WithRecord == {"claim", "stage", "finish"}

RecordTells ==
  /\ rec = "inFlight" => pc \in WithRecord \/ ghost
  /\ pc \in WithRecord => rec \in {"inFlight", "torn"}

\* A wait that read the flag as set finds it set until a cancel.
FlagStands == waiter = "jobs" /\ steady => flag

\* While an uncancelled wait is in progress after it saw the job, the drain
\* stands and the worker is in that job or past it; and once it has found idle.
SawJob ==
  saw /\ steady =>
    /\ waiter \in {"flag", "jobs"} => ghost \/ (flag /\ pc \notin {"process", "queue"})
    /\ waiter = "idle" => torn \/ (flag /\ pc \notin Busy)

WaitInv == RecordTells /\ FlagStands /\ SawJob

LEMMA WaitStep == DrainTypeOK /\ WaitInv /\ [DrainNext]_drainVars => WaitInv'
<1> SUFFICES ASSUME DrainTypeOK, WaitInv, [DrainNext]_drainVars PROVE WaitInv'
  OBVIOUS
<1> USE DEF DrainTypeOK, WaitInv, RecordTells, FlagStands, SawJob, WithRecord, Busy, cli, job
<1>1. CASE Worker
  <2>1. CASE Top \/ WaitForGate \/ RecheckFlag \/ SyncInbox \/ LastCheck
    BY <2>1 DEF Top, WaitForGate, RecheckFlag, SyncInbox, LastCheck, Step, DrainRequested
  <2>2. CASE Refuse \/ Preflight \/ WriteQueued
    BY <2>2 DEF Refuse, Preflight, WriteQueued, Step
  <2>3. CASE Claim
    BY <2>3 DEF Claim, Step
  <2>4. CASE Stage \/ LastStage
    BY <2>4 DEF Stage, LastStage, Step
  <2>5. CASE Finish \/ FinishFails \/ Tail
    <3>1. CASE Finish BY <3>1 DEF Finish, Step
    <3>2. CASE FinishFails BY <3>2 DEF FinishFails, Step
    <3>3. CASE Tail BY <3>3 DEF Tail, Step
    <3> QED BY <2>5, <3>1, <3>2, <3>3
  <2> QED
    BY <1>1, <2>1, <2>2, <2>3, <2>4, <2>5 DEF Worker
<1>2. CASE Truncate
  BY <1>2 DEF Truncate
<1>3. CASE Request \/ Cancel \/ BeginWait
  <2>1. CASE Request
    BY <2>1 DEF Request
  <2>2. CASE Cancel
    BY <2>2 DEF Cancel
  <2>3. CASE BeginWait
    BY <2>3 DEF BeginWait
  <2> QED
    BY <1>3, <2>1, <2>2, <2>3
<1>4. CASE Wait
  <2>1. CASE ReadFlag
    BY <2>1 DEF ReadFlag
  <2>2. CASE ReadJobs
    BY <2>2 DEF ReadJobs
  <2> QED
    BY <1>4, <2>1, <2>2 DEF Wait
<1>5. CASE Restart
  BY <1>5 DEF Restart
<1>6. CASE Switch \/ Arrive \/ Withdraw
  BY <1>6 DEF Switch, Arrive, Withdraw
<1>7. CASE UNCHANGED drainVars
  BY <1>7 DEF drainVars
<1> QED
  BY <1>1, <1>2, <1>3, <1>4, <1>5, <1>6, <1>7 DEF DrainNext

\* An "idle" that follows a sighting of the job, read off whole records, means
\* that the worker has written its end and will claim no other genome, whatever
\* writes of job.json and calls of systemctl fail.
THEOREM IdleAfterTheJob == DrainSpec => []IdleAfterDrainingIsSafe
<1>1. DrainInit => WaitInv
  BY DEF DrainInit, WaitInv, RecordTells, FlagStands, SawJob, WithRecord
<1>2. WaitInv => IdleAfterDrainingIsSafe
  BY DEF WaitInv, SawJob, IdleAfterDrainingIsSafe
<1> QED
  BY DrainTypeInit, DrainTypeStep, WaitStep, <1>1, <1>2, PTL DEF DrainSpec
=============================================================================
