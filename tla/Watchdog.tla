------------------------------ MODULE Watchdog ------------------------------
(***************************************************************************)
(* Opt In, Opt Out (pipeline/peering.py) and the share watchdog             *)
(* (pipeline/tailscale_watch.py), which cron starts every five minutes and  *)
(* which may bounce Wi-Fi, reload its driver, enrol Tailscale again, start  *)
(* Syncthing, and at last drain the worker and reboot.                      *)
(*                                                                         *)
(* Cron's flock admits one watchdog at a time.  A tick is one cron period.  *)
(***************************************************************************)
EXTENDS Integers

CONSTANTS
  Cooldown,      \* lan_heal_cooldown_sec, in ticks
  RebootAfter,   \* lan_heal_reboot_after_sec, in ticks
  RebootOn,      \* lan_heal_reboot_enabled
  DriverOn,      \* lan_heal_driver_reload_enabled
  WanHeal,       \* wan_heal_enabled
  AuthKey,       \* TS_AUTHKEY is set
  MaxFaults      \* bound on what goes wrong around the program

ASSUME WatchdogAssumption ==
  /\ Cooldown \in Nat \ {0} /\ RebootAfter \in Nat \ {0} /\ MaxFaults \in Nat
  /\ {RebootOn, DriverOn, WanHeal, AuthKey} \subseteq BOOLEAN

VARIABLES
  net,      \* the furnace's way to the internet
  tsd,      \* tailscaled is active
  ts,       \* Tailscale login: "in", "down" (tailscale down) or "out"
  sync,     \* the Syncthing unit is active
  enabled,  \* it starts at boot
  ack,      \* the OPT_IN file
  op,       \* next step of the operator's command
  wd,       \* next step of the watchdog
  seen,     \* what it saw first: [up, net]; its last look at WAN: wan
  lan,      \* its heal_lan: [free, heavy, down]
  cool,     \* ticks of lan_heal_cooldown_file still to go
  wedge,    \* age of lan_heal_wedge_file, or NoWedge
  drain,    \* the worker's drain file
  faults,   \* faults so far
  last,     \* history: ticks since the last heavy act
  kept,     \* history: a stamp follows that act, or followed it
  out,      \* history: an Opt Out no heal ran beside stands
  cut       \* history: WAN failed since this heal last looked at it

world   == <<net, tsd, ts, sync, enabled>>
files   == <<ack, drain>>
stamps  == <<cool, wedge>>
memory  == <<seen, lan>>
history == <<last, kept, out, cut>>
vars == <<world, files, op, wd, memory, stamps, faults, history>>

(* noWan: the gateway answers, the internet does not.  silent: associated,  *)
(* but the gateway does not answer.  off: no IPv4, no default route.  eth:  *)
(* the default route is a cable whose gateway does not answer.              *)
Nets     == {"ok", "noWan", "silent", "off", "eth"}
Wifi     == Nets \ {"eth"}
LanOk(n) == n \in {"ok", "noWan"}
WanOk(n) == n = "ok"
NoWedge  == RebootAfter + 1

\* tailscale_ready
Online == tsd /\ ts = "in" /\ WanOk(net)

\* assess_peering_readiness
ShareLive == ack /\ sync /\ Online

NoSight  == [up |-> FALSE, net |-> "ok", wan |-> FALSE]
NoLan    == [free |-> FALSE, heavy |-> FALSE, down |-> FALSE]
NoMemory == seen' = NoSight /\ lan' = NoLan /\ cut' = FALSE

-----------------------------------------------------------------------------
(* The watchdog.                                                           *)

Goto(from, to) == wd = from /\ wd' = to

\* Fault: the opt-in is not asked for.
CronAlways ==
  /\ ~(sync /\ Online)
  /\ Goto("idle", "probe")
  /\ seen' = [up |-> Online, net |-> net, wan |-> FALSE]
  /\ out' = (out /\ op = "idle")
  /\ UNCHANGED <<world, files, op, lan, stamps, faults, last, kept, cut>>

\* heal_opt_in_share: skipped on Opt Out, done when the share is live.
Cron ==
  /\ ack /\ ~ShareLive
  /\ Goto("idle", "probe")
  /\ seen' = [up |-> Online, net |-> net, wan |-> FALSE]
  /\ out' = (out /\ op = "idle")
  /\ UNCHANGED <<world, files, op, lan, stamps, faults, last, kept, cut>>

\* check_wan, need_wifi
Probe ==
  /\ Goto("probe", IF ~LanOk(seen.net) \/ (WanHeal /\ ~WanOk(net))
                   THEN "wifi" ELSE "daemon")
  /\ seen' = [seen EXCEPT !.wan = WanOk(net)]
  /\ UNCHANGED <<world, files, op, lan, stamps, faults, history>>

\* heal_lan leaves a cable alone.
SkipCable ==
  /\ seen.net = "eth"
  /\ Goto("wifi", "rewan")
  /\ seen' = [seen EXCEPT !.net = "ok"]
  /\ UNCHANGED <<world, files, op, lan, stamps, faults, history>>

\* sta_associated: a gateway when it was first seen, or an address now.
Associated == seen.net # "off" \/ net # "off"

Heavy == /\ last' = 0 /\ kept' = TRUE
         /\ UNCHANGED <<out, cut>>

\* nmcli device disconnect
Bounce ==
  /\ seen.net # "eth" /\ ~Associated /\ cool = 0
  /\ Goto("wifi", "connect")
  /\ lan' = [free |-> TRUE, heavy |-> TRUE, down |-> TRUE]
  /\ Heavy
  /\ UNCHANGED <<world, files, op, seen, stamps, faults>>

NoBounce ==
  /\ seen.net # "eth" /\ (Associated \/ cool > 0)
  /\ Goto("wifi", "connect")
  /\ lan' = [free |-> cool = 0, heavy |-> FALSE, down |-> TRUE]
  /\ UNCHANGED <<world, files, op, seen, stamps, faults, history>>

\* nmcli device connect, with any outcome.
Connect ==
  /\ Goto("connect", "check")
  /\ net' \in (IF net = "eth" THEN {"eth"} ELSE Wifi)
  /\ UNCHANGED <<tsd, ts, sync, enabled, files, op, memory, stamps, faults,
                 history>>

\* _mark_wedge, _clear_wedge
Wedge == wedge' = IF LanOk(net) THEN NoWedge
                  ELSE IF wedge = NoWedge THEN 0 ELSE wedge

\* The kernel log may show a firmware wedge at any time; without a default
\* route, or after a bounce (which no associated interface gets), it is assumed.
MayReload  == DriverOn /\ lan.free /\ ~LanOk(net)
MustReload == MayReload /\ (net = "off" \/ lan.heavy)

Check ==
  /\ wd = "check"
  /\ wd' \in IF MustReload THEN {"reload"}
             ELSE IF MayReload THEN {"reload", "mark"} ELSE {"mark"}
  /\ Wedge
  /\ lan' = [lan EXCEPT !.down = ~LanOk(net)]
  /\ UNCHANGED <<world, files, op, seen, cool, faults, history>>

\* _reload_brcmfmac
Reload ==
  /\ Goto("reload", "recheck")
  /\ net' \in (IF net = "eth" THEN {"eth"} ELSE Wifi)
  /\ lan' = [lan EXCEPT !.heavy = TRUE]
  /\ Heavy
  /\ UNCHANGED <<tsd, ts, sync, enabled, files, op, seen, stamps, faults>>

Recheck ==
  /\ Goto("recheck", "mark")
  /\ Wedge
  /\ lan' = [lan EXCEPT !.down = ~LanOk(net)]
  /\ UNCHANGED <<world, files, op, seen, cool, faults, history>>

Decision == IF /\ lan.down /\ RebootOn
               /\ wedge # NoWedge /\ wedge >= RebootAfter
            THEN "drain" ELSE "rewan"

\* Fault: the cooldown is stamped only when the LAN is still down.
MarkFailures ==
  /\ Goto("mark", Decision)
  /\ cool' = IF lan.heavy /\ lan.down THEN Cooldown ELSE cool
  /\ lan' = NoLan /\ seen' = [seen EXCEPT !.net = "ok"]
  /\ UNCHANGED <<world, files, op, wedge, faults, history>>

\* _mark_cooldown, and the decision to reboot.
Mark ==
  /\ Goto("mark", Decision)
  /\ cool' = IF lan.heavy THEN Cooldown ELSE cool
  /\ lan' = NoLan /\ seen' = [seen EXCEPT !.net = "ok"]
  /\ UNCHANGED <<world, files, op, wedge, faults, history>>

\* worker_drain request
RequestDrain ==
  /\ Goto("drain", "reboot")
  /\ drain' = TRUE
  /\ UNCHANGED <<world, ack, op, memory, stamps, faults, history>>

\* What a boot brings back; nothing cancels the drain.
Boot ==
  /\ net' \in Nets /\ tsd' = TRUE /\ sync' = enabled
  /\ wd' = "idle" /\ op' = "idle"
  /\ NoMemory /\ out' = (out /\ op = "idle") /\ UNCHANGED <<ts, enabled>>

\* sudo reboot, if it is allowed to.
Reboot ==
  /\ wd = "reboot"
  /\ \/ Boot
     \/ wd' = "rewan" /\ UNCHANGED <<world, op, memory, out, cut>>
  /\ UNCHANGED <<files, stamps, faults, last, kept>>

\* Fault: the WAN is not asked for again after the Wi-Fi came back.
RewanKept ==
  /\ Goto("rewan", "daemon")
  /\ UNCHANGED <<world, files, op, memory, stamps, faults, history>>

\* wan_after
Rewan ==
  /\ Goto("rewan", "daemon")
  /\ seen' = [seen EXCEPT !.wan = WanOk(net)]
  /\ UNCHANGED <<world, files, op, lan, stamps, faults, history>>

\* tailscaled is restarted unless it is active.
Daemon ==
  /\ Goto("daemon", "up")
  /\ tsd' = TRUE
  /\ UNCHANGED <<net, ts, sync, enabled, files, op, memory, stamps, faults,
                 history>>

\* tailscale up: without a network it may lose the login it had.
TailscaleUp ==
  IF ~tsd \/ ~AuthKey THEN UNCHANGED ts
  ELSE ts' \in (IF WanOk(net) THEN {"in"} ELSE {ts, "out"})

\* Fault: a lost login is left alone.
UpNever ==
  /\ Goto("up", "sync")
  /\ UNCHANGED <<world, files, op, memory, stamps, faults, history>>

\* need_up, and not while the WAN is known to be down.
Up ==
  /\ Goto("up", "sync")
  /\ IF seen.up \/ (WanHeal /\ ~seen.wan) THEN UNCHANGED ts ELSE TailscaleUp
  /\ UNCHANGED <<net, tsd, sync, enabled, files, op, memory, stamps, faults,
                 history>>

\* Syncthing is restarted unless it is active.
Sync ==
  /\ Goto("sync", "idle")
  /\ sync' = TRUE
  /\ NoMemory
  /\ UNCHANGED <<net, tsd, ts, enabled, files, op, stamps, faults, last, kept,
                 out>>

HealLan == SkipCable \/ Bounce \/ NoBounce \/ Connect \/ Check \/ Reload
           \/ Recheck \/ Mark \/ RequestDrain \/ Reboot
Heal == Cron \/ Probe \/ HealLan \/ Rewan \/ Daemon \/ Up \/ Sync

-----------------------------------------------------------------------------
(* The operator.                                                           *)

Do(from, to) == op = from /\ op' = to

Ask(command) ==
  /\ Do("idle", command)
  /\ out' = (command = "stop" /\ wd = "idle")
  /\ UNCHANGED <<world, files, wd, memory, stamps, faults, last, kept, cut>>

\* opt_in: Tailscale, the units, the ack, the live check.
Enroll ==
  /\ Do("enroll", "units")
  /\ TailscaleUp
  /\ UNCHANGED <<net, tsd, sync, enabled, files, wd, memory, stamps, faults,
                 history>>

StartUnits ==
  /\ Do("units", "ack")
  /\ sync' = TRUE /\ enabled' = TRUE
  /\ UNCHANGED <<net, tsd, ts, files, wd, memory, stamps, faults, history>>

WriteAck ==
  /\ Do("ack", "verify")
  /\ ack' = TRUE
  /\ UNCHANGED <<world, drain, wd, memory, stamps, faults, history>>

\* Not live: the ack goes, the units and the login stay.
Verify ==
  /\ Do("verify", "idle")
  /\ ack' = ShareLive
  /\ UNCHANGED <<world, drain, wd, memory, stamps, faults, history>>

\* Fault: the unit is stopped but stays enabled.
StopOnly ==
  /\ Do("stop", "logout")
  /\ sync' = FALSE
  /\ UNCHANGED <<net, tsd, ts, enabled, files, wd, memory, stamps, faults,
                 history>>

\* opt_out: the units, Tailscale, the ack.
StopUnits ==
  /\ Do("stop", "logout")
  /\ sync' = FALSE /\ enabled' = FALSE
  /\ UNCHANGED <<net, tsd, ts, files, wd, memory, stamps, faults, history>>

\* tailscale logout, else tailscale down; neither reaches a stopped daemon.
Logout ==
  /\ Do("logout", "unack")
  /\ ts' \in IF ~tsd THEN {ts} ELSE IF WanOk(net) THEN {"out"}
             ELSE {"out", "down"}
  /\ out' = (out /\ tsd)
  /\ UNCHANGED <<net, tsd, sync, enabled, files, wd, memory, stamps, faults,
                 last, kept, cut>>

Unack ==
  /\ Do("unack", "idle")
  /\ ack' = FALSE
  /\ UNCHANGED <<world, drain, wd, memory, stamps, faults, history>>

OptIn  == Ask("enroll") \/ Enroll \/ StartUnits \/ WriteAck \/ Verify
OptOut == Ask("stop") \/ StopUnits \/ Logout \/ Unack

-----------------------------------------------------------------------------
(* What goes wrong around them, and time.                                  *)

Fault == faults < MaxFaults /\ faults' = faults + 1

NetChanges ==
  /\ Fault
  /\ net' \in Nets \ {net}
  /\ cut' = (wd \in {"daemon", "up"} /\ (cut \/ ~WanOk(net')))
  /\ UNCHANGED <<tsd, ts, sync, enabled, files, op, wd, memory, stamps, last,
                 kept, out>>

\* A daemon stops for good, or the tailnet's admin expires the login.
ServiceFails ==
  /\ Fault
  /\ \/ sync /\ sync' = FALSE /\ UNCHANGED <<tsd, ts>>
     \/ tsd /\ tsd' = FALSE /\ UNCHANGED <<sync, ts>>
     \/ ts = "in" /\ ts' = "out" /\ UNCHANGED <<sync, tsd>>
  /\ UNCHANGED <<net, enabled, files, op, wd, memory, stamps, history>>

\* Power is lost; the watchdog may die between a heavy act and its stamp.
PowerCycle ==
  /\ Fault /\ Boot
  /\ kept' = (kept /\ ~(wd # "idle" /\ lan.heavy))
  /\ UNCHANGED <<files, stamps, last>>

\* _cooldown_remaining, _wedge_age_sec
Tick ==
  /\ cool' = IF cool > 0 THEN cool - 1 ELSE 0
  /\ wedge' = IF wedge < RebootAfter THEN wedge + 1 ELSE wedge
  /\ last' = IF last < Cooldown THEN last + 1 ELSE last
  /\ UNCHANGED <<world, files, op, wd, memory, faults, kept, out, cut>>

Init ==
  /\ net \in Nets /\ tsd = TRUE /\ ts = "out"
  /\ sync = FALSE /\ enabled = FALSE /\ ack = FALSE
  /\ op = "idle" /\ wd = "idle" /\ drain = FALSE
  /\ seen = NoSight /\ lan = NoLan
  /\ cool = 0 /\ wedge = NoWedge /\ faults = 0
  /\ last = Cooldown /\ kept = TRUE /\ out = FALSE /\ cut = FALSE

Next == Heal \/ OptIn \/ OptOut \/ NetChanges \/ ServiceFails \/ PowerCycle
        \/ Tick

Spec == Init /\ [][Next]_vars

\* Cron starts the watchdog again and again, and it runs to its end.
FairSpec == Spec /\ WF_vars(Heal) /\ WF_vars(Tick)

-----------------------------------------------------------------------------
(* Properties.                                                             *)

FlagsOK ==
  /\ tsd \in BOOLEAN /\ sync \in BOOLEAN /\ enabled \in BOOLEAN
  /\ ack \in BOOLEAN /\ drain \in BOOLEAN
  /\ kept \in BOOLEAN /\ out \in BOOLEAN /\ cut \in BOOLEAN

StatesOK ==
  /\ net \in Nets /\ ts \in {"in", "down", "out"}
  /\ op \in {"idle", "enroll", "units", "ack", "verify", "stop", "logout",
             "unack"}
  /\ wd \in {"idle", "probe", "wifi", "connect", "check", "reload", "recheck",
             "mark", "drain", "reboot", "rewan", "daemon", "up", "sync"}
  /\ seen \in [up : BOOLEAN, net : Nets, wan : BOOLEAN]
  /\ lan \in [free : BOOLEAN, heavy : BOOLEAN, down : BOOLEAN]
  /\ cool \in 0..Cooldown /\ wedge \in 0..NoWedge
  /\ faults \in 0..MaxFaults /\ last \in 0..Cooldown

TypeOK == FlagsOK /\ StatesOK

\* An Opt Out stands: whatever network, boots and the watchdog do after it,
\* Syncthing neither runs nor starts at boot, Tailscale stays logged out or
\* down, and no heal begins, until the operator opts in again.  It must not have
\* met a running heal or a stopped tailscaled.
OptOutStands ==
  op = "idle" /\ out => ~ack /\ ~sync /\ ~enabled /\ ts # "in" /\ wd = "idle"

\* lan_heal_cooldown_sec, "min seconds between hard bounce / driver reload":
\* the first heavy act of a heal comes a cooldown after those of any earlier
\* heal, across boots, unless that one died before its stamp.
HeavyActsAreSpaced ==
  [][Bounce \/ (Reload /\ ~lan.heavy) => last >= Cooldown \/ ~kept]_vars

\* "re-auth while WAN is down previously logged the node out": a heal costs the
\* login only if WAN failed after its last look.
HealKeepsLogin == [][Up /\ ts = "in" => ts' = "in" \/ cut \/ ~WanHeal]_vars

\* An opted-in furnace whose network is back is shared again, whichever of
\* tailscaled, the login and Syncthing had gone, without an operator.
HealsWhenNetworkIsBack ==
  <>[](ack /\ op = "idle" /\ net = "ok") => <>[]ShareLive

-----------------------------------------------------------------------------
(* What comments and docs say, and the code does not keep.                 *)

\* peering.py:707 "Prefer logout so node does not rejoin on reboot without Opt
\* In."  deploy/peering/README.md:13 "Opt Out - Syncthing unit disabled; no
\* Tailscale flock enroll".
OptedOutRunsNothing ==
  op = "idle" /\ wd = "idle" /\ ~ack => ~sync /\ ts # "in"
=============================================================================
