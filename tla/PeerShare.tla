------------------------------ MODULE PeerShare ------------------------------
(***************************************************************************)
(* One genome on its way between furnaces: peering publish (by hand, or by  *)
(* the cron of share_votes.py) taxes, signs and stages it in share-out; the *)
(* operator copies it into a folder Syncthing keeps alike on all furnaces;  *)
(* peering promote verifies it there, taxes it and moves it to the worker's *)
(* inbox or to quarantine.  The genome and its two integrity sidecars are   *)
(* three files, and every one of them travels, changes and dies by itself.  *)
(***************************************************************************)
EXTENDS Integers, FiniteSets

CONSTANTS
  Furnaces,
  Senders,     \* furnaces that have the genome in genomes_done
  Receivers,   \* furnaces whose operator runs promote
  Publishers,  \* publish processes of a sender: cron's and an operator's
  Cron,        \* the one that share_votes.py starts
  Taxers,      \* furnaces with sheep_tax.enabled
  None,
  Torn,        \* what is in a file that is open and not yet written
  MaxRev, MaxKeys, MaxPuts,  \* bounds on re-renders, key pairs, copies into the folder
  MaxRuns, MaxFaults  \* bounds on publish and gen-keys commands, and on deaths and failed calls

ASSUME PeerShareAssumption ==
  /\ Senders \cup Receivers \cup Taxers \subseteq Furnaces
  /\ Cron \in Publishers /\ None \notin Furnaces
  /\ {MaxRev, MaxKeys} \subseteq Nat \ {0} /\ {MaxRuns, MaxPuts, MaxFaults} \subseteq Nat

VARIABLES
  at,       \* at[h][d][f]: file f in directory d of furnace h, or None
  ver,      \* ver[h][f]: Syncthing's version of a file in the shared folder
  pub,      \* pub[h][p]: each publish, with what it is about to write (of, by)
  prom,     \* next step of each promote
  priv, pubkey, keying,  \* the key pair's two files, and whether one is being made
  trusted,  \* the trust store
  opted, shared,         \* Opt In, and the devices the Syncthing folder is shared with
  revs, runs, puts, faults,
  attested, \* history: genomes some publisher wrote a sidecar for
  died,     \* history: senders where publish or gen-keys died
  swapped,  \* history: furnaces where the shared genome was replaced under a promote
  changed,  \* history: senders whose genome changed under a publish
  stale,    \* history: senders that hashed a genome beside another one's signature
  crossed   \* history: senders where a sidecar was staged while a publish had it open

files   == <<at, ver>>
keys    == <<priv, pubkey, keying, trusted>>
mesh    == <<opted, shared>>
bounds  == <<revs, runs, puts, faults>>
history == <<attested, died, swapped, changed, stale, crossed>>
vars == <<files, pub, prom, keys, mesh, bounds, history>>

File  == {"gen", "sig", "sha"}
Sides == File \ {"gen"}
Dir   == {"done", "out", "box", "work"}
Body  == [rev : 0 .. MaxRev, clean : BOOLEAN]  \* revision 0 is a stranger's file
Key   == Furnaces \X (1 .. MaxKeys)
ASSUME NoneAssumption ==
  None \notin Body \cup [of : Body \cup {Torn}, by : Key] /\ Torn \notin Body \cup {None}
Nothing  == [f \in File |-> None]
NoPublish == [pc |-> "idle", apply |-> FALSE, move |-> FALSE, of |-> None, by |-> None]

Cleaned(b) == [b EXCEPT !.clean = TRUE]
Step(h, p, from, to) ==
  /\ pub[h][p].pc = from
  /\ pub' = [pub EXCEPT ![h][p] = IF to = "idle" THEN NoPublish
                                  ELSE [@ EXCEPT !.pc = to, !.of = None, !.by = None]]
Turn(h, from, to) == prom[h] = from /\ prom' = [prom EXCEPT ![h] = to]
Publishing(h) == {p \in Publishers : pub[h][p].pc # "idle"}
Source(h)     == at[h]["done"]
Writing(h, f) == \E p \in Publishers : pub[h][p].pc = (IF f = "sig" THEN "writeSig" ELSE "writeSha")

\* The sidecars of a directory are about the genome in it.
Matches(dir) ==
  IF dir["sig"] # None THEN dir["sig"].of = dir["gen"] ELSE dir["sha"] = dir["gen"]

\* A shared file changes on h: Syncthing will pass the change on.
Touch(h, f) == ver' = [ver EXCEPT ![h][f] = @ + 1]

\* The genome in h's shared folder is replaced or removed.
Swap(h) == swapped' = IF prom[h] \in {"tax", "move"} THEN swapped \cup {h} ELSE swapped

\* The source genome becomes b, perhaps under another publish.
Rewrite(h, b, others) ==
  /\ at' = [at EXCEPT ![h]["done"]["gen"] = b]
  /\ changed' = IF b # Source(h)["gen"] /\ others # {} THEN changed \cup {h} ELSE changed

-----------------------------------------------------------------------------
(* publish.                                                                *)

Begin(h, p, apply, move) ==
  /\ runs < MaxRuns /\ runs' = runs + 1
  /\ pub[h][p].pc = "idle"
  /\ pub' = [pub EXCEPT ![h][p] = [NoPublish EXCEPT !.pc = "tax", !.apply = apply, !.move = move]]
  /\ UNCHANGED <<files, prom, keys, mesh, revs, puts, faults, history>>

PublishByHand(h, p) ==
  /\ p # Cron /\ Source(h)["gen"] # None
  /\ Begin(h, p, FALSE, FALSE) \/ \E move \in BOOLEAN : Begin(h, p, TRUE, move)

\* run_share_votes: opted in, voted for (Sidecar has the votes), not in share-out yet
ShareVoted(h, p) ==
  /\ p = Cron /\ opted[h]
  /\ Source(h)["gen"] # None /\ at[h]["out"]["gen"] = None
  /\ Begin(h, p, TRUE, FALSE)

\* Any step that needs the genome raises once it is gone.
SourceGone(h, p) ==
  /\ pub[h][p].pc \in {"tax", "sign", "hash", "copy"} /\ Source(h)["gen"] = None
  /\ pub' = [pub EXCEPT ![h][p] = NoPublish]
  /\ UNCHANGED <<files, prom, keys, mesh, bounds, history>>

\* scan_file refuses a genome, or repairs it in place.
TaxSource(h, p) ==
  /\ Source(h)["gen"] # None
  /\ \/ h \in Taxers /\ Step(h, p, "tax", "idle") /\ UNCHANGED <<at, changed>>
     \/ /\ Step(h, p, "tax", "sign")
        /\ Rewrite(h, IF h \in Taxers THEN Cleaned(Source(h)["gen"]) ELSE Source(h)["gen"],
                   Publishing(h) \ {p})
  /\ UNCHANGED <<ver, prom, keys, mesh, bounds, attested, died, swapped, stale, crossed>>

\* write_text opens a sidecar, which empties it, after the genome was hashed ...
Open(h, p, to, f, torn, key) ==
  /\ Source(h)["gen"] # None
  /\ at' = [at EXCEPT ![h]["done"][f] = torn]
  /\ pub' = [pub EXCEPT ![h][p] = [@ EXCEPT !.pc = to, !.of = Source(h)["gen"], !.by = key]]
  /\ UNCHANGED <<ver, prom, keys, mesh, bounds, history>>

\* ... and writes it: into share-out, where it was moved there meanwhile.
Write(h, p, f, v) ==
  /\ at' = [at EXCEPT ![h][IF Source(h)[f] # None THEN "done" ELSE "out"][f] = v]
  /\ attested' = attested \cup {pub[h][p].of}
  /\ UNCHANGED <<ver, prom, keys, mesh, bounds, died, swapped, changed, stale, crossed>>

\* Fault: a genome that has a signature keeps it.
SignOnce(h, p) ==
  /\ pub[h][p].pc = "sign" /\ Source(h)["gen"] # None /\ priv[h] # None
  /\ \/ /\ Source(h)["sig"] # None /\ Step(h, p, "sign", "hash")
        /\ UNCHANGED <<files, prom, keys, mesh, bounds, history>>
     \/ /\ Source(h)["sig"] = None
        /\ Open(h, p, "writeSig", "sig", [of |-> Torn, by |-> priv[h]], priv[h])

\* write_ed25519_sidecar, if a key is there
Sign(h, p) ==
  /\ pub[h][p].pc = "sign" /\ priv[h] # None
  /\ Open(h, p, "writeSig", "sig", [of |-> Torn, by |-> priv[h]], priv[h])

WriteSig(h, p) ==
  /\ Step(h, p, "writeSig", "hash")
  /\ Write(h, p, "sig", [of |-> pub[h][p].of, by |-> pub[h][p].by])

\* Otherwise only the hash is written; what is there of a signature stays.
CannotSign(h, p) ==
  /\ Step(h, p, "sign", "hash") \/ Step(h, p, "writeSig", "hash")
  /\ Source(h)["gen"] # None
  /\ \/ priv[h] = None /\ UNCHANGED faults
     \/ priv[h] # None /\ faults < MaxFaults /\ faults' = faults + 1
  /\ stale' = IF Source(h)["sig"] # None /\ Source(h)["sig"].of # Source(h)["gen"]
              THEN stale \cup {h} ELSE stale
  /\ UNCHANGED <<files, prom, keys, mesh, revs, runs, puts, attested, died, swapped, changed, crossed>>

\* write_sha256_sidecar
Hash(h, p) == pub[h][p].pc = "hash" /\ Open(h, p, "writeSha", "sha", Torn, None)

WriteSha(h, p) ==
  /\ Step(h, p, "writeSha", IF pub[h][p].apply THEN "check" ELSE "idle")
  /\ Write(h, p, "sha", pub[h][p].of)

\* skip_exists
CheckStaged(h, p) ==
  /\ Step(h, p, "check", IF at[h]["out"]["gen"] # None THEN "idle" ELSE "copy")
  /\ UNCHANGED <<files, prom, keys, mesh, bounds, history>>

\* copy2 or move of one file into share-out
Staged(h, p, f) ==
  [at EXCEPT ![h]["out"][f] = Source(h)[f],
             ![h]["done"][f] = IF pub[h][p].move THEN None ELSE @]

StageGenome(h, p) ==
  /\ Step(h, p, "copy", "sig")
  /\ Source(h)["gen"] # None /\ at' = Staged(h, p, "gen")
  /\ UNCHANGED <<ver, prom, keys, mesh, bounds, history>>

StageSide(h, p, f, next) ==
  /\ Step(h, p, f, next)
  /\ at' = IF Source(h)[f] # None THEN Staged(h, p, f) ELSE at
  /\ crossed' = IF Writing(h, f) THEN crossed \cup {h} ELSE crossed
  /\ UNCHANGED <<ver, prom, keys, mesh, bounds, attested, died, swapped, changed, stale>>

StageSides(h, p) == StageSide(h, p, "sig", "sha") \/ StageSide(h, p, "sha", "idle")

PublishDies(h, p) ==
  /\ pub[h][p].pc # "idle" /\ faults < MaxFaults
  /\ pub' = [pub EXCEPT ![h][p] = NoPublish]
  /\ faults' = faults + 1 /\ died' = died \cup {h}
  /\ UNCHANGED <<files, prom, keys, mesh, revs, runs, puts, attested, swapped, changed, stale, crossed>>

Publish(h, p) ==
  \/ PublishByHand(h, p) \/ ShareVoted(h, p) \/ SourceGone(h, p)
  \/ TaxSource(h, p) \/ Sign(h, p) \/ WriteSig(h, p) \/ CannotSign(h, p)
  \/ Hash(h, p) \/ WriteSha(h, p)
  \/ CheckStaged(h, p) \/ StageGenome(h, p) \/ StageSides(h, p) \/ PublishDies(h, p)

-----------------------------------------------------------------------------
(* Keys.                                                                   *)

Own(h) == IF pubkey[h] # None THEN {pubkey[h]} ELSE {priv[h]} \ {None}

TrustedKeys(h) == trusted[h] \cup Own(h)

\* gen_keypair writes the private key ...
WritePrivate(h, n) ==
  /\ ~keying[h] /\ n \in 1 .. MaxKeys /\ priv' = [priv EXCEPT ![h] = <<h, n>>]
  /\ keying' = [keying EXCEPT ![h] = TRUE]
  /\ UNCHANGED <<pubkey, trusted>>

\* Fault: a public key that is there is kept.
WriteFirstPublic(h) ==
  /\ keying[h]
  /\ pubkey' = [pubkey EXCEPT ![h] = IF @ = None THEN priv[h] ELSE @]
  /\ keying' = [keying EXCEPT ![h] = FALSE]
  /\ UNCHANGED <<files, pub, prom, priv, trusted, mesh, bounds, history>>

\* ... and then the public one.
WritePublic(h) ==
  /\ keying[h]
  /\ pubkey' = [pubkey EXCEPT ![h] = priv[h]]
  /\ keying' = [keying EXCEPT ![h] = FALSE]
  /\ UNCHANGED <<files, pub, prom, priv, trusted, mesh, bounds, history>>

KeyingDies(h) ==
  /\ keying[h] /\ faults < MaxFaults
  /\ keying' = [keying EXCEPT ![h] = FALSE]
  /\ faults' = faults + 1 /\ died' = died \cup {h}
  /\ UNCHANGED <<files, pub, prom, priv, pubkey, trusted, mesh, revs, runs, puts,
                 attested, swapped, changed, stale, crossed>>

\* gen-keys --overwrite
NewKeys(h) ==
  /\ runs < MaxRuns /\ runs' = runs + 1
  /\ priv[h] # None /\ WritePrivate(h, priv[h][2] + 1)
  /\ UNCHANGED <<files, pub, prom, mesh, revs, puts, faults, history>>

\* A missing key pair is made, a missing public key derived, all else is kept.
EnsureKeys(h) ==
  \/ priv[h] = None /\ WritePrivate(h, 1)
  \/ /\ priv[h] # None
     /\ pubkey' = [pubkey EXCEPT ![h] = IF @ = None THEN priv[h] ELSE @]
     /\ UNCHANGED <<priv, keying, trusted>>

\* trust-key; with --name a newer key of the same furnace takes the older one's file.
TrustKey(h, a) ==
  /\ pubkey[a] # None
  /\ \E kept \in {trusted[h], {k \in trusted[h] : k[1] # a}} :
       trusted' = [trusted EXCEPT ![h] = kept \cup {pubkey[a]}]
  /\ UNCHANGED <<files, pub, prom, priv, pubkey, keying, mesh, bounds, history>>

-----------------------------------------------------------------------------
(* The mesh.                                                               *)

\* opt_in: the Syncthing folder, so far shared with nobody; the acknowledgement; keys.
\* Opt Out only withholds deliveries and shares, and those may stay out anyway.
OptIn(h) ==
  /\ ~opted[h] /\ ~keying[h]
  /\ opted' = [opted EXCEPT ![h] = TRUE]
  /\ EnsureKeys(h)
  /\ UNCHANGED <<files, pub, prom, shared, bounds, history>>

\* mesh-join: the folder, and each listed peer but itself.  A share call that
\* fails is noted and passed over; the next mesh-join makes it again.
MeshJoin(h) ==
  /\ \E new \in SUBSET (Furnaces \ {h}) :
       /\ shared' = [shared EXCEPT ![h] = @ \cup new]
       /\ shared' # shared
  /\ UNCHANGED <<files, pub, prom, keys, opted, bounds, history>>

Linked(a, b) == opted[a] /\ opted[b] /\ b \in shared[a] /\ a \in shared[b]

\* External: Syncthing brings b one file, or one removal; of two changes either may win.
Deliver(a, b, f) ==
  /\ Linked(a, b)
  /\ ver[a][f] >= ver[b][f] /\ <<at[a]["box"][f], ver[a][f]>> # <<at[b]["box"][f], ver[b][f]>>
  /\ at' = [at EXCEPT ![b]["box"][f] = at[a]["box"][f]]
  /\ ver' = [ver EXCEPT ![b][f] = ver[a][f]]
  /\ IF f = "gen" THEN Swap(b) ELSE UNCHANGED swapped
  /\ UNCHANGED <<pub, prom, keys, mesh, bounds, attested, died, changed, stale, crossed>>

\* External: the operator copies what is staged into the shared folder.
HandOver(h) ==
  LET out == at[h]["out"]
      new == {f \in File : out[f] \notin {None, at[h]["box"][f]}}
  IN /\ out["gen"] # None /\ new # {}
     /\ puts < MaxPuts /\ puts' = puts + 1
     /\ at' = [at EXCEPT ![h]["box"] = [f \in File |-> IF f \in new THEN out[f] ELSE @[f]]]
     /\ ver' = [ver EXCEPT ![h] = [f \in File |-> IF f \in new THEN @[f] + 1 ELSE @[f]]]
     /\ IF "gen" \in new THEN Swap(h) ELSE UNCHANGED swapped
     /\ UNCHANGED <<pub, prom, keys, mesh, revs, runs, faults, attested, died, changed, stale, crossed>>

\* External: somebody drops a genome of that name there, with no sidecars (bound: once).
Drop(h) ==
  /\ puts = 0 /\ puts < MaxPuts /\ puts' = puts + 1 /\ Touch(h, "gen")
  /\ at' = [at EXCEPT ![h]["box"]["gen"] = [rev |-> 0, clean |-> FALSE]]
  /\ Swap(h)
  /\ UNCHANGED <<pub, prom, keys, mesh, revs, runs, faults, attested, died, changed, stale, crossed>>

-----------------------------------------------------------------------------
(* promote.                                                                *)

Box(h) == at[h]["box"]

\* Fault: a genome without sidecars passes.
VerifiedIfAsked(h) ==
  IF Box(h)["sig"] # None
  THEN Box(h)["sig"].of = Box(h)["gen"] /\ Box(h)["sig"].by \in TrustedKeys(h)
  ELSE Box(h)["sha"] \in {None, Box(h)["gen"]}

\* A signature decides by itself; without one the hash does.
Verified(h) ==
  IF Box(h)["sig"] # None
  THEN Box(h)["sig"].of = Box(h)["gen"] /\ Box(h)["sig"].by \in TrustedKeys(h)
  ELSE Box(h)["sha"] = Box(h)["gen"]

BeginPromote(h) ==
  /\ Box(h)["gen"] # None /\ Turn(h, "idle", "verify")
  /\ UNCHANGED <<files, pub, keys, mesh, bounds, history>>

\* Delivered away meanwhile: hashing, reading or moving it raises.
BoxGone(h) ==
  /\ prom[h] \in {"verify", "tax", "move", "reject"} /\ Box(h)["gen"] = None
  /\ prom' = [prom EXCEPT ![h] = "idle"]
  /\ UNCHANGED <<files, pub, keys, mesh, bounds, history>>

Verify(h) ==
  /\ Box(h)["gen"] # None /\ Turn(h, "verify", IF Verified(h) THEN "tax" ELSE "reject")
  /\ UNCHANGED <<files, pub, keys, mesh, bounds, history>>

\* The repair is made where Syncthing sees it, and the sidecars are not renewed.
Repair(h) ==
  IF h \in Taxers /\ ~Box(h)["gen"].clean
  THEN at' = [at EXCEPT ![h]["box"]["gen"] = Cleaned(@)] /\ Touch(h, "gen")
  ELSE UNCHANGED files

TaxBox(h) ==
  /\ Box(h)["gen"] # None
  /\ \/ h \in Taxers /\ Turn(h, "tax", "reject") /\ UNCHANGED files
     \/ Turn(h, "tax", "move") /\ Repair(h)
  /\ UNCHANGED <<pub, keys, mesh, bounds, history>>

\* Without --apply: nothing is moved, but the tax is taken all the same.
Plan(h) ==
  /\ prom[h] = "idle" /\ Box(h)["gen"] # None /\ Verified(h)
  /\ Repair(h)
  /\ UNCHANGED <<pub, prom, keys, mesh, bounds, history>>

Leave(h, f) == Touch(h, f) /\ at' = [at EXCEPT ![h]["box"][f] = None]

\* skip_exists, or into the worker's inbox, stamped
Move(h) ==
  /\ Box(h)["gen"] # None
  /\ \/ at[h]["work"]["gen"] # None /\ Turn(h, "move", "idle") /\ UNCHANGED files
     \/ /\ at[h]["work"]["gen"] = None /\ Turn(h, "move", "sig") /\ Touch(h, "gen")
        /\ at' = [at EXCEPT ![h]["work"]["gen"] = Box(h)["gen"], ![h]["box"]["gen"] = None]
  /\ UNCHANGED <<pub, keys, mesh, bounds, history>>

\* To quarantine, where nothing here looks again.
Reject(h) ==
  /\ Box(h)["gen"] # None /\ Turn(h, "reject", "sig") /\ Leave(h, "gen")
  /\ UNCHANGED <<pub, keys, mesh, bounds, history>>

\* _move_companions, to where the genome went
MoveSide(h, f, next) ==
  /\ Turn(h, f, next)
  /\ IF Box(h)[f] # None THEN Leave(h, f) ELSE UNCHANGED files
  /\ UNCHANGED <<pub, keys, mesh, bounds, history>>

MoveSides(h) == MoveSide(h, "sig", "sha") \/ MoveSide(h, "sha", "idle")

PromoteDies(h) ==
  /\ prom[h] # "idle" /\ faults < MaxFaults /\ faults' = faults + 1
  /\ prom' = [prom EXCEPT ![h] = "idle"]
  /\ UNCHANGED <<files, pub, keys, mesh, revs, runs, puts, history>>

Promote(h) ==
  BeginPromote(h) \/ Plan(h) \/ BoxGone(h) \/ Verify(h) \/ TaxBox(h) \/ Move(h) \/ Reject(h) \/ MoveSides(h)
    \/ PromoteDies(h)

-----------------------------------------------------------------------------

\* External: the worker taxes and renders what waits, and files it.
Render(h) ==
  /\ at[h]["work"]["gen"] # None
  /\ at' = [at EXCEPT ![h]["work"]["gen"] = None]
  /\ UNCHANGED <<ver, pub, prom, keys, mesh, bounds, history>>

\* External: a refactor renders the sheep again from an altered genome.
Rerender(h) ==
  /\ revs < MaxRev /\ revs' = revs + 1
  /\ Rewrite(h, [rev |-> revs + 1, clean |-> h \in Taxers], Publishing(h))
  /\ UNCHANGED <<ver, pub, prom, keys, mesh, runs, puts, faults, attested, died, swapped, stale, crossed>>

First == [rev |-> 1, clean |-> FALSE]
Fresh == [Nothing EXCEPT !["gen"] = First]

\* What publish can leave in share-out: signed, by a key since replaced or not;
\* hashed only; hashed beside a signature that does not match.
Left(h) ==
  {[Fresh EXCEPT !["sig"] = [of |-> First, by |-> <<h, n>>], !["sha"] = First] : n \in 1 .. MaxKeys}
    \cup {[Nothing EXCEPT !["gen"] = Cleaned(First), !["sha"] = Cleaned(First)],
          [Fresh EXCEPT !["sha"] = First, !["sig"] = [of |-> Cleaned(First), by |-> <<h, 1>>]]}

\* The folder is not yet in use, and senders have not opted in.
BeforePublish ==
  /\ at = [h \in Furnaces |-> [d \in Dir |-> IF d = "done" /\ h \in Senders THEN Fresh ELSE Nothing]]
  /\ \E keyed \in SUBSET Senders :
       priv = [h \in Furnaces |-> IF h \in Senders \ keyed THEN None ELSE <<h, 1>>]
  /\ opted = [h \in Furnaces |-> h \notin Senders]
  /\ shared = [h \in Furnaces |-> Furnaces \ {h}]
  /\ revs = 1 /\ runs = 0 /\ puts = MaxPuts
  /\ attested = {} /\ died = {}

\* Publishing is over, and the others are to join the mesh.
AfterPublish ==
  /\ \E out \in [Senders -> UNION {Left(h) : h \in Senders}] :
       /\ \A h \in Senders : out[h] \in Left(h)
       /\ at = [h \in Furnaces |-> [d \in Dir |->
                IF h \in Senders /\ d \in {"done", "out"}
                THEN IF d = "out" THEN out[h] ELSE Fresh ELSE Nothing]]
  /\ priv = [h \in Furnaces |-> <<h, IF h \in Senders THEN MaxKeys ELSE 1>>]
  /\ opted = [h \in Furnaces |-> TRUE]
  /\ shared = [h \in Furnaces |-> IF h \in Senders THEN Furnaces \ {h} ELSE {}]
  /\ revs = MaxRev /\ runs = MaxRuns /\ puts = 0
  /\ attested = UNION {{at[h]["out"]["sha"]} \cup
                        IF at[h]["out"]["sig"] = None THEN {} ELSE {at[h]["out"]["sig"].of} : h \in Senders}
  /\ died = {h \in Senders : ~Matches(at[h]["out"])}

\* Publishing and promoting share no state but share-out, the keys and the
\* links, so a behaviour has one or the other.
Init ==
  /\ BeforePublish \/ AfterPublish
  /\ ver = [h \in Furnaces |-> [f \in File |-> 0]]
  /\ pub = [h \in Senders |-> [p \in Publishers |-> NoPublish]]
  /\ prom = [h \in Furnaces |-> "idle"]
  /\ pubkey = priv
  /\ keying = [h \in Furnaces |-> FALSE] /\ trusted = [h \in Furnaces |-> {}]
  /\ faults = 0
  /\ swapped = {} /\ changed = {} /\ stale = {} /\ crossed = {}

Next ==
  \/ \E h \in Senders : \/ Rerender(h) \/ OptIn(h)
                        \/ NewKeys(h) \/ WritePublic(h) \/ KeyingDies(h)
                        \/ \E p \in Publishers : Publish(h, p)
                        \/ HandOver(h)
  \/ \E h \in Receivers : \/ Promote(h) \/ Render(h) \/ (h \notin Senders /\ Drop(h))
                          \/ \E a \in Senders \ {h} : TrustKey(h, a)
  \/ \E h \in Furnaces : MeshJoin(h)
  \/ \E a, b \in Furnaces, f \in File : a # b /\ Deliver(a, b, f)

Spec == Init /\ [][Next]_vars

-----------------------------------------------------------------------------

\* The state has its shape, and no furnace shares the folder with itself.
TypeOK ==
  /\ \A h \in Furnaces :
       /\ \A d \in Dir : /\ at[h][d]["gen"] \in Body \cup {None}
                         /\ at[h][d]["sha"] \in Body \cup {None, Torn}
                         /\ at[h][d]["sig"] \in [of : Body \cup {Torn}, by : Key] \cup {None}
       /\ priv[h] \in Key \cup {None} /\ pubkey[h] \in Key \cup {None}
       /\ trusted[h] \subseteq Key
       /\ shared[h] \subseteq Furnaces \ {h}
  /\ \A h \in Furnaces : prom[h] \in {"idle", "verify", "tax", "move", "reject", "sig", "sha"}
  /\ \A h \in Senders, p \in Publishers : pub[h][p].move \in BOOLEAN

\* What waits for the worker was hashed or signed by a publisher, byte for byte
\* or up to promote's own repair, whatever mixture of files Syncthing brought:
\* unless the file was replaced while promote worked on it.
OnlyAttestedIsRendered ==
  \A h \in Receivers : LET b == at[h]["work"]["gen"] IN
    b # None => \/ b \in attested
                \/ \E c \in attested : b = Cleaned(c)
                \/ h \in swapped

\* peering.py, promote: "Without ``--apply``, only lists candidates."  So it never
\* makes a later promote refuse as altered a genome whose trusted signature is
\* over those bytes before promote's own repair.
OwnRepairIsNotRefused ==
  \A h \in Receivers : LET sig == Box(h)["sig"] IN
    prom[h] = "reject" /\ sig # None /\ sig.of # Torn
      => ~(/\ sig.by \in TrustedKeys(h) /\ sig.of # Box(h)["gen"]
           /\ Cleaned(sig.of) = Box(h)["gen"])

\* Once publish has ended, the staged sidecars are about the staged genome:
\* unless a publish died, its genome changed under it, it could not renew the
\* signature that is there, or one staged a sidecar another one was writing.
StagedVerifies ==
  \A h \in Senders :
    Publishing(h) = {} /\ at[h]["out"]["gen"] # None
      => Matches(at[h]["out"]) \/ h \in died \cup changed \cup stale \cup crossed

\* share_security.py, at the hash fallback: "Remove stale sig if we could not sign".
StaleSignatureIsRemoved ==
  \A h \in Senders :
    Publishing(h) = {} /\ at[h]["out"]["gen"] # None
      => Matches(at[h]["out"]) \/ h \in died \cup changed \cup crossed

\* A furnace accepts its own signatures ("Always trust our own key pair"):
\* unless gen-keys died between its two files.
OwnKeyIsTrusted ==
  \A h \in Furnaces :
    priv[h] # None /\ ~keying[h] => priv[h] \in TrustedKeys(h) \/ h \in died

=============================================================================
