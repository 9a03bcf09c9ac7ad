-------------------------- MODULE ActivationProofs --------------------------
(***************************************************************************)
(* What activate keeps for every number of shells, versions and names,     *)
(* however the files change between its reads.  The inductive invariant    *)
(* says what a process knows by how far it has come: that what it has read *)
(* of the policy was approved as a pair once it has passed the settings,   *)
(* and how old at most the source is that a marker in its hands names.     *)
(***************************************************************************)
EXTENDS Activation, TLAPS

ProcState ==
    [pc : {"idle", "prerun", "config", "manifest", "settings", "hash", "get",
           "decrypt", "put"},
     attempt : {"first", "load", "again"},
     read : [config : Configs \cup {None}, manifest : Manifests \cup {None},
             src : Sources],
     first : Keys \cup {None}, loaded : Loaded \cup {None}]
Script == [marker : Keys \cup {None}, loaded : Loaded \cup {None}]

(* Loaded under a policy the user approved, with the names it declares.    *)
GoodLoad(l, ok) == l \in Loaded /\ l.under \in ok /\ l.names = Declares[l.under[1]]

(* A process when ok was approved so far and src is the current source.    *)
GoodProc(p, ok, src) ==
    /\ p \in ProcState
    /\ p.pc \notin {"idle", "prerun", "config"} => p.read.config \in Configs
    /\ p.pc \in {"settings", "hash", "get", "decrypt", "put"} =>
         p.read.manifest \in Manifests
    /\ p.pc \in {"hash", "get", "decrypt", "put"} =>
         <<p.read.config, p.read.manifest>> \in ok
    /\ p.first # None => p.first[3] <= src
    /\ p.attempt = "again" => GoodLoad(p.loaded, ok)
    /\ p.pc \in {"get", "decrypt", "put"} =>
         /\ p.attempt = "load"
         /\ p.read.src <= src
         /\ p.first # None => p.first[3] <= p.read.src
    /\ p.pc = "put" =>
         /\ GoodLoad(p.loaded, ok)
         /\ p.loaded.under = <<p.read.config, p.read.manifest>>
         /\ p.read.src <= p.loaded.src

(* A shell, and whether its marker came from the third Prepare.            *)
GoodShell(v, ok, third) ==
    /\ v \in Script
    /\ v.marker = None <=> v.loaded = None
    /\ v.loaded # None => GoodLoad(v.loaded, ok)
    /\ ~third /\ v.marker # None => v.marker[3] <= v.loaded.src

WorldOK ==
    /\ disk \in [config : Configs, manifest : Manifests, source : Sources,
                 intact : BOOLEAN]
    /\ approved \in everApproved \cup {None}
    /\ readable \in BOOLEAN
    /\ bundle \in Bundles
    /\ inside \subseteq Shells
    /\ everApproved \subseteq Policies
    /\ deaths \in Nat

CacheOK ==
    /\ DOMAIN cache \subseteq Keys
    /\ cache \in [DOMAIN cache -> Document]
    /\ CacheNotBehind

ProcsOK ==
    /\ proc \in [Shells -> ProcState]
    /\ \A s \in Shells : GoodProc(proc[s], everApproved, disk.source)

ShellsOK ==
    /\ shell \in [Shells -> Script]
    /\ again \subseteq Shells
    /\ \A s \in Shells : GoodShell(shell[s], everApproved, s \in again)

IInv == WorldOK /\ CacheOK /\ ProcsOK /\ ShellsOK

-----------------------------------------------------------------------------
(* Types that several steps build.                                         *)

LEMMA IdleIsGood ==
  ASSUME NEW ok, NEW src
  PROVE  GoodProc(Idle, ok, src)
  BY BoundsAreNat DEF GoodProc, Idle, NotRead, ProcState, Sources

(* A fresh Prepare knows nothing but the marker it was started with.       *)
LEMMA StartedIsGood ==
  ASSUME NEW ok, NEW src, NEW attempt \in {"first", "load"}, NEW first \in Keys \cup {None},
         first # None => first[3] <= src
  PROVE  GoodProc([Idle EXCEPT !.pc = "config", !.attempt = attempt, !.first = first],
                  ok, src)
<1> DEFINE p == [Idle EXCEPT !.pc = "config", !.attempt = attempt, !.first = first]
<1>1. Idle \in ProcState
  BY IdleIsGood DEF GoodProc
<1>2. /\ p \in ProcState
      /\ p.pc = "config" /\ p.attempt = attempt /\ p.first = first
  BY <1>1 DEF ProcState
<1> HIDE DEF p
<1>3. GoodProc(p, ok, src)
  BY <1>2 DEF GoodProc
<1> QED
  BY <1>3 DEF p

LEMMA NoScriptIsGood ==
  ASSUME NEW ok, NEW third
  PROVE  GoodShell(NoScript, ok, third)
  BY DEF GoodShell, NoScript, Script

LEMMA KeyTyped ==
  ASSUME NEW c \in Configs, NEW m \in Manifests, NEW v \in Sources
  PROVE  /\ <<c, m, v>> \in Keys
         /\ <<c, m, v>> # None
         /\ <<c, m, v>>[3] = v
  BY NoneIsFresh DEF Keys

LEMMA DocumentTyped ==
  ASSUME NEW v \in Sources
  PROVE  [src |-> v, names |-> Holds[v]] \in Document
  BY DEF Document

(* More approvals and a later source spoil nothing.                        *)
LEMMA Later ==
  ASSUME NEW ok, NEW more, ok \subseteq more,
         NEW old \in Sources, NEW new \in Sources, old <= new
  PROVE  /\ \A p : GoodProc(p, ok, old) => GoodProc(p, more, new)
         /\ \A v, third : GoodShell(v, ok, third) => GoodShell(v, more, third)
<1>1. ASSUME NEW p, GoodProc(p, ok, old)
      PROVE  GoodProc(p, more, new)
  <2>1. /\ p.read.src \in Nat /\ old \in Nat /\ new \in Nat
        /\ p.first # None => p.first[3] \in Nat
    BY <1>1, BoundsAreNat DEF GoodProc, ProcState, Sources, Keys
  <2>2. p.first # None => p.first[3] <= new
    BY <1>1, <2>1 DEF GoodProc
  <2>3. p.pc \in {"get", "decrypt", "put"} => p.read.src <= new
    BY <1>1, <2>1 DEF GoodProc
  <2> QED
    BY <1>1, <2>2, <2>3 DEF GoodProc, GoodLoad
<1>2. ASSUME NEW v, NEW third, GoodShell(v, ok, third)
      PROVE  GoodShell(v, more, third)
  BY <1>2 DEF GoodShell, GoodLoad
<1> QED
  BY <1>1, <1>2

LEMMA InvInit == Init => IInv
<1> SUFFICES ASSUME Init PROVE IInv
  OBVIOUS
<1>1. WorldOK
  <2>1. 0 \in Sources
    BY BoundsAreNat DEF Sources
  <2>2. disk \in [config : Configs, manifest : Manifests, source : Sources,
                  intact : BOOLEAN]
    BY <2>1 DEF Init
  <2> QED
    BY <2>2 DEF Init, WorldOK
<1>2. CacheOK
  BY DEF Init, CacheOK, CacheNotBehind
<1>3. ProcsOK
  <2>1. proc = [s \in Shells |-> Idle]
    BY DEF Init
  <2>2. Idle \in ProcState
    BY IdleIsGood DEF GoodProc
  <2> QED
    BY <2>1, <2>2, IdleIsGood DEF ProcsOK
<1>4. ShellsOK
  <2>1. shell = [s \in Shells |-> NoScript] /\ again = {}
    BY DEF Init
  <2>2. NoScript \in Script
    BY DEF NoScript, Script
  <2> QED
    BY <2>1, <2>2, NoScriptIsGood DEF ShellsOK
<1> QED
  BY <1>1, <1>2, <1>3, <1>4 DEF IInv

-----------------------------------------------------------------------------
(* What the files, the user and other processes do.                        *)

(* When only the world moves, and forward.                                 *)
LEMMA WorldMoves ==
  ASSUME IInv, WorldOK', UNCHANGED <<proc, shell, again>>,
         everApproved \subseteq everApproved', disk.source <= disk.source'
  PROVE  ProcsOK' /\ ShellsOK'
<1>1. disk.source \in Sources /\ disk.source' \in Sources
  BY DEF IInv, WorldOK
<1>2. /\ \A p : GoodProc(p, everApproved, disk.source) =>
                  GoodProc(p, everApproved', disk.source')
      /\ \A v, third : GoodShell(v, everApproved, third) => GoodShell(v, everApproved', third)
  BY <1>1, Later
<1> QED
  BY <1>2 DEF IInv, ProcsOK, ShellsOK

LEMMA SourceIsNat ==
  ASSUME IInv
  PROVE  disk.source \in Sources /\ disk.source \in Nat /\ disk.source <= disk.source
  BY BoundsAreNat DEF IInv, WorldOK, Sources

LEMMA EditFilesKeeps == IInv /\ EditFiles => IInv'
<1> SUFFICES ASSUME IInv, EditFiles PROVE IInv'
  OBVIOUS
<1>1. /\ disk' \in [config : Configs, manifest : Manifests, source : Sources,
                 intact : BOOLEAN]
      /\ disk.source <= disk'.source
  <2>1. CASE \E c \in Configs : disk' = [disk EXCEPT !.config = c]
    BY <2>1, SourceIsNat DEF IInv, WorldOK
  <2>2. CASE \E m \in Manifests : disk' = [disk EXCEPT !.manifest = m]
    BY <2>2, SourceIsNat DEF IInv, WorldOK
  <2>3. CASE disk.source < MaxSource /\ disk' = [disk EXCEPT !.source = @ + 1]
    <3>1. disk.source + 1 \in Sources /\ disk.source <= disk.source + 1
      BY <2>3, SourceIsNat, BoundsAreNat DEF Sources
    <3> QED
      BY <2>3, <3>1 DEF IInv, WorldOK
  <2>4. CASE disk' = [disk EXCEPT !.intact = ~@]
    BY <2>4, SourceIsNat DEF IInv, WorldOK
  <2> QED
    BY <2>1, <2>2, <2>3, <2>4 DEF EditFiles
<1>3. WorldOK' /\ CacheOK'
  BY <1>1 DEF IInv, WorldOK, CacheOK, CacheNotBehind, EditFiles
<1> QED
  BY <1>1, <1>3, WorldMoves DEF IInv, EditFiles

LEMMA AllowKeeps == IInv /\ Allow => IInv'
<1> SUFFICES ASSUME IInv, Allow PROVE IInv'
  OBVIOUS
<1>1. WorldOK' /\ CacheOK'
  BY DEF IInv, WorldOK, CacheOK, CacheNotBehind, Allow, Policies
<1>2. disk.source \in Nat
  BY BoundsAreNat DEF IInv, WorldOK, Sources
<1>3. everApproved \subseteq everApproved' /\ disk.source <= disk.source'
  BY <1>2 DEF Allow
<1> QED
  BY <1>1, <1>3, WorldMoves DEF IInv, Allow

LEMMA SettingsKeep == IInv /\ DamageOrRepairSettings => IInv'
<1> SUFFICES ASSUME IInv, DamageOrRepairSettings PROVE IInv'
  OBVIOUS
<1>1. WorldOK' /\ CacheOK'
  BY DEF IInv, WorldOK, CacheOK, CacheNotBehind, DamageOrRepairSettings
<1> QED
  BY <1>1, SourceIsNat, WorldMoves DEF IInv, DamageOrRepairSettings

LEMMA BundleKeeps == IInv /\ ChangeBundle => IInv'
<1> SUFFICES ASSUME IInv, ChangeBundle PROVE IInv'
  OBVIOUS
<1>1. WorldOK' /\ CacheOK'
  BY DEF IInv, WorldOK, CacheOK, CacheNotBehind, ChangeBundle
<1> QED
  BY <1>1, SourceIsNat, WorldMoves DEF IInv, ChangeBundle

LEMMA CdKeeps ==
  ASSUME IInv, NEW s \in Shells, Cd(s)
  PROVE  IInv'
<1>1. WorldOK' /\ CacheOK'
  BY DEF IInv, WorldOK, CacheOK, CacheNotBehind, Cd
<1> QED
  BY <1>1, SourceIsNat, WorldMoves DEF IInv, Cd

LEMMA ForgetKeeps ==
  ASSUME IInv, NEW k \in Keys, Forget(k)
  PROVE  IInv'
<1>1. WorldOK' /\ CacheOK'
  BY DEF IInv, WorldOK, CacheOK, CacheNotBehind, Forget, world
<1> QED
  BY <1>1, SourceIsNat, WorldMoves DEF IInv, Forget, world

(* A put of a document that is not behind its key.                         *)
LEMMA StoreKeeps ==
  ASSUME CacheOK, NEW k \in Keys, NEW doc \in Document, doc.src >= k[3],
         StoreUnder(k, doc)
  PROVE  CacheOK'
  BY DEF CacheOK, CacheNotBehind, StoreUnder

LEMMA OthersPutKeeps ==
  ASSUME IInv, NEW k \in Keys, OthersPut(k)
  PROVE  IInv'
<1>1. PICK v \in k[3]..disk.source : StoreUnder(k, [src |-> v, names |-> Holds[v]])
  BY DEF OthersPut
<1>2. k[3] \in Nat /\ disk.source \in Sources
  BY SourceIsNat, BoundsAreNat DEF Keys, Sources
<1>3. v \in Sources /\ v >= k[3]
  BY <1>1, <1>2, BoundsAreNat DEF Sources
<1>4. CacheOK'
  BY <1>1, <1>3, DocumentTyped, StoreKeeps DEF IInv
<1>5. WorldOK'
  BY DEF IInv, WorldOK, OthersPut, world
<1> QED
  BY <1>4, <1>5, SourceIsNat, WorldMoves DEF IInv, OthersPut, world

-----------------------------------------------------------------------------
(* One activate process.                                                   *)

(* A process that goes on, or ends with nothing printed.                   *)
LEMMA ProcMoves ==
  ASSUME IInv, NEW s \in Shells, NEW p, GoodProc(p, everApproved, disk.source),
         proc' = [proc EXCEPT ![s] = p], UNCHANGED <<disk, everApproved, shell, again>>
  PROVE  ProcsOK' /\ ShellsOK'
<1>1. ProcsOK'
  BY DEF IInv, ProcsOK, GoodProc
<1> QED
  BY <1>1 DEF IInv, ShellsOK

LEMMA EndSilentlyKeeps ==
  ASSUME IInv, NEW s \in Shells, EndSilently(s), UNCHANGED <<disk, everApproved>>
  PROVE  ProcsOK' /\ ShellsOK'
  BY IdleIsGood, ProcMoves DEF EndSilently

(* A process that ends with a script for its shell.                        *)
LEMMA EndWithKeeps ==
  ASSUME IInv, NEW s \in Shells, NEW script, NEW third \in BOOLEAN,
         GoodShell(script, everApproved, third), EndWith(s, script, third),
         UNCHANGED <<disk, everApproved>>
  PROVE  ProcsOK' /\ ShellsOK'
<1>1. ProcsOK'
  BY IdleIsGood DEF IInv, ProcsOK, GoodProc, EndWith
<1>2. shell' \in [Shells -> Script] /\ again' \subseteq Shells
  BY DEF IInv, ShellsOK, GoodShell, EndWith
<1>3. ASSUME NEW q \in Shells
      PROVE  GoodShell(shell'[q], everApproved', q \in again')
  <2>1. CASE q = s
    <3>1. shell'[q] = script /\ (q \in again' <=> third)
      BY <2>1 DEF IInv, ShellsOK, EndWith
    <3> QED
      BY <3>1 DEF GoodShell
  <2>2. CASE q # s
    <3>1. shell'[q] = shell[q] /\ (q \in again' <=> q \in again)
      BY <2>2 DEF IInv, ShellsOK, EndWith
    <3>2. GoodShell(shell[q], everApproved, q \in again)
      BY DEF IInv, ShellsOK
    <3> QED
      BY <3>1, <3>2 DEF GoodShell
  <2> QED
    BY <2>1, <2>2
<1> QED
  BY <1>1, <1>2, <1>3 DEF ShellsOK

LEMMA ClearKeeps ==
  ASSUME IInv, NEW s \in Shells, EndWithClear(s), UNCHANGED <<disk, everApproved>>
  PROVE  ProcsOK' /\ ShellsOK'
  BY NoScriptIsGood, EndWithKeeps DEF EndWithClear

LEMMA StartPrepareKeeps ==
  ASSUME IInv, NEW s \in Shells, NEW attempt \in {"first", "load"},
         NEW first \in Keys \cup {None}, first # None => first[3] <= disk.source,
         StartPrepare(s, attempt, first), UNCHANGED <<disk, everApproved, shell, again>>
  PROVE  ProcsOK' /\ ShellsOK'
  BY StartedIsGood, ProcMoves DEF StartPrepare

LEMMA PrepareFailsKeeps ==
  ASSUME IInv, NEW s \in Shells, PrepareFails(s), UNCHANGED <<disk, everApproved>>
  PROVE  ProcsOK' /\ ShellsOK'
  BY StartPrepareKeeps, ClearKeeps DEF PrepareFails

(* Load has returned: what it loaded is no older than the marker in hand.  *)
LEMMA LoadReturnsKeeps ==
  ASSUME IInv, NEW s \in Shells, NEW loaded, GoodLoad(loaded, everApproved),
         proc[s].first # None => proc[s].first[3] <= loaded.src,
         LoadReturns(s, loaded), UNCHANGED <<disk, everApproved>>
  PROVE  ProcsOK' /\ ShellsOK'
<1>1. loaded \in Loaded /\ loaded # None /\ proc[s].first \in Keys \cup {None}
  BY NoneIsFresh DEF GoodLoad, IInv, ProcsOK, ProcState
<1>2. CASE proc[s].first # None
  <2>1. GoodShell([marker |-> proc[s].first, loaded |-> loaded], everApproved, FALSE)
    BY <1>1, <1>2 DEF GoodShell, Script
  <2> QED
    BY <1>2, <2>1, EndWithKeeps DEF LoadReturns
<1>3. CASE proc[s].first = None
  <2> DEFINE p == [Idle EXCEPT !.pc = "config", !.attempt = "again", !.loaded = loaded]
  <2>1. p \in ProcState /\ p.pc = "config" /\ p.first = None /\ p.loaded = loaded
    <3>1. Idle \in ProcState /\ Idle.first = None
      BY IdleIsGood DEF GoodProc, Idle
    <3> QED
      BY <1>1, <3>1 DEF ProcState
  <2>2. proc' = [proc EXCEPT ![s] = p] /\ UNCHANGED <<shell, again>>
    BY <1>3 DEF LoadReturns
  <2> HIDE DEF p
  <2>3. GoodProc(p, everApproved, disk.source)
    BY <2>1 DEF GoodProc
  <2> QED
    BY <2>2, <2>3, ProcMoves
<1> QED
  BY <1>2, <1>3

LEMMA WorldStays ==
  ASSUME IInv, UNCHANGED <<world, deaths>>
  PROVE  WorldOK'
  BY DEF IInv, WorldOK, world

LEMMA CacheStays ==
  ASSUME IInv, UNCHANGED cache
  PROVE  CacheOK'
  BY DEF IInv, CacheOK, CacheNotBehind

(* What is known of the process at work.                                   *)
LEMMA ProcKnown ==
  ASSUME IInv, NEW s \in Shells
  PROVE  GoodProc(proc[s], everApproved, disk.source) /\ proc[s] \in ProcState
  BY DEF IInv, ProcsOK

LEMMA StartKeeps ==
  ASSUME IInv, NEW s \in Shells, Start(s)
  PROVE  IInv'
<1> DEFINE p == [proc[s] EXCEPT !.pc = "prerun"]
<1>1. /\ p \in ProcState /\ p.pc = "prerun"
      /\ p.first = proc[s].first /\ p.attempt = proc[s].attempt
      /\ p.loaded = proc[s].loaded
  BY ProcKnown DEF ProcState
<1>2. proc' = [proc EXCEPT ![s] = p]
  BY DEF Start, Goto
<1> HIDE DEF p
<1>3. GoodProc(p, everApproved, disk.source)
  BY <1>1, ProcKnown DEF GoodProc
<1> QED
  BY <1>2, <1>3, ProcMoves, WorldStays, CacheStays DEF Start, IInv, world

LEMMA PreRunKeeps ==
  ASSUME IInv, NEW s \in Shells, PreRun(s)
  PROVE  IInv'
<1>1. ProcsOK' /\ ShellsOK'
  BY StartPrepareKeeps, EndSilentlyKeeps DEF PreRun, world
<1> QED
  BY <1>1, WorldStays, CacheStays DEF PreRun, IInv

LEMMA ReadConfigKeeps ==
  ASSUME IInv, NEW s \in Shells, ReadConfig(s)
  PROVE  IInv'
<1>1. CASE Resolves(s)
  <2> DEFINE p == [proc[s] EXCEPT !.pc = "manifest", !.read.config = disk.config]
  <2>1. disk.config \in Configs
    BY DEF IInv, WorldOK
  <2>2. /\ p \in ProcState /\ p.pc = "manifest" /\ p.read.config = disk.config
        /\ p.first = proc[s].first /\ p.attempt = proc[s].attempt
        /\ p.loaded = proc[s].loaded
    BY <2>1, ProcKnown DEF ProcState
  <2>3. proc' = [proc EXCEPT ![s] = p] /\ UNCHANGED <<shell, again>>
    BY <1>1 DEF ReadConfig
  <2> HIDE DEF p
  <2>4. GoodProc(p, everApproved, disk.source)
    BY <2>1, <2>2, ProcKnown DEF GoodProc
  <2> QED
    BY <2>3, <2>4, ProcMoves, WorldStays, CacheStays DEF ReadConfig, IInv, world
<1>2. CASE ~Resolves(s)
  BY <1>2, PrepareFailsKeeps, WorldStays, CacheStays DEF ReadConfig, IInv, world
<1> QED
  BY <1>1, <1>2

LEMMA ReadManifestKeeps ==
  ASSUME IInv, NEW s \in Shells, ReadManifest(s)
  PROVE  IInv'
<1>1. CASE ChecksPass
  <2> DEFINE p == [proc[s] EXCEPT !.pc = "settings", !.read.manifest = disk.manifest]
  <2>1. disk.manifest \in Manifests /\ proc[s].pc = "manifest"
    BY DEF IInv, WorldOK, ReadManifest
  <2>2. /\ p \in ProcState /\ p.pc = "settings" /\ p.read.manifest = disk.manifest
        /\ p.read.config = proc[s].read.config
        /\ p.first = proc[s].first /\ p.attempt = proc[s].attempt
        /\ p.loaded = proc[s].loaded
    BY <2>1, ProcKnown DEF ProcState
  <2>3. proc' = [proc EXCEPT ![s] = p] /\ UNCHANGED <<shell, again>>
    BY <1>1 DEF ReadManifest
  <2> HIDE DEF p
  <2>4. GoodProc(p, everApproved, disk.source)
    BY <2>1, <2>2, ProcKnown DEF GoodProc
  <2> QED
    BY <2>3, <2>4, ProcMoves, WorldStays, CacheStays DEF ReadManifest, IInv, world
<1>2. CASE ~ChecksPass
  BY <1>2, PrepareFailsKeeps, WorldStays, CacheStays DEF ReadManifest, IInv, world
<1> QED
  BY <1>1, <1>2

(* The pair that was read is the one that is approved at this moment.      *)
LEMMA ReadSettingsKeeps ==
  ASSUME IInv, NEW s \in Shells, ReadSettings(s)
  PROVE  IInv'
<1>1. CASE readable /\ IsApproved(PolicyRead(s))
  <2> DEFINE p == [proc[s] EXCEPT !.pc = "hash"]
  <2>1. proc[s].pc = "settings"
    BY DEF ReadSettings
  <2>2. proc[s].read.config \in Configs /\ proc[s].read.manifest \in Manifests
    BY <2>1, ProcKnown DEF GoodProc
  <2>3. PolicyRead(s) \in everApproved
    BY <1>1, <2>2, NoneIsFresh DEF IsApproved, PolicyRead, IInv, WorldOK, Policies
  <2>4. p \in ProcState /\ p.pc = "hash" /\ p.read = proc[s].read
        /\ p.first = proc[s].first /\ p.attempt = proc[s].attempt
        /\ p.loaded = proc[s].loaded
    BY ProcKnown DEF ProcState
  <2>5. proc' = [proc EXCEPT ![s] = p] /\ UNCHANGED <<shell, again>>
    BY <1>1 DEF ReadSettings, Goto
  <2> HIDE DEF p
  <2>6. GoodProc(p, everApproved, disk.source)
    BY <2>2, <2>3, <2>4, ProcKnown DEF GoodProc, PolicyRead
  <2> QED
    BY <2>5, <2>6, ProcMoves, WorldStays, CacheStays DEF ReadSettings, IInv, world
<1>2. CASE ~(readable /\ IsApproved(PolicyRead(s)))
  BY <1>2, PrepareFailsKeeps, WorldStays, CacheStays DEF ReadSettings, IInv, world
<1> QED
  BY <1>1, <1>2

(* The source the last read of Prepare sees is the current one.            *)
LEMMA HashSourceKeeps ==
  ASSUME IInv, NEW s \in Shells, HashSource(s)
  PROVE  IInv'
<1> DEFINE read == [proc[s].read EXCEPT !.src = disk.source]
<1>1. /\ proc[s].pc = "hash"
      /\ GoodProc(proc[s], everApproved, disk.source)
      /\ proc[s] \in ProcState
  BY ProcKnown DEF HashSource
<1>2. /\ read \in [config : Configs \cup {None}, manifest : Manifests \cup {None},
                   src : Sources]
      /\ read.config = proc[s].read.config /\ read.config \in Configs
      /\ read.manifest = proc[s].read.manifest /\ read.manifest \in Manifests
      /\ read.src = disk.source
  BY <1>1, SourceIsNat DEF GoodProc, ProcState
<1>3. /\ MarkerOf(read) \in Keys /\ MarkerOf(read) # None
      /\ MarkerOf(read)[3] = disk.source
  BY <1>2, SourceIsNat, KeyTyped DEF MarkerOf
<1>4. UNCHANGED <<world, cache, deaths>>
  BY DEF HashSource
<1>5. ProcsOK' /\ ShellsOK'
  <2>1. CASE proc[s].attempt = "first"
    <3>1. CASE SameMarker(s, read)
      BY <1>4, <2>1, <3>1, EndSilentlyKeeps DEF HashSource, world
    <3>2. CASE ~SameMarker(s, read)
      <4>1. StartPrepare(s, "load", MarkerOf(read)) /\ UNCHANGED <<shell, again>>
        BY <2>1, <3>2 DEF HashSource
      <4> HIDE DEF read
      <4> QED
        BY <1>3, <1>4, <4>1, SourceIsNat, StartPrepareKeeps DEF world
    <3> QED
      BY <3>1, <3>2
  <2>2. CASE proc[s].attempt = "load"
    <3> DEFINE p == [proc[s] EXCEPT !.pc = IF Caching THEN "get" ELSE "decrypt",
                                    !.read = read]
    <3>1. proc' = [proc EXCEPT ![s] = p] /\ UNCHANGED <<shell, again>>
      BY <2>2 DEF HashSource
    <3> HIDE DEF read
    <3>2. /\ p \in ProcState /\ p.pc \in {"get", "decrypt"} /\ p.read = read
          /\ p.first = proc[s].first /\ p.attempt = "load"
      BY <1>1, <1>2, <2>2 DEF ProcState
    <3> HIDE DEF p
    <3>3. GoodProc(p, everApproved, disk.source)
      BY <1>1, <1>2, <3>2, SourceIsNat DEF GoodProc
    <3> QED
      BY <1>4, <3>1, <3>3, ProcMoves DEF world
  <2>3. CASE proc[s].attempt = "again"
    <3> DEFINE script == [marker |-> MarkerOf(read), loaded |-> proc[s].loaded]
    <3>1. EndWith(s, script, TRUE)
      BY <2>3 DEF HashSource
    <3> HIDE DEF read
    <3>2. GoodLoad(proc[s].loaded, everApproved) /\ proc[s].loaded # None
      BY <1>1, <2>3, NoneIsFresh DEF GoodProc, GoodLoad
    <3>3. GoodShell(script, everApproved, TRUE)
      BY <1>3, <3>2 DEF GoodShell, Script, GoodLoad
    <3> HIDE DEF script
    <3> QED
      BY <1>4, <3>1, <3>3, EndWithKeeps DEF world
  <2> QED
    BY <2>1, <2>2, <2>3 DEF HashSource
<1> QED
  BY <1>4, <1>5, WorldStays, CacheStays DEF IInv

(* What Load returns of a document that holds the declared names.          *)
LEMMA ReceivedIsGood ==
  ASSUME IInv, NEW s \in Shells, proc[s].pc \in {"get", "decrypt"},
         NEW doc \in Document, ValidResponse(doc, proc[s].read.config)
  PROVE  /\ GoodLoad(Received(s, doc), everApproved)
         /\ Received(s, doc).src = doc.src
         /\ Received(s, doc).under = PolicyRead(s)
<1>1. PolicyRead(s) \in everApproved /\ everApproved \subseteq Policies
  BY ProcKnown DEF GoodProc, PolicyRead, IInv, WorldOK
<1>2. PolicyRead(s)[1] = proc[s].read.config
  BY DEF PolicyRead
<1> HIDE DEF PolicyRead
<1> QED
  BY <1>1, <1>2 DEF GoodLoad, Received, Loaded, Document, ValidResponse

(* A cached document is no older than the source this process hashed, and  *)
(* that source no older than the one its marker names.                     *)
LEMMA GetKeeps ==
  ASSUME IInv, NEW s \in Shells, Get(s)
  PROVE  IInv'
<1> DEFINE key == KeyOf(proc[s].read)
<1>1. /\ proc[s].pc = "get" /\ UNCHANGED <<world, cache, deaths>>
      /\ GoodProc(proc[s], everApproved, disk.source)
      /\ proc[s] \in ProcState
  BY ProcKnown DEF Get
<1>2. CASE key \in DOMAIN cache /\ ValidResponse(cache[key], proc[s].read.config)
  <2>1. key[3] = proc[s].read.src /\ cache[key] \in Document /\ cache[key].src >= key[3]
    BY <1>2 DEF KeyOf, IInv, CacheOK, CacheNotBehind
  <2>2. LoadReturns(s, Received(s, cache[key]))
    BY <1>2 DEF Get
  <2> HIDE DEF key
  <2>3. /\ GoodLoad(Received(s, cache[key]), everApproved)
        /\ Received(s, cache[key]).src = cache[key].src
    BY <1>1, <1>2, <2>1, ReceivedIsGood
  <2>4. /\ proc[s].read.src \in Nat /\ cache[key].src \in Nat
        /\ proc[s].first # None => proc[s].first[3] \in Nat
    BY <1>1, <2>1, BoundsAreNat DEF ProcState, Document, Sources, Keys
  <2>5. proc[s].first # None => proc[s].first[3] <= proc[s].read.src
    BY <1>1 DEF GoodProc
  <2>6. proc[s].first # None => proc[s].first[3] <= Received(s, cache[key]).src
    BY <2>1, <2>3, <2>4, <2>5
  <2>7. ProcsOK' /\ ShellsOK'
    BY <1>1, <2>2, <2>3, <2>6, LoadReturnsKeeps DEF world
  <2> QED
    BY <1>1, <2>7, WorldStays, CacheStays DEF IInv
<1>3. CASE ~(key \in DOMAIN cache /\ ValidResponse(cache[key], proc[s].read.config))
  <2> DEFINE p == [proc[s] EXCEPT !.pc = "decrypt"]
  <2>1. proc' = [proc EXCEPT ![s] = p] /\ UNCHANGED <<shell, again>>
    BY <1>3 DEF Get, Goto
  <2>2. /\ p \in ProcState /\ p.pc = "decrypt" /\ p.read = proc[s].read
        /\ p.first = proc[s].first /\ p.attempt = proc[s].attempt
    BY <1>1 DEF ProcState
  <2> HIDE DEF p
  <2>3. GoodProc(p, everApproved, disk.source)
    BY <1>1, <2>2 DEF GoodProc
  <2> QED
    BY <1>1, <2>1, <2>3, ProcMoves, WorldStays, CacheStays DEF IInv, world
<1> QED
  BY <1>2, <1>3

(* The provider reads the source later still.                              *)
LEMMA DecryptKeeps ==
  ASSUME IInv, NEW s \in Shells, Decrypt(s)
  PROVE  IInv'
<1> DEFINE doc == [src |-> disk.source, names |-> Holds[disk.source]]
<1>1. /\ proc[s].pc = "decrypt" /\ UNCHANGED <<world, cache, deaths>>
      /\ GoodProc(proc[s], everApproved, disk.source)
      /\ proc[s] \in ProcState
  BY ProcKnown DEF Decrypt
<1>2. doc \in Document /\ doc.src = disk.source
  BY SourceIsNat, DocumentTyped
<1>3. CASE ~ValidResponse(doc, proc[s].read.config)
  BY <1>1, <1>3, ClearKeeps, WorldStays, CacheStays DEF Decrypt, IInv, world
<1>4. CASE ValidResponse(doc, proc[s].read.config)
  <2>1. \/ /\ proc' = [proc EXCEPT ![s].pc = "put", ![s].loaded = Received(s, doc)]
           /\ UNCHANGED <<shell, again>>
        \/ LoadReturns(s, Received(s, doc))
    BY <1>4 DEF Decrypt
  <2> HIDE DEF doc
  <2>2. /\ GoodLoad(Received(s, doc), everApproved)
        /\ Received(s, doc).src = disk.source
        /\ Received(s, doc).under = PolicyRead(s)
    BY <1>1, <1>2, <1>4, ReceivedIsGood
  <2>3. proc[s].read.src <= disk.source
    BY <1>1 DEF GoodProc
  <2>4. proc[s].first # None => proc[s].first[3] <= disk.source
    BY <1>1 DEF GoodProc
  <2>5. ProcsOK' /\ ShellsOK'
    <3>1. CASE LoadReturns(s, Received(s, doc))
      BY <1>1, <2>2, <2>4, <3>1, LoadReturnsKeeps DEF world
    <3>2. CASE /\ proc' = [proc EXCEPT ![s].pc = "put", ![s].loaded = Received(s, doc)]
               /\ UNCHANGED <<shell, again>>
      <4> DEFINE p == [proc[s] EXCEPT !.pc = "put", !.loaded = Received(s, doc)]
      <4>1. proc' = [proc EXCEPT ![s] = p]
        BY <3>2
      <4>2. /\ p \in ProcState /\ p.pc = "put" /\ p.read = proc[s].read
            /\ p.first = proc[s].first /\ p.attempt = proc[s].attempt
            /\ p.loaded = Received(s, doc)
        BY <1>1, <2>2 DEF ProcState, GoodLoad
      <4> HIDE DEF p
      <4>3. GoodProc(p, everApproved, disk.source)
        BY <1>1, <2>2, <2>3, <4>2 DEF GoodProc, PolicyRead
      <4> QED
        BY <1>1, <3>2, <4>1, <4>3, ProcMoves DEF world
    <3> QED
      BY <2>1, <3>1, <3>2
  <2> QED
    BY <1>1, <2>5, WorldStays, CacheStays DEF IInv
<1> QED
  BY <1>3, <1>4

LEMMA PutKeeps ==
  ASSUME IInv, NEW s \in Shells, Put(s)
  PROVE  IInv'
<1> DEFINE key == KeyOf(proc[s].read)
           loaded == proc[s].loaded
           doc == [src |-> loaded.src, names |-> loaded.names]
<1>1. /\ proc[s].pc = "put" /\ UNCHANGED <<world, deaths>>
      /\ GoodProc(proc[s], everApproved, disk.source)
      /\ proc[s] \in ProcState
  BY ProcKnown DEF Put
<1>2. StoreUnder(key, doc) /\ LoadReturns(s, loaded)
  BY DEF Put
<1>3. /\ key \in Keys /\ key[3] = proc[s].read.src
  BY <1>1 DEF GoodProc, ProcState, KeyOf, Keys
<1>4. GoodLoad(loaded, everApproved) /\ proc[s].read.src <= loaded.src
  BY <1>1 DEF GoodProc
<1>5. doc \in Document /\ doc.src = loaded.src
  BY <1>4 DEF GoodLoad, Loaded, Document
<1>6. /\ proc[s].read.src \in Nat /\ loaded.src \in Nat
      /\ proc[s].first # None => proc[s].first[3] \in Nat
  BY <1>1, <1>4, BoundsAreNat DEF ProcState, GoodLoad, Loaded, Sources, Keys
<1>7. proc[s].first # None => proc[s].first[3] <= proc[s].read.src
  BY <1>1 DEF GoodProc
<1>8. proc[s].first # None => proc[s].first[3] <= loaded.src
  BY <1>4, <1>6, <1>7
<1>9. CacheOK'
  <2> HIDE DEF key, doc, loaded
  <2> QED
    BY <1>2, <1>3, <1>4, <1>5, <1>6, StoreKeeps DEF IInv
<1> HIDE DEF loaded
<1>10. ProcsOK' /\ ShellsOK'
  BY <1>1, <1>2, <1>4, <1>8, LoadReturnsKeeps DEF world
<1> QED
  BY <1>1, <1>9, <1>10, WorldStays DEF IInv

LEMMA DeathsStay ==
  ASSUME IInv, UNCHANGED world, deaths' = deaths \/ deaths' = deaths + 1
  PROVE  WorldOK'
  BY DEF IInv, WorldOK, world

LEMMA RunFailsKeeps ==
  ASSUME IInv, NEW s \in Shells, RunFails(s)
  PROVE  IInv'
<1>1. ProcsOK' /\ ShellsOK'
  BY ClearKeeps DEF RunFails, world
<1> QED
  BY <1>1, DeathsStay, CacheStays DEF RunFails, IInv

LEMMA DiesKeeps ==
  ASSUME IInv, NEW s \in Shells, Dies(s)
  PROVE  IInv'
<1>1. ProcsOK' /\ ShellsOK'
  BY EndSilentlyKeeps DEF Dies, world
<1> QED
  BY <1>1, DeathsStay, CacheStays DEF Dies, IInv

-----------------------------------------------------------------------------
(* The theorems.                                                           *)

LEMMA InvNext == IInv /\ [Next]_vars => IInv'
<1> SUFFICES ASSUME IInv, [Next]_vars PROVE IInv'
  OBVIOUS
<1>1. CASE EditFiles
  BY <1>1, EditFilesKeeps
<1>2. CASE Allow
  BY <1>2, AllowKeeps
<1>3. CASE DamageOrRepairSettings
  BY <1>3, SettingsKeep
<1>4. CASE \E k \in Keys : Forget(k) \/ OthersPut(k)
  BY <1>4, ForgetKeeps, OthersPutKeeps
<1>5. ASSUME NEW s \in Shells, Cd(s) \/ Start(s) \/ Step(s) \/ RunFails(s) \/ Dies(s)
      PROVE  IInv'
  BY <1>5, CdKeeps, StartKeeps, PreRunKeeps, ReadConfigKeeps, ReadManifestKeeps,
     ReadSettingsKeeps, HashSourceKeeps, GetKeeps, DecryptKeeps, PutKeeps,
     RunFailsKeeps, DiesKeeps DEF Step
<1>6. CASE UNCHANGED vars
  <2>1. WorldOK' /\ CacheOK'
    BY <1>6 DEF IInv, WorldOK, CacheOK, CacheNotBehind, vars
  <2> QED
    BY <1>6, <2>1, SourceIsNat, WorldMoves DEF IInv, vars
<1>7. CASE ChangeBundle
  BY <1>7, BundleKeeps
<1> QED
  BY <1>1, <1>2, <1>3, <1>4, <1>5, <1>6, <1>7 DEF Next

LEMMA Invariant == Spec => []IInv
  BY InvInit, InvNext, PTL DEF Spec

(* Every state variable of an activation keeps its type.                   *)
THEOREM ActivationTyped == Spec => []TypeOK
<1>1. IInv => TypeOK
  <2> SUFFICES ASSUME IInv PROVE TypeOK
    OBVIOUS
  <2>1. approved \in Policies \cup {None}
    BY DEF IInv, WorldOK
  <2> QED
    BY <2>1 DEF TypeOK, IInv, WorldOK, CacheOK, ProcsOK, ShellsOK, ProcState, Script
<1> QED
  BY <1>1, Invariant, PTL

(* Whatever was edited between its reads, activate hands a shell only      *)
(* variables of a configuration and a manifest that allow recorded as a    *)
(* pair, under exactly the names that configuration declares.              *)
THEOREM LoadsOnlyApproved == Spec => []OnlyApproved
<1>1. IInv => OnlyApproved
  BY DEF IInv, ShellsOK, GoodShell, GoodLoad, OnlyApproved
<1> QED
  BY <1>1, Invariant, PTL

(* Load puts what the provider read after the source was hashed for the    *)
(* key, so that no cached document is older than its key.                  *)
THEOREM CacheStaysAhead == Spec => []CacheNotBehind
<1>1. IInv => CacheNotBehind
  BY DEF IInv, CacheOK
<1> QED
  BY <1>1, Invariant, PTL

(* A marker of activate's first Prepare names a source no newer than the   *)
(* one whose variables the shell got with it: the next prompt that finds   *)
(* the marker unchanged has nothing newer to load.                         *)
THEOREM MarkerStaysBehind == Spec => []MarkerNotAheadUnlessAgain
<1>1. IInv => MarkerNotAheadUnlessAgain
  <2> SUFFICES ASSUME IInv, NEW s \in Shells \ again, shell[s].marker # None
               PROVE  shell[s].loaded.src >= shell[s].marker[3]
    BY DEF MarkerNotAheadUnlessAgain
  <2>1. /\ GoodShell(shell[s], everApproved, s \in again)
        /\ ~(s \in again)
    BY DEF IInv, ShellsOK
  <2>2. /\ shell[s].marker[3] <= shell[s].loaded.src
        /\ shell[s].marker \in Keys /\ shell[s].loaded \in Loaded
    BY <2>1 DEF GoodShell, GoodLoad, Script
  <2>3. shell[s].marker[3] \in Nat /\ shell[s].loaded.src \in Nat
    BY <2>2, BoundsAreNat DEF Keys, Loaded, Sources
  <2> QED
    BY <2>2, <2>3
<1> QED
  BY <1>1, Invariant, PTL

(* However an activation ends, its shell has both a marker and variables   *)
(* or neither.                                                             *)
THEOREM BothOrNeither == Spec => []MarkerWithVariables
<1>1. IInv => MarkerWithVariables
  BY DEF IInv, ShellsOK, GoodShell, MarkerWithVariables
<1> QED
  BY <1>1, Invariant, PTL

-----------------------------------------------------------------------------
(* No shell is taken back.  Everything that was ever loaded is no newer    *)
(* than the source; what a shell already has is no newer than the source   *)
(* its process has hashed since, nor than what that process has loaded.    *)

Behind(v, src) == v.loaded # None => v.loaded.src <= src

ForwardProc(p, v, src) ==
    /\ p.pc \in {"get", "decrypt", "put"} => Behind(v, p.read.src)
    /\ p.pc = "put" => p.loaded.src <= src
    /\ p.attempt = "again" => p.loaded.src <= src /\ Behind(v, p.loaded.src)

CacheForward == \A k \in DOMAIN cache : cache[k].src <= disk.source

ShellsForward ==
    \A s \in Shells :
        /\ Behind(shell[s], disk.source)
        /\ ForwardProc(proc[s], shell[s], disk.source)

Forward == CacheForward /\ ShellsForward

NotBack ==
    \A s \in Shells :
        shell[s].loaded # None /\ shell'[s].loaded # None
        => shell'[s].loaded.src >= shell[s].loaded.src

(* The versions that are compared are numbers.                             *)
LEMMA VersionsAreNat ==
  ASSUME IInv, NEW s \in Shells
  PROVE  /\ shell[s].loaded # None => shell[s].loaded.src \in Nat
         /\ proc[s].read.src \in Nat
         /\ proc[s].pc = "put" \/ proc[s].attempt = "again" =>
              proc[s].loaded.src \in Nat
         /\ disk.source \in Nat
<1>1. /\ GoodProc(proc[s], everApproved, disk.source) /\ proc[s] \in ProcState
      /\ shell[s] \in Script
  BY DEF IInv, ProcsOK, ShellsOK
<1>2. Sources \subseteq Nat
  BY BoundsAreNat DEF Sources
<1> QED
  BY <1>1, <1>2, SourceIsNat DEF GoodProc, GoodLoad, ProcState, Script, Loaded

LEMMA CachedIsNat ==
  ASSUME IInv, NEW k \in DOMAIN cache
  PROVE  cache[k].src \in Nat
  BY BoundsAreNat DEF IInv, CacheOK, Document, Sources

LEMMA ForwardInit == Init => Forward
<1> SUFFICES ASSUME Init PROVE Forward
  OBVIOUS
<1>1. CacheForward
  BY DEF Init, CacheForward
<1>2. ShellsForward
  <2>1. proc = [s \in Shells |-> Idle] /\ shell = [s \in Shells |-> NoScript]
    BY DEF Init
  <2> QED
    BY <2>1 DEF ShellsForward, Behind, ForwardProc, Idle, NoScript
<1> QED
  BY <1>1, <1>2 DEF Forward

(* No shell receives anything, and the source does not go back.            *)
LEMMA WorldStaysForward ==
  ASSUME IInv, IInv', Forward, UNCHANGED <<proc, shell>>, disk.source <= disk.source',
         CacheForward'
  PROVE  Forward' /\ NotBack
<1>1. ASSUME NEW s \in Shells
      PROVE  /\ Behind(shell[s], disk.source')
             /\ ForwardProc(proc[s], shell[s], disk.source')
  <2>1. Behind(shell[s], disk.source) /\ ForwardProc(proc[s], shell[s], disk.source)
    BY DEF Forward, ShellsForward
  <2>2. disk.source' \in Nat
    BY SourceIsNat DEF IInv, WorldOK, Sources
  <2> QED
    BY <2>1, <2>2, VersionsAreNat DEF Behind, ForwardProc
<1>2. NotBack
  BY VersionsAreNat DEF NotBack
<1> QED
  BY <1>1, <1>2 DEF Forward, ShellsForward

(* A process goes on, and its shell receives nothing.                      *)
LEMMA ProcStaysForward ==
  ASSUME IInv, Forward, NEW s \in Shells, NEW p,
         ForwardProc(p, shell[s], disk.source),
         proc' = [proc EXCEPT ![s] = p], UNCHANGED <<disk, shell>>
  PROVE  ShellsForward' /\ NotBack
<1>1. ShellsForward'
  BY DEF Forward, ShellsForward, IInv, ProcsOK
<1>2. NotBack
  BY VersionsAreNat DEF NotBack
<1> QED
  BY <1>1, <1>2

LEMMA IdleIsForward ==
  ASSUME NEW v, NEW src
  PROVE  ForwardProc(Idle, v, src)
  BY DEF ForwardProc, Idle

LEMMA SilentIsForward ==
  ASSUME IInv, Forward, NEW s \in Shells, EndSilently(s), UNCHANGED disk
  PROVE  ShellsForward' /\ NotBack
  BY IdleIsForward, ProcStaysForward DEF EndSilently

(* The shell receives something no older than what it has.                 *)
LEMMA EndWithIsForward ==
  ASSUME IInv, Forward, NEW s \in Shells, NEW script, NEW third \in BOOLEAN,
         EndWith(s, script, third), UNCHANGED disk,
         script.loaded # None =>
           /\ script.loaded.src \in Nat
           /\ script.loaded.src <= disk.source
           /\ Behind(shell[s], script.loaded.src)
  PROVE  ShellsForward' /\ NotBack
<1>1. /\ proc'[s] = Idle /\ shell'[s] = script
      /\ \A q \in Shells \ {s} : proc'[q] = proc[q] /\ shell'[q] = shell[q]
  BY DEF EndWith, IInv, ProcsOK, ShellsOK
<1>2. ShellsForward'
  BY <1>1, IdleIsForward DEF ShellsForward, Forward, Behind
<1>3. NotBack
  <2> SUFFICES ASSUME NEW q \in Shells, shell[q].loaded # None, shell'[q].loaded # None
               PROVE  shell'[q].loaded.src >= shell[q].loaded.src
    BY DEF NotBack
  <2>1. CASE q = s
    BY <1>1, <2>1, VersionsAreNat DEF Behind
  <2>2. CASE q # s
    BY <1>1, <2>2, VersionsAreNat
  <2> QED
    BY <2>1, <2>2
<1> QED
  BY <1>2, <1>3

LEMMA ClearIsForward ==
  ASSUME IInv, Forward, NEW s \in Shells, EndWithClear(s), UNCHANGED disk
  PROVE  ShellsForward' /\ NotBack
<1>1. NoScript.loaded = None
  BY DEF NoScript
<1> QED
  BY <1>1, EndWithIsForward DEF EndWithClear

LEMMA StartPrepareIsForward ==
  ASSUME IInv, Forward, NEW s \in Shells, NEW attempt \in {"first", "load"}, NEW first,
         StartPrepare(s, attempt, first), UNCHANGED <<disk, shell>>
  PROVE  ShellsForward' /\ NotBack
<1> DEFINE p == [Idle EXCEPT !.pc = "config", !.attempt = attempt, !.first = first]
<1>1. p.pc = "config" /\ p.attempt = attempt
  BY DEF Idle
<1>2. proc' = [proc EXCEPT ![s] = p]
  BY DEF StartPrepare
<1> HIDE DEF p
<1>3. ForwardProc(p, shell[s], disk.source)
  BY <1>1 DEF ForwardProc
<1> QED
  BY <1>2, <1>3, ProcStaysForward

LEMMA PrepareFailsIsForward ==
  ASSUME IInv, Forward, NEW s \in Shells, PrepareFails(s), UNCHANGED disk
  PROVE  ShellsForward' /\ NotBack
  BY StartPrepareIsForward, ClearIsForward DEF PrepareFails

LEMMA LoadReturnsIsForward ==
  ASSUME IInv, Forward, NEW s \in Shells, NEW loaded, loaded.src \in Nat,
         loaded.src <= disk.source, Behind(shell[s], loaded.src),
         LoadReturns(s, loaded), UNCHANGED disk
  PROVE  ShellsForward' /\ NotBack
<1>1. CASE proc[s].first # None
  BY <1>1, EndWithIsForward DEF LoadReturns
<1>2. CASE proc[s].first = None
  <2> DEFINE p == [Idle EXCEPT !.pc = "config", !.attempt = "again", !.loaded = loaded]
  <2>1. p.pc = "config" /\ p.loaded = loaded
    BY DEF Idle
  <2>2. proc' = [proc EXCEPT ![s] = p] /\ UNCHANGED shell
    BY <1>2 DEF LoadReturns
  <2> HIDE DEF p
  <2>3. ForwardProc(p, shell[s], disk.source)
    BY <2>1 DEF ForwardProc
  <2> QED
    BY <2>2, <2>3, ProcStaysForward
<1> QED
  BY <1>1, <1>2

(* A process that has not hashed the source in this Prepare moves on.      *)
LEMMA ReadingIsForward ==
  ASSUME IInv, Forward, NEW s \in Shells, NEW p, proc' = [proc EXCEPT ![s] = p],
         p.pc \notin {"get", "decrypt", "put"},
         p.attempt = proc[s].attempt, p.loaded = proc[s].loaded,
         UNCHANGED <<disk, shell>>
  PROVE  ShellsForward' /\ NotBack
<1>1. ForwardProc(p, shell[s], disk.source)
  BY DEF Forward, ShellsForward, ForwardProc
<1> QED
  BY <1>1, ProcStaysForward

LEMMA ReadsAreForward ==
  ASSUME IInv, Forward, NEW s \in Shells,
         \/ Start(s) \/ PreRun(s) \/ ReadConfig(s) \/ ReadManifest(s) \/ ReadSettings(s)
  PROVE  ShellsForward' /\ NotBack
<1>1. proc[s] \in ProcState
  BY ProcKnown
<1>2. CASE Start(s)
  BY <1>1, <1>2, ReadingIsForward DEF Start, Goto, world, ProcState
<1>3. CASE PreRun(s)
  BY <1>3, StartPrepareIsForward, SilentIsForward DEF PreRun, world
<1>4. CASE ReadConfig(s)
  <2>1. CASE Resolves(s)
    <3> DEFINE p == [proc[s] EXCEPT !.pc = "manifest", !.read.config = disk.config]
    <3>1. p.pc = "manifest" /\ p.attempt = proc[s].attempt /\ p.loaded = proc[s].loaded
      BY <1>1 DEF ProcState
    <3>2. proc' = [proc EXCEPT ![s] = p] /\ UNCHANGED <<disk, shell>>
      BY <1>4, <2>1 DEF ReadConfig, world
    <3> HIDE DEF p
    <3> QED
      BY <3>1, <3>2, ReadingIsForward
  <2> QED
    BY <1>4, <2>1, PrepareFailsIsForward DEF ReadConfig, world
<1>5. CASE ReadManifest(s)
  <2>1. CASE ChecksPass
    <3> DEFINE p == [proc[s] EXCEPT !.pc = "settings", !.read.manifest = disk.manifest]
    <3>1. p.pc = "settings" /\ p.attempt = proc[s].attempt /\ p.loaded = proc[s].loaded
      BY <1>1 DEF ProcState
    <3>2. proc' = [proc EXCEPT ![s] = p] /\ UNCHANGED <<disk, shell>>
      BY <1>5, <2>1 DEF ReadManifest, world
    <3> HIDE DEF p
    <3> QED
      BY <3>1, <3>2, ReadingIsForward
  <2> QED
    BY <1>5, <2>1, PrepareFailsIsForward DEF ReadManifest, world
<1>6. CASE ReadSettings(s)
  <2>1. CASE readable /\ IsApproved(PolicyRead(s))
    BY <1>1, <1>6, <2>1, ReadingIsForward DEF ReadSettings, Goto, world, ProcState
  <2> QED
    BY <1>6, <2>1, PrepareFailsIsForward DEF ReadSettings, world
<1> QED
  BY <1>2, <1>3, <1>4, <1>5, <1>6

(* Hashing ties the process to a source no older than what its shell has.  *)
LEMMA HashIsForward ==
  ASSUME IInv, Forward, NEW s \in Shells, HashSource(s)
  PROVE  ShellsForward' /\ NotBack
<1> DEFINE read == [proc[s].read EXCEPT !.src = disk.source]
<1>1. proc[s] \in ProcState /\ UNCHANGED disk /\ read.src = disk.source
  BY ProcKnown DEF HashSource, world, ProcState
<1>2. /\ Behind(shell[s], disk.source)
      /\ ForwardProc(proc[s], shell[s], disk.source)
  BY DEF Forward, ShellsForward
<1>3. CASE proc[s].attempt = "first"
  BY <1>1, <1>3, StartPrepareIsForward, SilentIsForward DEF HashSource
<1>4. CASE proc[s].attempt = "load"
  <2> DEFINE p == [proc[s] EXCEPT !.pc = IF Caching THEN "get" ELSE "decrypt",
                                  !.read = read]
  <2>1. proc' = [proc EXCEPT ![s] = p] /\ UNCHANGED shell
    BY <1>4 DEF HashSource
  <2> HIDE DEF read
  <2>2. p.pc # "put" /\ p.read = read /\ p.attempt = "load"
    BY <1>1, <1>4 DEF ProcState
  <2> HIDE DEF p
  <2>3. ForwardProc(p, shell[s], disk.source)
    BY <1>1, <1>2, <2>2 DEF ForwardProc
  <2> QED
    BY <1>1, <2>1, <2>3, ProcStaysForward
<1>5. CASE proc[s].attempt = "again"
  <2> DEFINE script == [marker |-> MarkerOf(read), loaded |-> proc[s].loaded]
  <2>1. EndWith(s, script, TRUE)
    BY <1>5 DEF HashSource, ProcState
  <2>2. script.loaded = proc[s].loaded
    OBVIOUS
  <2> HIDE DEF script
  <2>3. /\ proc[s].loaded.src \in Nat /\ proc[s].loaded.src <= disk.source
        /\ Behind(shell[s], proc[s].loaded.src)
    BY <1>2, <1>5, VersionsAreNat DEF ForwardProc
  <2> QED
    BY <1>1, <2>1, <2>2, <2>3, EndWithIsForward
<1> QED
  BY <1>3, <1>4, <1>5 DEF HashSource

(* A cached document lies between the source that was hashed and today's.  *)
LEMMA GetIsForward ==
  ASSUME IInv, Forward, NEW s \in Shells, Get(s)
  PROVE  ShellsForward' /\ NotBack
<1> DEFINE key == KeyOf(proc[s].read)
<1>1. proc[s] \in ProcState /\ proc[s].pc = "get" /\ UNCHANGED disk
  BY ProcKnown DEF Get, world
<1>2. /\ Behind(shell[s], proc[s].read.src)
      /\ ForwardProc(proc[s], shell[s], disk.source)
  BY <1>1 DEF Forward, ShellsForward, ForwardProc
<1>3. CASE key \in DOMAIN cache /\ ValidResponse(cache[key], proc[s].read.config)
  <2>1. LoadReturns(s, Received(s, cache[key]))
    BY <1>3 DEF Get
  <2>2. key[3] = proc[s].read.src
    BY DEF KeyOf
  <2> HIDE DEF key
  <2>3. /\ cache[key].src >= proc[s].read.src /\ cache[key].src <= disk.source
        /\ cache[key].src \in Nat
    BY <1>3, <2>2, CachedIsNat DEF IInv, CacheOK, CacheNotBehind, Forward, CacheForward
  <2>4. Behind(shell[s], cache[key].src)
    BY <1>2, <2>3, VersionsAreNat DEF Behind
  <2>5. Received(s, cache[key]).src = cache[key].src
    BY DEF Received
  <2> QED
    BY <1>1, <2>1, <2>3, <2>4, <2>5, LoadReturnsIsForward
<1>4. CASE ~(key \in DOMAIN cache /\ ValidResponse(cache[key], proc[s].read.config))
  <2> DEFINE p == [proc[s] EXCEPT !.pc = "decrypt"]
  <2>1. proc' = [proc EXCEPT ![s] = p] /\ UNCHANGED shell
    BY <1>4 DEF Get, Goto
  <2>2. /\ p.pc = "decrypt" /\ p.read = proc[s].read
        /\ p.attempt = proc[s].attempt /\ p.loaded = proc[s].loaded
    BY <1>1 DEF ProcState
  <2> HIDE DEF p
  <2>3. ForwardProc(p, shell[s], disk.source)
    BY <1>2, <2>2 DEF ForwardProc
  <2> QED
    BY <1>1, <2>1, <2>3, ProcStaysForward
<1> QED
  BY <1>3, <1>4

LEMMA DecryptIsForward ==
  ASSUME IInv, Forward, NEW s \in Shells, Decrypt(s)
  PROVE  ShellsForward' /\ NotBack
<1> DEFINE doc == [src |-> disk.source, names |-> Holds[disk.source]]
           loaded == Received(s, doc)
<1>1. proc[s] \in ProcState /\ proc[s].pc = "decrypt" /\ UNCHANGED disk
  BY ProcKnown DEF Decrypt, world
<1>2. Behind(shell[s], disk.source) /\ Behind(shell[s], proc[s].read.src)
  BY <1>1 DEF Forward, ShellsForward, ForwardProc
<1>3. loaded.src = disk.source /\ disk.source \in Nat /\ disk.source <= disk.source
  BY SourceIsNat DEF Received
<1>4. CASE EndWithClear(s)
  BY <1>1, <1>4, ClearIsForward
<1>5. CASE LoadReturns(s, loaded)
  <2> HIDE DEF loaded
  <2> QED
    BY <1>1, <1>2, <1>3, <1>5, LoadReturnsIsForward
<1>6. CASE /\ proc' = [proc EXCEPT ![s].pc = "put", ![s].loaded = loaded]
           /\ UNCHANGED shell
  <2> HIDE DEF loaded
  <2> DEFINE p == [proc[s] EXCEPT !.pc = "put", !.loaded = loaded]
  <2>1. proc' = [proc EXCEPT ![s] = p]
    BY <1>6
  <2>2. /\ p.pc = "put" /\ p.read = proc[s].read /\ p.loaded = loaded
        /\ p.attempt = proc[s].attempt
    BY <1>1 DEF ProcState
  <2> HIDE DEF p
  <2>3. ForwardProc(p, shell[s], disk.source)
    BY <1>2, <1>3, <2>2 DEF ForwardProc
  <2> QED
    BY <1>1, <1>6, <2>1, <2>3, ProcStaysForward
<1> QED
  BY <1>4, <1>5, <1>6 DEF Decrypt

LEMMA PutIsForward ==
  ASSUME IInv, Forward, NEW s \in Shells, Put(s)
  PROVE  Forward' /\ NotBack
<1> DEFINE key == KeyOf(proc[s].read)
           doc == [src |-> proc[s].loaded.src, names |-> proc[s].loaded.names]
<1>1. /\ proc[s].pc = "put" /\ UNCHANGED disk
      /\ StoreUnder(key, doc) /\ LoadReturns(s, proc[s].loaded)
  BY DEF Put, world
<1>2. /\ Behind(shell[s], proc[s].read.src)
      /\ proc[s].loaded.src <= disk.source
  BY <1>1 DEF Forward, ShellsForward, ForwardProc
<1>3. proc[s].read.src <= proc[s].loaded.src
  BY <1>1, ProcKnown DEF GoodProc
<1>4. /\ Behind(shell[s], proc[s].loaded.src)
      /\ proc[s].loaded.src \in Nat
  BY <1>1, <1>2, <1>3, VersionsAreNat DEF Behind
<1>5. ShellsForward' /\ NotBack
  BY <1>1, <1>2, <1>4, LoadReturnsIsForward
<1>6. CacheForward'
  <2>1. doc.src <= disk.source
    BY <1>2
  <2> HIDE DEF key, doc
  <2> QED
    BY <1>1, <2>1 DEF StoreUnder, CacheForward, Forward
<1> QED
  BY <1>5, <1>6 DEF Forward

LEMMA OthersPutIsForward ==
  ASSUME IInv, Forward, NEW k \in Keys, OthersPut(k)
  PROVE  CacheForward'
<1>1. PICK v \in k[3]..disk.source : StoreUnder(k, [src |-> v, names |-> Holds[v]])
  BY DEF OthersPut
<1>2. v <= disk.source /\ UNCHANGED disk
  BY <1>1 DEF OthersPut, world
<1> QED
  BY <1>1, <1>2 DEF StoreUnder, CacheForward, Forward

LEMMA WorldIsForward ==
  ASSUME IInv, IInv', Forward,
         \/ EditFiles \/ Allow \/ DamageOrRepairSettings \/ ChangeBundle
         \/ \E k \in Keys : Forget(k) \/ OthersPut(k)
         \/ \E s \in Shells : Cd(s)
         \/ UNCHANGED vars
  PROVE  Forward' /\ NotBack
<1>1. disk.source <= disk'.source
  <2>1. CASE EditFiles
    <3>1. disk'.source = disk.source \/ disk'.source = disk.source + 1
      BY <2>1 DEF EditFiles, IInv, WorldOK
    <3> QED
      BY <3>1, SourceIsNat
  <2>2. CASE UNCHANGED disk
    BY <2>2, SourceIsNat
  <2> QED
    BY <2>1, <2>2 DEF Allow, DamageOrRepairSettings, ChangeBundle, Forget, OthersPut, Cd, vars, world
<1>2. UNCHANGED <<proc, shell>>
  BY DEF EditFiles, Allow, DamageOrRepairSettings, ChangeBundle, Forget, OthersPut, Cd, vars
<1>3. CacheForward'
  <2>1. CASE UNCHANGED cache
    <3>1. \A k \in DOMAIN cache : cache[k].src \in Nat /\ cache[k].src <= disk.source
      BY CachedIsNat DEF Forward, CacheForward
    <3>2. disk.source \in Nat /\ disk'.source \in Nat
      BY SourceIsNat, BoundsAreNat DEF IInv, WorldOK, Sources
    <3> QED
      BY <1>1, <2>1, <3>1, <3>2 DEF CacheForward
  <2>2. CASE \E k \in Keys : Forget(k)
    BY <2>2 DEF Forget, world, CacheForward, Forward
  <2>3. CASE \E k \in Keys : OthersPut(k)
    BY <2>3, OthersPutIsForward
  <2> QED
    BY <2>1, <2>2, <2>3 DEF EditFiles, Allow, DamageOrRepairSettings, ChangeBundle, Cd, vars
<1> QED
  BY <1>1, <1>2, <1>3, WorldStaysForward

LEMMA ForwardNext ==
  ASSUME IInv, IInv', Forward, [Next]_vars
  PROVE  Forward' /\ NotBack
<1>1. ASSUME NEW s \in Shells, Start(s) \/ Step(s) \/ RunFails(s) \/ Dies(s)
      PROVE  Forward' /\ NotBack
  <2>1. CASE Put(s)
    BY <2>1, PutIsForward
  <2>2. CASE ~Put(s)
    <3>1. UNCHANGED <<disk, cache>>
      BY <1>1, <2>2 DEF Start, Step, RunFails, Dies, PreRun, ReadConfig, ReadManifest,
         ReadSettings, HashSource, Get, Decrypt, world
    <3>2. ShellsForward' /\ NotBack
      BY <1>1, <2>2, <3>1, ReadsAreForward, HashIsForward, GetIsForward, DecryptIsForward,
         ClearIsForward, SilentIsForward DEF Step, RunFails, Dies
    <3>3. CacheForward'
      BY <3>1 DEF Forward, CacheForward
    <3> QED
      BY <3>2, <3>3 DEF Forward
  <2> QED
    BY <2>1, <2>2
<1> QED
  BY <1>1, WorldIsForward DEF Next

(* Each step of activate, of a user or of another process leaves a shell   *)
(* without the scope's variables or with ones no older than it had: what   *)
(* Load answers is no older than the source it hashed, which is no older   *)
(* than anything loaded before.                                            *)
THEOREM NeverTakenBack == Spec => NeverBack
<1>1. Init => IInv /\ Forward
  BY InvInit, ForwardInit
<1>2. IInv /\ Forward /\ [Next]_vars => IInv' /\ Forward'
  BY InvNext, ForwardNext
<1>3. IInv /\ Forward /\ [Next]_vars =>
        [\A s \in Shells : shell[s].loaded # None /\ shell'[s].loaded # None
           => shell'[s].loaded.src >= shell[s].loaded.src]_vars
  BY InvNext, ForwardNext DEF NotBack
<1> QED
  BY <1>1, <1>2, <1>3, PTL DEF Spec, NeverBack
=============================================================================
