----------------------------- MODULE Activation -----------------------------
(***************************************************************************)
(* "dotenvsec activate" (internal/cli/root.go, internal/app/load.go) as    *)
(* the hooks of several shells run it, while the user edits the scope's    *)
(* files, approves policies and changes directory.                         *)
(*                                                                         *)
(* activate prepares the scope up to three times.  The first time gives    *)
(* the marker to compare with the shell's; Load prepares the scope again   *)
(* on its own, asks the cache, decrypts; and when the first time failed    *)
(* and Load did not, a third one gives the marker.  Each Prepare reads the *)
(* policy, the recipients, the settings and the source one after the       *)
(* other, and the provider reads the source once more to decrypt it.  No   *)
(* lock holds the files still in between.                                  *)
(*                                                                         *)
(* One scope is modelled.  Its policy is a version of .dotenv-sec.yaml and *)
(* a version of recipients.yaml: trust.Hash is the pair, for a provider    *)
(* that stays the same.  Checks on the files that only can refuse (Git     *)
(* tracking, permissions, .sops.yaml drift, the provider's checksum) are   *)
(* one bit of the world, intact.  What a decryption yields is the version  *)
(* of the source and the names it holds.  Sources are only edited forward. *)
(***************************************************************************)
EXTENDS Naturals, FiniteSets

CONSTANTS
    Shells,
    Configs,      \* versions of .dotenv-sec.yaml
    Manifests,    \* versions of recipients.yaml
    Declares,     \* names each configuration declares
    MaxSource,    \* bound on the edits of the encrypted source
    Holds,        \* names each version of the source holds
    CacheSlots,   \* entries the agent holds
    Caching,      \* the effective TTL is positive and an agent runs
    MaxDeaths,    \* bound on the activate processes killed, and providers failing
    Bundles,      \* what the provider beside the executable may be found to be
    None

ASSUME BoundsAreNat == MaxSource \in Nat /\ CacheSlots \in Nat \ {0} /\ MaxDeaths \in Nat
ASSUME CachingIsBool == Caching \in BOOLEAN

(* DiscoverBundled finds no provider, finds one, or returns an error (its  *)
(* owner, mode or checksum, or the executable's own); the last stands also *)
(* for an upgrade whose SaveSettings fails.                                *)
BundleStates == {"absent", "sound", "refused"}
ASSUME BundlesAreStates == Bundles \subseteq BundleStates /\ Bundles # {}

VARIABLES
    disk,       \* config, manifest, source, intact: the scope's files
    approved,   \* settings.Approvals[scope]: the approved pair
    readable,   \* LoadSettings succeeds
    bundle,     \* what refreshing the bundled provider meets
    cache,      \* the agent's store: key -> decrypted document
    inside,     \* shells whose directory is in the scope
    shell,      \* each shell: its marker and the environment it received
    proc,       \* each shell's activate process
    everApproved, \* history: the pairs allow ever recorded
    deaths,     \* how many were killed, or had their provider fail
    again       \* history: shells whose marker came from the third Prepare

world == <<disk, approved, readable, bundle, inside, everApproved>>
vars == <<disk, approved, readable, bundle, cache, inside, shell, proc, everApproved,
          deaths, again>>

Sources == 0..MaxSource
Policies == Configs \X Manifests
Keys == Configs \X Manifests \X Sources   \* cache keys, and markers
Document == [src : Sources, names : {Holds[v] : v \in Sources}]
Loaded == [src : Sources, names : {Holds[v] : v \in Sources}, under : Policies]

ASSUME NoneIsFresh ==
    None \notin Configs \cup Manifests \cup Policies \cup Keys \cup Loaded

NotRead == [config |-> None, manifest |-> None, src |-> 0]
Idle == [pc |-> "idle", attempt |-> "first", read |-> NotRead,
         first |-> None, loaded |-> None]
NoScript == [marker |-> None, loaded |-> None]

Init ==
    /\ disk \in [config : Configs, manifest : Manifests, source : {0}, intact : {TRUE}]
    /\ approved = None
    /\ readable = TRUE
    /\ bundle \in Bundles
    /\ cache = [k \in {} |-> None]
    /\ inside = {}
    /\ shell = [s \in Shells |-> NoScript]
    /\ proc = [s \in Shells |-> Idle]
    /\ everApproved = {}
    /\ deaths = 0
    /\ again = {}

-----------------------------------------------------------------------------
(* The user, editors and git, at any moment.                               *)

EditFiles ==
    /\ \/ \E c \in Configs : disk' = [disk EXCEPT !.config = c]
       \/ \E m \in Manifests : disk' = [disk EXCEPT !.manifest = m]
       \/ disk.source < MaxSource /\ disk' = [disk EXCEPT !.source = @ + 1]
       \/ disk' = [disk EXCEPT !.intact = ~@]
    /\ UNCHANGED <<approved, readable, bundle, cache, inside, shell, proc, everApproved,
                   deaths, again>>

(* What the bundled provider is, or whether its upgrade can be saved.      *)
ChangeBundle ==
    /\ bundle' \in Bundles \ {bundle}
    /\ UNCHANGED <<disk, approved, readable, cache, inside, shell, proc, everApproved,
                   deaths, again>>

(* PersistentPreRunE, before any command: without a bundled provider it    *)
(* does not even load the settings.                                        *)
Refreshes == bundle = "absent" \/ (bundle = "sound" /\ readable)

(* Of the checks Prepare makes on the files, what only can refuse.         *)
ChecksPass == disk.intact

(* dotenvsec allow; its own Prepare is one step here.                      *)
Allow ==
    /\ Refreshes
    /\ ChecksPass
    /\ readable
    /\ approved' = <<disk.config, disk.manifest>>
    /\ everApproved' = everApproved \cup {approved'}
    /\ UNCHANGED <<disk, readable, bundle, cache, inside, shell, proc, deaths, again>>

(* The settings file, or the identity file it names, is damaged, removed,  *)
(* made readable for others, or repaired.                                  *)
DamageOrRepairSettings ==
    /\ readable' = ~readable
    /\ UNCHANGED <<disk, approved, bundle, cache, inside, shell, proc, everApproved,
                   deaths, again>>

Cd(s) ==
    /\ proc[s].pc = "idle"
    /\ inside' = IF s \in inside THEN inside \ {s} ELSE inside \cup {s}
    /\ UNCHANGED <<disk, approved, readable, bundle, cache, shell, proc, everApproved,
                   deaths, again>>

(* The agent may forget an entry at any time (LossyCache).                 *)
Forget(k) ==
    /\ k \in DOMAIN cache
    /\ cache' = [j \in DOMAIN cache \ {k} |-> cache[j]]
    /\ UNCHANGED <<world, shell, proc, deaths, again>>

(* ValidateResponse, for a cached document and for a decrypted one.        *)
ValidResponse(doc, config) == doc.names = Declares[config]

StoreUnder(key, doc) ==
    \E kept \in SUBSET (DOMAIN cache \ {key}) :
      /\ Cardinality(kept) < CacheSlots
      /\ cache' = [k \in kept \cup {key} |-> IF k = key THEN doc ELSE cache[k]]

(* Any other process that runs Load (exec, shell, the activate of a shell  *)
(* not modelled here): it hashed the source, decrypted what the source had *)
(* become by then, and puts that now.                                      *)
OthersPut(key) ==
    /\ Caching
    /\ <<key[1], key[2]>> \in everApproved
    /\ \E v \in key[3]..disk.source :
         LET doc == [src |-> v, names |-> Holds[v]] IN
         ValidResponse(doc, key[1]) /\ StoreUnder(key, doc)
    /\ UNCHANGED <<world, shell, proc, deaths, again>>

-----------------------------------------------------------------------------
(* One activate process.                                                   *)

Goto(s, pc) == proc' = [proc EXCEPT ![s].pc = pc]

(* The process ends and the shell evaluates what it printed.               *)
EndWith(s, script, third) ==
    /\ proc' = [proc EXCEPT ![s] = Idle]
    /\ shell' = [shell EXCEPT ![s] = script]
    /\ again' = IF third THEN again \cup {s} ELSE again \ {s}

EndSilently(s) == proc' = [proc EXCEPT ![s] = Idle] /\ UNCHANGED <<shell, again>>
EndSilentlyInstead(s) == EndSilently(s)
EndWithClear(s) == EndWith(s, NoScript, FALSE)

StartPrepare(s, attempt, first) ==
    proc' = [proc EXCEPT ![s] = [Idle EXCEPT !.pc = "config", !.attempt = attempt,
                                  !.first = first]]

Start(s) ==
    /\ proc[s].pc = "idle"
    /\ Goto(s, "prerun")
    /\ UNCHANGED <<world, cache, shell, deaths, again>>

(* When PersistentPreRunE returns an error the process ends there, with    *)
(* nothing on its standard output.                                         *)
PreRun(s) ==
    /\ proc[s].pc = "prerun"
    /\ IF Refreshes THEN StartPrepare(s, "first", None) /\ UNCHANGED <<shell, again>>
       ELSE EndSilently(s)
    /\ UNCHANGED <<world, cache, deaths>>

(* Prepare returned an error.  The first time Load is tried nevertheless.  *)
PrepareFails(s) ==
    IF proc[s].attempt = "first"
    THEN StartPrepare(s, "load", None) /\ UNCHANGED <<shell, again>>
    ELSE EndWithClear(s)

(* scope.Resolve finds the scope.                                          *)
Resolves(s) == s \in inside

ReadConfig(s) ==
    /\ proc[s].pc = "config"
    /\ IF Resolves(s)
       THEN /\ proc' = [proc EXCEPT ![s].pc = "manifest", ![s].read.config = disk.config]
            /\ UNCHANGED <<shell, again>>
       ELSE PrepareFails(s)
    /\ UNCHANGED <<world, cache, deaths>>

ReadManifest(s) ==
    /\ proc[s].pc = "manifest"
    /\ IF ChecksPass
       THEN /\ proc' = [proc EXCEPT ![s].pc = "settings", ![s].read.manifest = disk.manifest]
            /\ UNCHANGED <<shell, again>>
       ELSE PrepareFails(s)
    /\ UNCHANGED <<world, cache, deaths>>

PolicyRead(s) == <<proc[s].read.config, proc[s].read.manifest>>

IsApprovedScope(policy) == approved # None
IsApproved(policy) == approved = policy

ReadSettings(s) ==
    /\ proc[s].pc = "settings"
    /\ IF readable /\ IsApproved(PolicyRead(s))
       THEN Goto(s, "hash") /\ UNCHANGED <<shell, again>>
       ELSE PrepareFails(s)
    /\ UNCHANGED <<world, cache, deaths>>

(* The last thing Prepare reads; what follows depends on whose Prepare.    *)
MarkerOf(read) == <<read.config, read.manifest, read.src>>
KeyWithoutSource(read) == <<read.config, read.manifest, 0>>
KeyHashedLater(read) == <<read.config, read.manifest, disk.source>>
KeyOf(read) == <<read.config, read.manifest, read.src>>

SameScope(s, read) == shell[s].marker # None
SameMarker(s, read) == shell[s].marker = MarkerOf(read)

HashSource(s) ==
    LET read == [proc[s].read EXCEPT !.src = disk.source] IN
    /\ proc[s].pc = "hash"
    /\ \/ /\ proc[s].attempt = "first"
          /\ IF SameMarker(s, read) THEN EndSilently(s)
             ELSE StartPrepare(s, "load", MarkerOf(read)) /\ UNCHANGED <<shell, again>>
       \/ /\ proc[s].attempt = "load"
          /\ proc' = [proc EXCEPT ![s].pc = IF Caching THEN "get" ELSE "decrypt",
                                  ![s].read = read]
          /\ UNCHANGED <<shell, again>>
       \/ /\ proc[s].attempt = "again"
          /\ EndWith(s, [marker |-> MarkerOf(read), loaded |-> proc[s].loaded], TRUE)
    /\ UNCHANGED <<world, cache, deaths>>

Received(s, doc) == [src |-> doc.src, names |-> doc.names, under |-> PolicyRead(s)]

(* Load returned: print the transition under the first marker, or prepare  *)
(* once more for a marker.                                                 *)
LoadReturns(s, loaded) ==
    IF proc[s].first # None
    THEN EndWith(s, [marker |-> proc[s].first, loaded |-> loaded], FALSE)
    ELSE /\ proc' = [proc EXCEPT ![s] = [Idle EXCEPT !.pc = "config",
                       !.attempt = "again", !.loaded = loaded]]
         /\ UNCHANGED <<shell, again>>

Get(s) ==
    LET key == KeyOf(proc[s].read) IN
    /\ proc[s].pc = "get"
    /\ IF key \in DOMAIN cache /\ ValidResponse(cache[key], proc[s].read.config)
       THEN LoadReturns(s, Received(s, cache[key]))
       ELSE Goto(s, "decrypt") /\ UNCHANGED <<shell, again>>
    /\ UNCHANGED <<world, cache, deaths>>

Decrypt(s) ==
    LET doc == [src |-> disk.source, names |-> Holds[disk.source]] IN
    /\ proc[s].pc = "decrypt"
    /\ IF ~ValidResponse(doc, proc[s].read.config) THEN EndWithClear(s)
       ELSE IF Caching
       THEN /\ proc' = [proc EXCEPT ![s].pc = "put", ![s].loaded = Received(s, doc)]
            /\ UNCHANGED <<shell, again>>
       ELSE LoadReturns(s, Received(s, doc))
    /\ UNCHANGED <<world, cache, deaths>>

(* Identities cannot be prepared, the provider fails or takes too long, or *)
(* the checks it makes again (checksums of provider and tools) now refuse. *)
RunFails(s) ==
    /\ proc[s].pc = "decrypt"
    /\ EndWithClear(s)
    /\ \/ ~disk.intact /\ UNCHANGED deaths
       \/ deaths < MaxDeaths /\ deaths' = deaths + 1
    /\ UNCHANGED <<world, cache>>

Put(s) ==
    LET key == KeyOf(proc[s].read)
        doc == [src |-> proc[s].loaded.src, names |-> proc[s].loaded.names]
    IN
    /\ proc[s].pc = "put"
    /\ StoreUnder(key, doc)
    /\ LoadReturns(s, proc[s].loaded)
    /\ UNCHANGED <<world, deaths>>

Dies(s) ==
    /\ deaths < MaxDeaths
    /\ deaths' = deaths + 1
    /\ proc[s].pc # "idle"
    /\ EndSilently(s)
    /\ UNCHANGED <<world, cache>>

Step(s) ==
    \/ PreRun(s) \/ ReadConfig(s) \/ ReadManifest(s) \/ ReadSettings(s)
    \/ HashSource(s) \/ Get(s) \/ Decrypt(s) \/ Put(s)

Next ==
    \/ EditFiles
    \/ Allow
    \/ DamageOrRepairSettings
    \/ ChangeBundle
    \/ \E k \in Keys : Forget(k) \/ OthersPut(k)
    \/ \E s \in Shells : Cd(s) \/ Start(s) \/ Step(s) \/ RunFails(s) \/ Dies(s)

(* Every shell comes to a prompt again, and a process that can run runs.   *)
Fairness == \A s \in Shells : WF_vars(Start(s)) /\ WF_vars(Step(s))

Spec == Init /\ [][Next]_vars
FairSpec == Spec /\ Fairness

-----------------------------------------------------------------------------
(* Properties.                                                             *)

TypeOK ==
    /\ disk \in [config : Configs, manifest : Manifests, source : Sources,
                 intact : BOOLEAN]
    /\ approved \in Policies \cup {None}
    /\ readable \in BOOLEAN
    /\ bundle \in Bundles
    /\ DOMAIN cache \subseteq Keys
    /\ cache \in [DOMAIN cache -> Document]
    /\ inside \subseteq Shells
    /\ shell \in [Shells -> [marker : Keys \cup {None}, loaded : Loaded \cup {None}]]
    /\ proc \in [Shells ->
         [pc : {"idle", "prerun", "config", "manifest", "settings", "hash", "get",
                "decrypt", "put"},
          attempt : {"first", "load", "again"},
          read : [config : Configs \cup {None}, manifest : Manifests \cup {None},
                  src : Sources],
          first : Keys \cup {None}, loaded : Loaded \cup {None}]]
    /\ everApproved \subseteq Policies
    /\ deaths \in Nat
    /\ again \subseteq Shells

(* Whatever is edited while Prepare reads, a shell only ever holds         *)
(* variables loaded under a configuration and a manifest that the user     *)
(* approved together, and exactly the names that configuration declares.   *)
OnlyApproved ==
    \A s \in Shells : LET l == shell[s].loaded IN l # None =>
        /\ l.under \in everApproved
        /\ l.names = Declares[l.under[1]]

(* A cached document is never older than the source its key names.         *)
CacheNotBehind == \A k \in DOMAIN cache : cache[k].src >= k[3]

(* Whatever an activate that started earlier, a cached document or the     *)
(* third Prepare brings, a shell that has variables of the scope is only   *)
(* ever given newer ones, or none.                                         *)
NeverBack ==
    [][\A s \in Shells :
         shell[s].loaded # None /\ shell'[s].loaded # None
         => shell'[s].loaded.src >= shell[s].loaded.src]_vars

(* docs/scope-modes.md: "ciphertext changes invalidate the                 *)
(* cache/transition marker".  The marker is never ahead of the variables:  *)
(* otherwise no later prompt would load what it claims is loaded.  Not so  *)
(* of a marker that comes from the third Prepare.                          *)
MarkerNotAheadUnlessAgain ==
    \A s \in Shells \ again :
        shell[s].marker # None => shell[s].loaded.src >= shell[s].marker[3]

(* Every prompt of every shell ends: with variables and a marker or with   *)
(* neither, never with one of the two.                                     *)
MarkerWithVariables ==
    \A s \in Shells : (shell[s].marker = None) <=> (shell[s].loaded = None)

Loadable(s) ==
    /\ s \in inside /\ disk.intact /\ readable /\ Refreshes
    /\ approved = <<disk.config, disk.manifest>>
    /\ Declares[disk.config] = Holds[disk.source]

(* A shell left in an approved scope that decrypts ends up with the latest *)
(* source, however its earlier activations raced with the edits (unless    *)
(* the marker came from the third Prepare).                                *)
Settles ==
    \A s \in Shells : <>[]Loadable(s) =>
        <>[](\/ s \in again
             \/ shell[s].loaded # None /\ shell[s].loaded.src = disk.source)

(* A shell that stays out of the scope, or whose scope stays broken or     *)
(* unapproved, or whose settings stay unreadable, ends up with nothing, as *)
(* long as each activate gets past PersistentPreRunE.  One that does not   *)
(* prints nothing, and the shell keeps what it has, whatever README.md     *)
(* says of failed transitions.                                             *)
FailsClosed ==
    \A s \in Shells, p \in Policies :
        \/ <>[](Refreshes /\ s \notin inside)
        \/ <>[](Refreshes /\ ~disk.intact)
        \/ <>[](Refreshes /\ ~readable)
        \/ <>[](Refreshes /\ p = <<disk.config, disk.manifest>> /\ approved # p)
        => <>[](shell[s].loaded = None)
=============================================================================
