---------------------------- MODULE SettingsFile ----------------------------
(***************************************************************************)
(* The user's settings file (internal/config/paths.go) under every command *)
(* that writes it.  Each of them loads the whole file, changes its copy    *)
(* and renames a new file over the old one; no lock is held in between.    *)
(* And every invocation, the activate of each prompt included, first       *)
(* refreshes the entry of the bundled provider the same way.               *)
(*                                                                         *)
(* One provider id ("sops") and one scope are modelled.  An executable is  *)
(* its checksum: the version of the bundled provider that is installed, or *)
(* Own for a program of the user's.  A process that is killed, or fails,   *)
(* before it saves has done nothing: only the rename makes a save.         *)
(***************************************************************************)
EXTENDS Naturals, FiniteSets

CONSTANTS
    Procs,        \* terminals, one dotenvsec process at a time in each
    Policies,     \* versions of the scope's policy
    Tools,        \* bindings of external tools (with search path and timeout)
    Editors,
    Own,          \* the user's own provider executable
    MaxUpgrades,  \* bound on package upgrades
    MaxCommands,  \* bound on the commands the user types
    MaxKills,     \* bound on the processes that are killed
    None          \* no entry, no binding, no approval, no editor, no command

Versions == 0..MaxUpgrades    \* 0: no bundled provider is installed
Sums == Versions \cup {Own}
Hashes == Policies \X Sums

ASSUME BoundsAreNat == MaxUpgrades \in Nat /\ MaxCommands \in Nat /\ MaxKills \in Nat
ASSUME NoneIsFresh ==
    /\ None \notin Tools /\ None \notin Editors
    /\ None \notin Hashes /\ Own \notin Versions

VARIABLES
    file,         \* what settings.yaml holds
    identityFile, \* the age identity file exists and is private
    installed,    \* the bundled provider beside the main executable
    proc,         \* each terminal's process
    stale,        \* history: processes whose copy another save has overtaken
    given,        \* history: what the user asked for and was told is done
    reviewed,     \* history: the hashes the user ever approved
    overlapped,   \* history: a process saved a stale copy
    typed,        \* how many commands the user has typed
    kills         \* how many processes were killed

vars == <<file, identityFile, installed, proc, stale, given, reviewed, overlapped,
          typed, kills>>

Entry == [sum : Sums, source : {"bundled", "manual", "legacy", "foreign"},
          tool : Tools \cup {None}]
NoEntry == [sum |-> 0, source |-> "none", tool |-> None]
Settings == [provider : Entry \cup {NoEntry}, approval : Hashes \cup {None},
             editor : Editors \cup {None}, identity : BOOLEAN]

(* What is asked for: an operation and its argument.  init and migrate     *)
(* bind a tool as retool does; a load that met a new YubiKey enrols it.    *)
Command ==
    ([op : {"allow"}, arg : Policies] \cup [op : {"register"}, arg : Sums]
     \cup [op : {"retool"}, arg : Tools] \cup [op : {"editor"}, arg : Editors]
     \cup [op : {"revoke", "enrol"}, arg : {None}])
Prompt == [op |-> "prompt", arg |-> None]

Idle == [pc |-> "idle", cmd |-> Prompt, seen |-> 0, copy |-> None]

(* Entries written before sources were recorded have none: "legacy" where  *)
(* legacyBundledProvider knows the path, "foreign" where it does not.      *)
Init ==
    /\ \E provider \in {NoEntry,
                        [sum |-> 0, source |-> "legacy", tool |-> None],
                        [sum |-> Own, source |-> "foreign", tool |-> None]} :
         file = [provider |-> provider, approval |-> None, editor |-> None,
                 identity |-> FALSE]
    /\ identityFile \in BOOLEAN
    /\ installed = 0
    /\ proc = [p \in Procs |-> Idle]
    /\ stale = {}
    /\ given = [approval |-> None, editor |-> None, tool |-> None, manual |-> FALSE]
    /\ reviewed = {}
    /\ overlapped = FALSE
    /\ typed = 0
    /\ kills = 0

RegisteredUnchecked(s) == TRUE
Registered(s) == s.provider # NoEntry

(* LoadSettings refuses the whole file when the identity file is missing.  *)
Readable == file.identity => identityFile

(* VerifyExecutable: the pinned checksum is that of a program on the disk. *)
Verifies(entry) == entry.sum = Own \/ (entry.sum = installed /\ installed # 0)

(* trust.Hash.                                                             *)
HashWithoutProvider(policy, entry) == <<policy, 0>>
Hash(policy, entry) == <<policy, entry.sum>>

-----------------------------------------------------------------------------
(* The machine.                                                            *)

Upgrade ==
    /\ installed < MaxUpgrades
    /\ installed' = installed + 1
    /\ UNCHANGED <<file, identityFile, proc, stale, given, reviewed, overlapped, typed,
                   kills>>

IdentityFileGoesOrReturns ==
    /\ identityFile' = ~identityFile
    /\ UNCHANGED <<file, installed, proc, stale, given, reviewed, overlapped, typed,
                   kills>>

-----------------------------------------------------------------------------
(* A process.                                                              *)

Start(p, cmd) ==
    /\ proc[p].pc = "idle"
    /\ cmd # Prompt => typed < MaxCommands
    /\ typed' = IF cmd = Prompt THEN typed ELSE typed + 1
    /\ proc' = [proc EXCEPT ![p] = [Idle EXCEPT !.pc = "discover", !.cmd = cmd]]
    /\ UNCHANGED <<file, identityFile, installed, stale, given, reviewed, overlapped,
                   kills>>

Goto(p, pc) == proc' = [proc EXCEPT ![p].pc = pc]

(* The rest of a prompt's activate is the subject of Activation.           *)
AfterRefresh(p) ==
    IF proc[p].cmd = Prompt THEN proc' = [proc EXCEPT ![p] = Idle] ELSE Goto(p, "load")

(* DiscoverBundled.                                                        *)
Discover(p) ==
    /\ proc[p].pc = "discover"
    /\ IF installed = 0 THEN AfterRefresh(p)
       ELSE proc' = [proc EXCEPT ![p].pc = "refresh", ![p].seen = installed]
    /\ UNCHANGED <<file, identityFile, installed, stale, given, reviewed, overlapped,
                   typed, kills>>

(* A manual entry is the user's, and so is one nobody recognises.          *)
KeepsEntryOnce(entry, seen) == entry.source \in {"manual", "foreign", "bundled"}
KeepsEntry(entry, seen) ==
    \/ entry.source \in {"manual", "foreign"}
    \/ entry.source = "bundled" /\ entry.sum = seen

LoadForRefresh(p) ==
    /\ proc[p].pc = "refresh"
    /\ Readable
    /\ IF KeepsEntry(file.provider, proc[p].seen)
       THEN AfterRefresh(p)
       ELSE proc' = [proc EXCEPT ![p].pc = "refreshSave", ![p].copy = file]
    /\ stale' = stale \ {p}
    /\ UNCHANGED <<file, identityFile, installed, given, reviewed, overlapped, typed,
                   kills>>

(* SaveSettings: one rename replaces the file; other copies are overtaken. *)
Save(p, settings) ==
    /\ file' = settings
    /\ overlapped' = (overlapped \/ p \in stale)
    /\ stale' = (stale \ {p}) \cup
         {q \in Procs \ {p} : proc[q].pc \in {"refreshSave", "save"}}

Bundled(copy, sum) ==
    [copy EXCEPT !.provider = [sum |-> sum, source |-> "bundled",
                               tool |-> copy.provider.tool]]

RefreshSave(p) ==
    /\ proc[p].pc = "refreshSave"
    /\ Save(p, Bundled(proc[p].copy, proc[p].seen))
    /\ AfterRefresh(p)
    /\ UNCHANGED <<identityFile, installed, given, reviewed, typed, kills>>

(* What a command asks of the settings it loaded and of the programs.      *)
Permitted(cmd, s) ==
    CASE cmd.op = "allow" -> Registered(s) /\ Verifies(s.provider)
      [] cmd.op = "enrol" -> /\ Registered(s) /\ Verifies(s.provider)
                             /\ \E policy \in Policies :
                                  s.approval = Hash(policy, s.provider)
      [] cmd.op = "retool" -> Registered(s)
      [] cmd.op = "register" -> Verifies([sum |-> cmd.arg])
      [] OTHER -> TRUE

(* Enrolment writes the identity file before it saves where that file is.  *)
LoadForCommand(p) ==
    /\ proc[p].pc = "load"
    /\ Readable
    /\ Permitted(proc[p].cmd, file)
    /\ proc' = [proc EXCEPT ![p].pc = "save", ![p].copy = file]
    /\ identityFile' = (identityFile \/ proc[p].cmd.op = "enrol")
    /\ stale' = stale \ {p}
    /\ UNCHANGED <<file, installed, given, reviewed, overlapped, typed, kills>>

(* Registering again binds the executable only and keeps the tools.        *)
RegisteredAfresh(s, sum) == [sum |-> sum, source |-> "manual", tool |-> None]
RegisteredAs(s, sum) == [sum |-> sum, source |-> "manual", tool |-> s.provider.tool]

Changed(cmd, s) ==
    CASE cmd.op = "allow" -> [s EXCEPT !.approval = Hash(cmd.arg, s.provider)]
      [] cmd.op = "register" -> [s EXCEPT !.provider = RegisteredAs(s, cmd.arg)]
      [] cmd.op = "retool" -> [s EXCEPT !.provider.tool = cmd.arg]
      [] cmd.op = "revoke" -> [s EXCEPT !.provider = NoEntry]
      [] cmd.op = "editor" -> [s EXCEPT !.editor = cmd.arg]
      [] cmd.op = "enrol" -> [s EXCEPT !.identity = TRUE]

(* What the user is entitled to expect after it.                           *)
Expected(cmd, s) ==
    CASE cmd.op = "allow" -> [given EXCEPT !.approval = <<cmd.arg, s.provider.sum>>]
      [] cmd.op = "register" -> [given EXCEPT !.manual = TRUE]
      [] cmd.op = "retool" -> [given EXCEPT !.tool = cmd.arg]
      [] cmd.op = "revoke" -> [given EXCEPT !.manual = FALSE, !.tool = None]
      [] cmd.op = "editor" -> [given EXCEPT !.editor = cmd.arg]
      [] cmd.op = "enrol" -> given

SaveForCommand(p) ==
    LET cmd == proc[p].cmd
        copy == proc[p].copy
    IN
    /\ proc[p].pc = "save"
    /\ Save(p, Changed(cmd, copy))
    /\ given' = Expected(cmd, copy)
    /\ reviewed' = IF cmd.op = "allow"
                   THEN reviewed \cup {<<cmd.arg, copy.provider.sum>>} ELSE reviewed
    /\ proc' = [proc EXCEPT ![p] = Idle]
    /\ UNCHANGED <<identityFile, installed, typed, kills>>

Abandon(p) ==
    /\ proc' = [proc EXCEPT ![p] = Idle]
    /\ stale' = stale \ {p}
    /\ UNCHANGED <<file, identityFile, installed, given, reviewed, overlapped, typed>>

(* The settings do not load, or the command reports an error.              *)
Refused(p) ==
    /\ \/ proc[p].pc = "refresh" /\ ~Readable
       \/ proc[p].pc = "load" /\ ~(Readable /\ Permitted(proc[p].cmd, file))
    /\ Abandon(p)
    /\ UNCHANGED kills

(* It is killed, or a read, a write or a check that usually succeeds fails.*)
Dies(p) ==
    /\ kills < MaxKills
    /\ kills' = kills + 1
    /\ proc[p].pc # "idle"
    /\ Abandon(p)

Step(p) ==
    \/ Discover(p) \/ LoadForRefresh(p) \/ RefreshSave(p)
    \/ LoadForCommand(p) \/ SaveForCommand(p) \/ Refused(p)

Next ==
    \/ Upgrade
    \/ IdentityFileGoesOrReturns
    \/ \E p \in Procs :
         \/ \E cmd \in Command \cup {Prompt} : Start(p, cmd)
         \/ Step(p)
         \/ Dies(p)

(* Every terminal comes to a prompt again; a process that can run runs.    *)
Fairness == \A p \in Procs : WF_vars(Start(p, Prompt)) /\ WF_vars(Step(p))

Spec == Init /\ [][Next]_vars
FairSpec == Spec /\ Fairness

-----------------------------------------------------------------------------
(* Properties.                                                             *)

TypeOK ==
    /\ file \in Settings
    /\ identityFile \in BOOLEAN
    /\ installed \in Versions
    /\ proc \in [Procs ->
         [pc : {"idle", "discover", "refresh", "refreshSave", "load", "save"},
          cmd : Command \cup {Prompt}, seen : Versions, copy : Settings \cup {None}]]
    /\ stale \subseteq Procs
    /\ given \in [approval : Hashes \cup {None}, editor : Editors \cup {None},
                  tool : Tools \cup {None}, manual : BOOLEAN]
    /\ reviewed \subseteq Hashes
    /\ overlapped \in BOOLEAN
    /\ typed \in 0..MaxCommands
    /\ kills \in 0..MaxKills

Approves(s, policy) == Registered(s) /\ s.approval = Hash(policy, s.provider)

(* A provider is started for a policy only when the user approved that     *)
(* policy with that very executable: not after an upgrade, not when an     *)
(* older copy of the file came back, whatever saves overtook each other.   *)
OnlyReviewedRuns ==
    \A policy \in Policies :
        Approves(file, policy) /\ Verifies(file.provider) =>
            <<policy, file.provider.sum>> \in reviewed

(* As long as no save overtook another process's copy, all the user was    *)
(* told is done is in the file, however often a refresh, an upgrade or a   *)
(* killed command came in between: the approval and the editor are the     *)
(* last ones given, tool bindings survive a refresh and a new              *)
(* registration, and a manual registration is not replaced.                *)
KeptUnlessOverlapped ==
    ~overlapped =>
        /\ file.approval = given.approval
        /\ file.editor = given.editor
        /\ file.provider.tool = given.tool
        /\ given.manual <=> file.provider.source = "manual"

(* internal/app/provider_registry.go: tool bindings "must survive, or      *)
(* every upgrade would silently unbind SOPS".  A binding stays until the   *)
(* user binds another one or revokes the provider.                         *)
BindingSurvives == given.tool # None => file.provider.tool = given.tool

(* docs/getting-started.md: every invocation "creates or refreshes the     *)
(* local sops provider entry".  Once upgrades have ended the file pins     *)
(* the installed provider for good, whatever stale copies were saved in    *)
(* between, unless the entry is the user's own.                            *)
BundledFollows ==
    <>[](Readable /\ installed # 0) =>
        <>[](\/ file.provider.source \in {"manual", "foreign"}
             \/ file.provider.source = "bundled" /\ file.provider.sum = installed)
=============================================================================
