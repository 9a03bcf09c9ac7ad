--------------------------- MODULE EncryptedSource --------------------------
(***************************************************************************)
(* One scope's encrypted source and the user's identity file, under the    *)
(* commands that decrypt: loads (activate, exec, shell), edit and rekey    *)
(* (internal/cli/lifecycle.go), in several terminals at once.              *)
(*                                                                         *)
(* Each asks first which YubiKeys are connected, merges them into the      *)
(* identity file and gives SOPS a temporary one (internal/app/             *)
(* identities.go, internal/identity/yubikey.go).  edit leaves SOPS alone   *)
(* with the source for as long as the editor is open; rekey decrypts it,   *)
(* encrypts it again for the manifest's recipients, tries the result and   *)
(* renames it over the source.  Nothing is locked.                         *)
(*                                                                         *)
(* A recipient and the identity that decrypts for it are one value.  The   *)
(* scope is approved whenever its manifest has changed (see Activation).   *)
(***************************************************************************)
EXTENDS Naturals, FiniteSets

CONSTANTS
    Procs,        \* terminals, one command at a time in each
    YubiKeys,     \* of the user
    AgeKeys,      \* the user's identities that are kept in the file itself
    Others,       \* recipients of other people
    Manifests,    \* sets of active recipients the manifest may come to list
    MaxCommands,  \* bound on the edit and rekey commands typed
    MaxEvents     \* bound on manifest changes, plugged keys, failures and kills

Mine == YubiKeys \cup AgeKeys
Recipients == Mine \cup Others

ASSUME BoundsAreNat == {MaxCommands, MaxEvents} \subseteq Nat
ASSUME KindsDiffer ==
    /\ YubiKeys \cap AgeKeys = {} /\ Others \cap Mine = {}
    /\ Manifests \subseteq SUBSET Recipients

VARIABLES
    source,       \* the source file: which text, encrypted for whom
    manifest,     \* the active recipients of recipients.yaml
    connected,    \* YubiKeys in the machine
    identities,   \* the consolidated identity file
    named,        \* settings.IdentityPaths names that file
    proc,         \* each terminal's command
    temporaries,  \* terminals whose command has a temporary identity file
    leftover,     \* such files, or unfinished ones, whose command is gone
    stale,        \* history: processes whose copy another write has overtaken
    overlapped,   \* history: files over which a stale copy was written
    told,         \* history: the text last saved, the recipients last rekeyed to
    enrolled,     \* history: identities users put in the file or saw enrolled
    typed, events

bounds == <<typed, events>>
history == <<stale, overlapped, told, enrolled>>
disk == <<source, identities, named, temporaries, leftover>>
vars == <<disk, manifest, connected, proc, history, bounds>>

Source == [text : 0..MaxCommands, keys : SUBSET Recipients]

Nothing == [text |-> 0, keys |-> {}]
Idle == [pc |-> "idle", op |-> "none", edit |-> 0, want |-> {}, found |-> {},
         merged |-> {}, save |-> FALSE, ownFile |-> FALSE, effective |-> {}, opened |-> Nothing]

Init ==
    /\ manifest \in {m \in Manifests : m \cap Mine # {}}
    /\ source = [text |-> 0, keys |-> manifest]
    /\ connected = YubiKeys
    /\ named \in BOOLEAN
    /\ identities = IF named THEN AgeKeys ELSE {}
    /\ proc = [p \in Procs |-> Idle]
    /\ temporaries = {} /\ leftover = FALSE
    /\ stale = {} /\ overlapped = {}
    /\ told = source
    /\ enrolled = identities
    /\ typed = 0 /\ events = 0

-----------------------------------------------------------------------------
(* The user.                                                               *)

(* The manifest is edited, .sops.yaml with it, and the scope approved.     *)
ChangeManifest ==
    /\ events < MaxEvents
    /\ manifest' \in Manifests \ {manifest}
    /\ events' = events + 1
    /\ UNCHANGED <<disk, connected, proc, history, typed>>

PlugOrUnplug ==
    /\ events < MaxEvents
    /\ \E k \in YubiKeys :
         connected' = IF k \in connected THEN connected \ {k} ELSE connected \cup {k}
    /\ events' = events + 1
    /\ UNCHANGED <<disk, manifest, proc, history, typed>>

-----------------------------------------------------------------------------
(* PrepareSOPSIdentities.                                                  *)

Goto(p, pc) == proc' = [proc EXCEPT ![p].pc = pc]

(* Without a YubiKey among the recipients SOPS gets the configured file.   *)
Start(p, op) ==
    LET want == manifest
    IN
    /\ proc[p].pc = "idle"
    /\ op # "load" => typed < MaxCommands
    /\ typed' = IF op = "load" THEN typed ELSE typed + 1
    /\ op = "rekey" => want # {}
    /\ proc' = [proc EXCEPT ![p] = [Idle EXCEPT
         !.op = op, !.want = want,
         !.pc = IF want \cap YubiKeys = {} THEN "work" ELSE "enumerate",
         !.edit = IF op = "edit" THEN typed' ELSE 0, !.save = ~named,
         !.ownFile = want \cap YubiKeys = {} /\ named]]
    /\ UNCHANGED <<disk, manifest, connected, history, events>>

(* The identities `age-plugin-yubikey -i` prints, of wanted recipients.    *)
WantedIdentities(p) == proc[p].want
ConnectedIdentities(p) == connected \cap proc[p].want

Enumerate(p) ==
    /\ proc[p].pc = "enumerate"
    /\ ConnectedIdentities(p) # {}
    /\ proc' = [proc EXCEPT ![p].found = ConnectedIdentities(p), ![p].pc = "read"]
    /\ UNCHANGED <<disk, manifest, connected, history, bounds>>

MergedOver(existing, found) == found
MergePersistent(existing, found) == existing \cup found

FileIsThere(merged) == identities # {}
NothingNew(merged) == merged = identities

ReadIdentities(p) ==
    LET merged == MergePersistent(identities, proc[p].found)
    IN
    /\ proc[p].pc = "read"
    /\ proc' = [proc EXCEPT ![p].merged = merged,
                            ![p].pc = IF NothingNew(merged) THEN "temporary" ELSE "write"]
    /\ stale' = stale \ {p}
    /\ UNCHANGED <<disk, manifest, connected, overlapped, told, enrolled, bounds>>

(* Writing the file over overtakes the copies others hold of it.           *)
Overtake(p, file, holders) ==
    /\ overlapped' = IF p \in stale THEN overlapped \cup {file} ELSE overlapped
    /\ stale' = (stale \ {p}) \cup {q \in Procs \ {p} : proc[q].pc \in holders}

WriteIdentities(p) ==
    /\ proc[p].pc = "write"
    /\ identities' = proc[p].merged
    /\ enrolled' = enrolled \cup proc[p].found
    /\ Overtake(p, "identities", {"write"})
    /\ proc' = [proc EXCEPT ![p].save = TRUE, ![p].pc = "temporary"]
    /\ UNCHANGED <<source, named, temporaries, leftover, manifest, connected, told, bounds>>

FilterEffective(merged, found) == (merged \ YubiKeys) \cup found

MakeTemporary(p) ==
    /\ proc[p].pc = "temporary"
    /\ temporaries' = temporaries \cup {p}
    /\ proc' = [proc EXCEPT
         ![p].effective = FilterEffective(proc[p].merged, proc[p].found),
         ![p].found = {}, ![p].merged = {}, ![p].save = FALSE,
         ![p].pc = IF proc[p].save THEN "settings" ELSE "work"]
    /\ UNCHANGED <<source, identities, named, leftover, manifest, connected, history, bounds>>

(* SaveSettings, where the settings did not name the file or it has        *)
(* changed (see SettingsFile).                                             *)
NameIdentities(p) ==
    /\ proc[p].pc = "settings"
    /\ named' = TRUE
    /\ Goto(p, "work")
    /\ UNCHANGED <<source, identities, temporaries, leftover, manifest, connected, history, bounds>>

-----------------------------------------------------------------------------
(* SOPS, and what the commands do with it.                                 *)

(* The command returns; its deferred cleanup runs.                         *)
CleanedUpNot(p) == temporaries
CleanedUp(p) == temporaries \ {p}
Return(p) ==
    /\ proc' = [proc EXCEPT ![p] = Idle]
    /\ temporaries' = CleanedUp(p)

(* What SOPS can decrypt with: a YubiKey's identity needs the key itself.  *)
Usable(p) ==
    (IF proc[p].ownFile THEN identities ELSE proc[p].effective)
        \cap (AgeKeys \cup connected)

Opens(p, keys) == keys \cap Usable(p) # {}

(* load: the provider decrypts and that is all.                            *)
Load(p) ==
    /\ proc[p].pc = "work" /\ proc[p].op = "load"
    /\ Opens(p, source.keys)
    /\ Return(p)
    /\ stale' = stale \ {p}
    /\ UNCHANGED <<source, identities, named, leftover, manifest, connected, overlapped, told,
                   enrolled, bounds>>

(* edit, rekey: the source is decrypted, to a file or to memory.           *)
Decrypt(p) ==
    /\ proc[p].pc = "work" /\ proc[p].op \in {"edit", "rekey"}
    /\ Opens(p, source.keys)
    /\ proc' = [proc EXCEPT ![p].opened = source,
         ![p].pc = IF proc[p].op = "edit" THEN "editing" ELSE "verify"]
    /\ stale' = stale \ {p}
    /\ UNCHANGED <<disk, manifest, connected, overlapped, told, enrolled, bounds>>

WriteSource(p, text, keys) ==
    /\ source' = [text |-> text, keys |-> keys]
    /\ Overtake(p, "source", {"editing", "verify", "rename"})

(* SOPS writes the edited text for the recipients the opened file had.     *)
SaveEdit(p) ==
    /\ proc[p].pc = "editing"
    /\ WriteSource(p, proc[p].edit, proc[p].opened.keys)
    /\ told' = [told EXCEPT !.text = proc[p].edit]
    /\ Return(p)
    /\ UNCHANGED <<identities, named, leftover, manifest, connected, enrolled, bounds>>

(* The editor is left without a change.                                    *)
QuitEditor(p) ==
    /\ proc[p].pc = "editing"
    /\ Return(p)
    /\ stale' = stale \ {p}
    /\ UNCHANGED <<source, identities, named, leftover, manifest, connected, overlapped, told,
                   enrolled, bounds>>

VerifiesAlways(p) == TRUE
Verifies(p) == Opens(p, proc[p].want)

Verify(p) ==
    /\ proc[p].pc = "verify"
    /\ Verifies(p)
    /\ Goto(p, "rename")
    /\ UNCHANGED <<disk, manifest, connected, history, bounds>>

RecipientsAsBefore(p) == proc[p].opened.keys
RecipientsNow(p) == proc[p].want

Replace(p) ==
    /\ proc[p].pc = "rename"
    /\ WriteSource(p, proc[p].opened.text, RecipientsNow(p))
    /\ told' = [told EXCEPT !.keys = proc[p].want]
    /\ Return(p)
    /\ UNCHANGED <<identities, named, leftover, manifest, connected, enrolled, bounds>>

GiveUp(p) ==
    /\ Return(p)
    /\ stale' = stale \ {p}
    /\ UNCHANGED <<source, identities, named, manifest, connected, overlapped, told,
                   enrolled, typed>>

Refused(p) ==
    /\ \/ proc[p].pc = "enumerate" /\ ConnectedIdentities(p) = {}
       \/ proc[p].pc = "work" /\ ~Opens(p, source.keys)
       \/ proc[p].pc = "verify" /\ ~Verifies(p)
    /\ GiveUp(p)
    /\ UNCHANGED <<leftover, events>>

(* A file being written for the identities when the command stops stays:   *)
(* writePrivateTemp does not remove what it could not finish.              *)
Unfinished(p) == {leftover, leftover \/ proc[p].pc \in {"write", "temporary"}}

(* The plugin or SOPS fails or takes too long, or a file cannot be written.*)
Fails(p) ==
    /\ events < MaxEvents
    /\ proc[p].pc # "idle"
    /\ events' = events + 1
    /\ GiveUp(p)
    /\ leftover' \in Unfinished(p)

(* Ctrl-C or another signal: no deferred function runs.                    *)
Killed(p) ==
    /\ events < MaxEvents
    /\ proc[p].pc # "idle"
    /\ events' = events + 1
    /\ proc' = [proc EXCEPT ![p] = Idle]
    /\ IF p \in temporaries THEN leftover' = TRUE ELSE leftover' \in Unfinished(p)
    /\ temporaries' = temporaries \ {p}
    /\ stale' = stale \ {p}
    /\ UNCHANGED <<source, identities, named, manifest, connected, overlapped, told, enrolled, typed>>

Step(p) ==
    \/ Enumerate(p) \/ ReadIdentities(p) \/ WriteIdentities(p) \/ MakeTemporary(p)
    \/ NameIdentities(p) \/ Load(p) \/ Decrypt(p) \/ SaveEdit(p) \/ QuitEditor(p)
    \/ Verify(p) \/ Replace(p) \/ Refused(p)

Next ==
    \/ ChangeManifest \/ PlugOrUnplug
    \/ \E p \in Procs :
         (\E op \in {"load", "edit", "rekey"} : Start(p, op))
         \/ Step(p) \/ Fails(p) \/ Killed(p)

(* In every terminal a load comes again and again that neither a marker nor*)
(* the cache answers (a new shell, an exec); a process that can run runs,  *)
(* and the user leaves the editor some time.                               *)
Fairness == \A p \in Procs : WF_vars(Start(p, "load")) /\ WF_vars(Step(p))

Spec == Init /\ [][Next]_vars
FairSpec == Spec /\ Fairness

-----------------------------------------------------------------------------
(* Properties.                                                             *)

TypeOK ==
    /\ source \in Source
    /\ manifest \in Manifests
    /\ connected \subseteq YubiKeys
    /\ identities \subseteq Mine
    /\ named \in BOOLEAN
    /\ proc \in [Procs ->
         [pc : {"idle", "enumerate", "read", "write", "temporary", "settings", "work",
                "editing", "verify", "rename"},
          op : {"none", "load", "edit", "rekey"}, edit : 0..MaxCommands,
          want : SUBSET Recipients, found : SUBSET YubiKeys, merged : SUBSET Mine,
          save : BOOLEAN, ownFile : BOOLEAN, effective : SUBSET Mine, opened : Source]]
    /\ temporaries \subseteq Procs /\ leftover \in BOOLEAN
    /\ stale \subseteq Procs
    /\ overlapped \subseteq {"source", "identities"}
    /\ told \in Source
    /\ enrolled \subseteq Mine
    /\ typed \in 0..MaxCommands /\ events \in 0..MaxEvents

(* The source holds the text last saved, for the recipients last rekeyed   *)
(* to, unless someone wrote over it what he had opened before another      *)
(* write.  A rekey that fails or is killed at any step changes nothing.    *)
SourceAsTold == "source" \in overlapped \/ source = told

(* docs/recovery.md: "Mark the old recipient revoked [...] Rekey again,    *)
(* confirm the old device cannot decrypt".  Once rekey has succeeded the   *)
(* source is for nobody else.                                              *)
RevokedStaysOut == source.keys \subseteq told.keys

(* The user can always decrypt with one of his identities: rekey tries     *)
(* them on the replacement before it takes the source's place, whatever    *)
(* the manifest says and whichever keys come and go.                       *)
NotLockedOut == source.keys \cap Mine # {}

(* An identity that was enrolled, or that the user put there, stays in the *)
(* file unless a copy was written that another write had overtaken; and    *)
(* the identities that are not YubiKeys stay whoever writes.               *)
IdentitiesKept ==
    /\ "identities" \notin overlapped => enrolled \subseteq identities
    /\ enrolled \cap AgeKeys \subseteq identities

(* docs/getting-started.md: "Deletes the temporary file immediately after  *)
(* SOPS exits".  On every way a command may end but a kill, whatever was   *)
(* refused or failed, the file SOPS was given is gone.                     *)
TemporaryDeletedUnlessKilled ==
    \A p \in Procs : proc[p].pc = "idle" => p \notin temporaries

(* A YubiKey that stays connected and a recipient is enrolled for good by  *)
(* the loads that follow, whatever overtaken copies were written before.   *)
Enrols ==
    \A k \in YubiKeys :
        <>[](k \in connected \cap manifest) => <>[](k \in identities /\ named)
=============================================================================
