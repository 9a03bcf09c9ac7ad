-------------------------- MODULE GitLocalRegistry --------------------------
(***************************************************************************)
(* The commands that create scopes and announce them to linked worktrees:  *)
(* init (internal/cli/lifecycle.go) and scope git-local register,          *)
(* unregister and repair-owner (internal/scope/gitlocal.go).               *)
(*                                                                         *)
(* init writes four files one after the other and takes them back when a   *)
(* later step fails.  The registry and Git's info/exclude are shared by    *)
(* all worktrees; every command loads the whole file, changes its copy and *)
(* renames it over the old one, without a lock.  In between files come and *)
(* go by hand, by git and from backups, and the repository may be moved.   *)
(*                                                                         *)
(* The tool binding init makes first is part of SettingsFile; staging and  *)
(* encryption change nothing another process sees.                         *)
(***************************************************************************)
EXTENDS ScopeResolution

CONSTANTS
    Procs,        \* terminals, one command at a time in each
    MaxCommands,  \* bound on the commands typed
    MaxEvents     \* bound on scopes put or removed by hand, moves, kills
                  \* and failing system calls, all together

ASSUME BoundsAreNat == {MaxCommands, MaxEvents} \subseteq Nat

VARIABLES
    exclude,      \* directories whose four patterns info/exclude lists
    proc,         \* each terminal's command
    stale,        \* history: processes whose copy another save has overtaken
    overlapped,   \* history: files of which a stale copy was saved
    told,         \* history: what users were told is registered, and still is
    torn,         \* history: where an init stopped and left what it had made
    ours,         \* history: private scopes inside Git that init made
    typed, events

files == <<scope, registry, exclude>>
bounds == <<typed, events>>
history == <<stale, overlapped, told, torn, ours>>
vars == <<files, home, proc, history, bounds>>

(* In the order they are installed.                                        *)
Order == <<"recipients.yaml", ".sops.yaml", ".dotenv-sec.yaml", ".env.sops.yaml">>
Files == {Order[i] : i \in 1..4}
Directory == ".dotenv-sec"
Parts == Files \cup {Directory}

Registry == [owner : 0..MaxEvents, scopes : SUBSET Dirs]
ASSUME NoneIsFresh == None \notin Modes /\ None \notin Registry

ScopeFiles == [parts : SUBSET Parts, mode : Modes \cup {None}]
Nothing == [parts |-> {}, mode |-> None]
Whole(mode) == [parts |-> Parts, mode |-> mode]

Command == [op : {"init"}, mode : Modes, place : Places, dir : Dirs]
    \cup [op : {"register", "unregister"}, mode : {None}, place : Places, dir : Dirs]
    \cup [op : {"repair"}, mode : {None}, place : Places, dir : {<<>>}]
NoCommand == [op |-> "none", mode |-> None, place |-> None, dir |-> <<>>]

(* n: how many of the four files init has installed.  lines, copy: the     *)
(* content about to be saved as info/exclude, and as the registry.         *)
Idle == [pc |-> "idle", cmd |-> NoCommand, n |-> 0, lines |-> {}, copy |-> None]

NoScopes == [w \in Places |-> [d \in Dirs |-> Nothing]]

(* At first the worktrees hold at most one scope: tracked, copied or       *)
(* restored.                                                               *)
Init ==
    /\ \/ scope = NoScopes
       \/ \E w \in GitPlaces, d \in Dirs, mode \in Modes :
            scope = [NoScopes EXCEPT ![w][d] = Whole(mode)]
    /\ registry = None
    /\ home = 0
    /\ exclude = {}
    /\ proc = [p \in Procs |-> Idle]
    /\ stale = {} /\ overlapped = {} /\ told = {} /\ torn = {} /\ ours = {}
    /\ typed = 0 /\ events = 0

Cmd(p) == proc[p].cmd
Spot(p) == <<Cmd(p).place, Cmd(p).dir>>
Mode(p) == scope[Cmd(p).place][Cmd(p).dir].mode
Goto(p, pc) == proc' = [proc EXCEPT ![p].pc = pc]

(* init has made the directory and neither finished nor given up.          *)
Installing(p) == Cmd(p).op = "init" /\ proc[p].pc \in {"install", "load", "save"}

-----------------------------------------------------------------------------
(* The user, git and backups.                                              *)

PutFiles(w, d, mode) ==
    /\ events < MaxEvents
    /\ scope[w][d] = Nothing
    /\ scope' = [scope EXCEPT ![w][d] = Whole(mode)]
    /\ events' = events + 1
    /\ UNCHANGED <<registry, exclude, home, proc, history, typed>>

RemoveFiles(w, d) ==
    /\ events < MaxEvents
    /\ scope[w][d] # Nothing
    /\ \A p \in Procs : ~(Installing(p) /\ Spot(p) = <<w, d>>)
    /\ scope' = [scope EXCEPT ![w][d] = Nothing]
    /\ torn' = torn \ {<<w, d>>}
    /\ ours' = ours \ {<<w, d>>}
    /\ events' = events + 1
    /\ UNCHANGED <<registry, exclude, home, proc, stale, overlapped, told, typed>>

(* The repository moves with its Git directory, while no command runs.     *)
MoveMain ==
    /\ events < MaxEvents
    /\ \A p \in Procs : proc[p].pc = "idle"
    /\ home' = home + 1
    /\ events' = events + 1
    /\ UNCHANGED <<files, proc, history, typed>>

-----------------------------------------------------------------------------
(* A command.                                                              *)

Start(p, cmd) ==
    /\ typed < MaxCommands
    /\ proc[p].pc = "idle"
    /\ proc' = [proc EXCEPT ![p] = [Idle EXCEPT !.cmd = cmd, !.pc =
         CASE cmd.op = "init" -> "check"
           [] cmd.op = "register" -> "ignore"
           [] cmd.op \in {"unregister", "repair"} -> "load"]]
    /\ typed' = typed + 1
    /\ UNCHANGED <<files, home, history, events>>

End(p) == proc' = [proc EXCEPT ![p] = Idle]

(* init takes back what it installed, in order; the directory goes only    *)
(* when it is empty.                                                       *)
TakenBackButLast(p) == {Order[i] : i \in 1..(proc[p].n - 1)}
TakenBack(p) == {Order[i] : i \in 1..proc[p].n}

WithoutButMode(s, names) ==
    LET left == s.parts \ names
    IN [parts |-> IF "recipients.yaml" \in left THEN left ELSE left \ {Directory},
        mode |-> s.mode]
Without(s, names) ==
    LET left == s.parts \ names
    IN [parts |-> IF "recipients.yaml" \in left THEN left ELSE left \ {Directory},
        mode |-> IF ".dotenv-sec.yaml" \in left THEN s.mode ELSE None]

RemoveInitFiles(p) ==
    /\ scope' = [scope EXCEPT ![Cmd(p).place][Cmd(p).dir] = Without(@, TakenBack(p))]
    /\ ours' = ours \ {Spot(p)}

(* A command reports an error.                                             *)
GiveUp(p) ==
    /\ IF Installing(p) THEN RemoveInitFiles(p) ELSE UNCHANGED <<scope, ours>>
    /\ stale' = stale \ {p}
    /\ End(p)
    /\ UNCHANGED <<registry, exclude, home, overlapped, told, torn, typed>>

ModeAllowed(mode, w) ==
    CASE mode = "repository" -> w \in GitPlaces
      [] mode = "git-local" -> w = "main"
      [] mode = "local" -> TRUE

(* What init checks before it does anything: the mode suits the worktree,  *)
(* and none of its targets exists.                                         *)
TargetFree(p) ==
    ModeAllowed(Cmd(p).mode, Cmd(p).place) /\ scope[Cmd(p).place][Cmd(p).dir] = Nothing

Private(p) == Cmd(p).mode # "repository" /\ Cmd(p).place \in GitPlaces
AfterCheckUnignored(p) == "mkdir"
AfterCheck(p) == IF Private(p) THEN "ignore" ELSE "mkdir"

CheckTarget(p) ==
    /\ proc[p].pc = "check"
    /\ TargetFree(p)
    /\ Goto(p, AfterCheck(p))
    /\ UNCHANGED <<files, home, history, bounds>>

MayIgnore(p) ==
    /\ Cmd(p).place \in GitPlaces
    /\ Cmd(p).place = "linked" => Mode(p) # "git-local"

AfterIgnore(p) == IF Cmd(p).op = "init" THEN "mkdir" ELSE "load"

(* EnsureLocalIgnored: read info/exclude, add what is missing, rename.     *)
ReadExclude(p) ==
    /\ proc[p].pc = "ignore"
    /\ MayIgnore(p)
    /\ IF Cmd(p).dir \in exclude THEN Goto(p, AfterIgnore(p))
       ELSE proc' = [proc EXCEPT ![p].pc = "ignoreSave",
                                 ![p].lines = exclude \cup {Cmd(p).dir}]
    /\ stale' = stale \ {p}
    /\ UNCHANGED <<files, home, overlapped, told, torn, ours, bounds>>

(* Renaming a new file over the old one overtakes the other copies of it.  *)
Overtake(p, file, pc) ==
    /\ overlapped' = IF p \in stale THEN overlapped \cup {file} ELSE overlapped
    /\ stale' = (stale \ {p}) \cup {q \in Procs \ {p} : proc[q].pc = pc}

SaveExclude(p) ==
    /\ proc[p].pc = "ignoreSave"
    /\ exclude' = proc[p].lines
    /\ Overtake(p, "exclude", "ignoreSave")
    /\ proc' = [proc EXCEPT ![p].pc = AfterIgnore(p), ![p].lines = {}]
    /\ UNCHANGED <<scope, registry, home, told, torn, ours, bounds>>

(* installInitFiles: whoever makes the directory installs the files.       *)
MayMakeDirectoryAnyway(p) == TRUE
MayMakeDirectory(p) == Directory \notin scope[Cmd(p).place][Cmd(p).dir].parts

MakeDirectory(p) ==
    /\ proc[p].pc = "mkdir"
    /\ MayMakeDirectory(p)
    /\ scope' = [scope EXCEPT ![Cmd(p).place][Cmd(p).dir].parts = @ \cup {Directory}]
    /\ ours' = IF Private(p) THEN ours \cup {Spot(p)} ELSE ours
    /\ Goto(p, "install")
    /\ UNCHANGED <<registry, exclude, home, stale, overlapped, told, torn, bounds>>

WithFile(p, s, name) ==
    [parts |-> s.parts \cup {name},
     mode |-> IF name = ".dotenv-sec.yaml" THEN Cmd(p).mode ELSE s.mode]

InstallFile(p) ==
    LET n == proc[p].n + 1
    IN
    /\ proc[p].pc = "install"
    /\ scope' = [scope EXCEPT ![Cmd(p).place][Cmd(p).dir] = WithFile(p, @, Order[n])]
    /\ IF n < 4 THEN proc' = [proc EXCEPT ![p].n = n]
       ELSE IF Cmd(p).mode = "git-local" THEN proc' = [proc EXCEPT ![p].n = n, ![p].pc = "load"]
       ELSE End(p)
    /\ UNCHANGED <<registry, exclude, home, history, bounds>>

(* What RegisterGitLocal, UnregisterGitLocal and RepairGitLocalOwner check *)
(* on the registry they load.                                              *)
Permitted(p) ==
    /\ Cmd(p).place = "main"
    /\ CASE Cmd(p).op \in {"init", "register"} ->
              /\ Mode(p) = "git-local"
              /\ registry # None => registry.owner = home
         [] Cmd(p).op = "unregister" -> registry # None /\ registry.owner = home
         [] Cmd(p).op = "repair" ->
              /\ registry # None
              /\ \A d \in registry.scopes : scope["main"][d].mode = "git-local"

Registered == IF registry = None THEN {} ELSE registry.scopes

ChangedForgetful(p) == [owner |-> home, scopes |-> {Cmd(p).dir}]
Changed(p) ==
    [owner |-> home,
     scopes |-> CASE Cmd(p).op \in {"init", "register"} -> Registered \cup {Cmd(p).dir}
                  [] Cmd(p).op = "unregister" -> Registered \ {Cmd(p).dir}
                  [] Cmd(p).op = "repair" -> Registered]

(* What the user reads when the command ends well.                         *)
Told(p) ==
    CASE Cmd(p).op \in {"init", "register"} -> told \cup {Cmd(p).dir}
      [] Cmd(p).op = "unregister" -> told \ {Cmd(p).dir}
      [] Cmd(p).op = "repair" -> told

AlreadyThere(p) == Cmd(p).op \in {"init", "register"} /\ Cmd(p).dir \in Registered

LoadRegistry(p) ==
    /\ proc[p].pc = "load"
    /\ Permitted(p)
    /\ IF AlreadyThere(p)
       THEN End(p) /\ told' = Told(p)
       ELSE /\ proc' = [proc EXCEPT ![p].pc = "save", ![p].copy = Changed(p)]
            /\ UNCHANGED told
    /\ stale' = stale \ {p}
    /\ UNCHANGED <<files, home, overlapped, torn, ours, bounds>>

SaveRegistry(p) ==
    /\ proc[p].pc = "save"
    /\ registry' = proc[p].copy
    /\ Overtake(p, "registry", "save")
    /\ told' = Told(p)
    /\ End(p)
    /\ UNCHANGED <<scope, exclude, home, torn, ours, bounds>>

Refused(p) ==
    /\ \/ proc[p].pc = "check" /\ ~TargetFree(p)
       \/ proc[p].pc = "ignore" /\ ~MayIgnore(p)
       \/ proc[p].pc = "mkdir" /\ ~MayMakeDirectory(p)
       \/ proc[p].pc = "load" /\ ~Permitted(p)
    /\ GiveUp(p)
    /\ UNCHANGED events

(* A system call fails: the command reports it.                            *)
Fails(p) ==
    /\ events < MaxEvents
    /\ proc[p].pc # "idle"
    /\ events' = events + 1
    /\ GiveUp(p)

(* It is killed and takes nothing back.  Nor does an init that cannot      *)
(* finish its first file, whose temporary one keeps the directory.         *)
Killed(p) ==
    /\ events < MaxEvents
    /\ proc[p].pc # "idle"
    /\ events' = events + 1
    /\ torn' = IF Installing(p) THEN torn \cup {Spot(p)} ELSE torn
    /\ stale' = stale \ {p}
    /\ End(p)
    /\ UNCHANGED <<files, home, overlapped, told, ours, typed>>

Step(p) ==
    \/ CheckTarget(p) \/ ReadExclude(p) \/ SaveExclude(p) \/ MakeDirectory(p)
    \/ InstallFile(p) \/ LoadRegistry(p) \/ SaveRegistry(p) \/ Refused(p)

Next ==
    \/ MoveMain
    \/ \E w \in Places, d \in Dirs :
         RemoveFiles(w, d) \/ \E mode \in Modes : PutFiles(w, d, mode)
    \/ \E p \in Procs :
         (\E cmd \in Command : Start(p, cmd)) \/ Step(p) \/ Fails(p) \/ Killed(p)

Spec == Init /\ [][Next]_vars

-----------------------------------------------------------------------------
(* Properties.                                                             *)

TypeOK ==
    /\ scope \in [Places -> [Dirs -> ScopeFiles]]
    /\ \A w \in Places, d \in Dirs :
         scope[w][d].mode = None <=> ".dotenv-sec.yaml" \notin scope[w][d].parts
    /\ registry \in Registry \cup {None}
    /\ home \in 0..MaxEvents
    /\ exclude \subseteq Dirs
    /\ proc \in [Procs ->
         [pc : {"idle", "check", "ignore", "ignoreSave", "mkdir", "install", "load", "save"},
          cmd : Command \cup {NoCommand}, n : 0..4, lines : SUBSET Dirs,
          copy : Registry \cup {None}]]
    /\ stale \subseteq Procs
    /\ overlapped \subseteq {"exclude", "registry"}
    /\ told \subseteq Dirs
    /\ torn \subseteq Places \X Dirs
    /\ ours \subseteq Places \X Dirs
    /\ typed \in 0..MaxCommands /\ events \in 0..MaxEvents

(* docs/getting-started.md: "Initialization is transactional.  It creates  *)
(* all four files or none".  Where no init is at work, and none was killed *)
(* or could not finish its first file, a scope is whole or not there,      *)
(* whichever other step failed and however many terminals ran init there.  *)
AllOrNone ==
    \A w \in Places, d \in Dirs :
        \/ <<w, d>> \in torn
        \/ \E p \in Procs : Installing(p) /\ Spot(p) = <<w, d>>
        \/ scope[w][d] = Nothing
        \/ scope[w][d].parts = Parts /\ scope[w][d].mode # None

(* What a command reported as registered is registered, and what it        *)
(* reported as unregistered is not, through failures, kills and repairs of *)
(* the owner, unless a copy was saved that another save had overtaken.     *)
RegisteredAsTold == "registry" \in overlapped \/ Registered = told

(* A private scope's files never stand in a worktree without the exclude   *)
(* lines that keep git from picking them up, not even while init is still  *)
(* writing them, unless an overtaken copy of info/exclude was saved.       *)
PrivateIsIgnored ==
    "exclude" \in overlapped \/ \A spot \in ours : spot[2] \in exclude

(* docs/scope-modes.md: dotenvsec "compares the nearest physical scope in  *)
(* the active worktree with the nearest registered inherited Git-local     *)
(* scope and chooses the deeper relative path.  A physical scope wins at   *)
(* equal depth."                                                           *)
Competitors(w, d) ==
    {Found(w, p) : p \in {q \in Above[d] : scope[w][q].mode # None}}
    \cup (IF w # "linked" THEN {} ELSE {Found("main", p) : p \in Registered \cap Above[d]})

Beats(r, c) ==
    \/ Len(r.dir) > Len(c.dir)
    \/ Len(r.dir) = Len(c.dir) /\ c.place = "main"

(* The modes that the nearest registered scope has in the main worktree.   *)
SelectedMode(d) ==
    {scope["main"][p].mode : p \in Nearest(Registered \cap Above[d])}
Missing(w, d) == w = "linked" /\ None \in SelectedMode(d)

NearestOrNothing(w, d) ==
    LET r == Resolve(w, d)
    IN r.kind = "found" =>
         r \in Competitors(w, d) /\ \A c \in Competitors(w, d) \ {r} : Beats(r, c)

(* docs/threat-model.md: "An unavailable/moved Git-local owner, invalid    *)
(* shared registry [...] also fails closed", that is, "yields no new       *)
(* environment".  Whatever comes and goes, no directory gets the scope of  *)
(* a directory farther up instead of its own.                              *)
NearestScopeWins == \A w \in Places, d \in Dirs : NearestOrNothing(w, d)

(* The same wherever the selected inherited scope has its config; and then *)
(* a directory counts as not configured only when nothing applies to it.   *)
NearestScopeWinsUnlessMissing ==
    \A w \in Places, d \in Dirs :
        \/ Missing(w, d)
        \/ /\ NearestOrNothing(w, d)
           /\ Resolve(w, d).kind = "absent" => Competitors(w, d) = {}

(* docs/scope-modes.md: "Discovery never reads a tracked/local scope from  *)
(* another worktree".  What a linked worktree gets from the main one is    *)
(* git-local now, not when it was registered; and a git-local scope counts *)
(* nowhere unless it is registered by the worktree where it is stored.     *)
OnlyGitLocalIsShared ==
    \A w \in Places, d \in Dirs :
        LET r == Resolve(w, d)
        IN r.kind = "found" =>
             /\ r.place # w => scope[r.place][r.dir].mode = "git-local"
             /\ scope[r.place][r.dir].mode = "git-local" =>
                  r.place = "main" /\ r.dir \in Registered /\ registry.owner = home
=============================================================================
