----------------------- MODULE GitLocalRegistryProofs -----------------------
(***************************************************************************)
(* For every set of directories and terminals: a scope is whole or not     *)
(* there, unless its init was killed; private scopes are ignored before    *)
(* they exist; the registry is as users were told, unless commands saved   *)
(* over one another; and only git-local scopes, registered where they are  *)
(* stored, reach another worktree.                                         *)
(***************************************************************************)
EXTENDS GitLocalRegistry, TLAPS, WellFoundedInduction

(* The files of one directory, and the state of one process, with what the *)
(* types do not say: that a config file comes with its mode, and which     *)
(* commands come to which step with what in hand.                          *)
Coherent == {f \in ScopeFiles : f.mode = None <=> ".dotenv-sec.yaml" \notin f.parts}

ProcState ==
    [pc : {"idle", "check", "ignore", "ignoreSave", "mkdir", "install", "load", "save"},
     cmd : Command \cup {NoCommand}, n : 0..4, lines : SUBSET Dirs,
     copy : Registry \cup {None}]

WellFormed(s) ==
    /\ s.pc # "idle" => s.cmd \in Command
    /\ s.pc \in {"check", "mkdir", "install"} => s.cmd.op = "init"
    /\ s.pc \in {"ignore", "ignoreSave"} => s.cmd.op \in {"init", "register"}
    /\ s.pc \in {"check", "ignore", "ignoreSave", "mkdir"} => s.n = 0
    /\ s.pc = "install" => s.n < 4
    /\ s.pc \in {"load", "save"} /\ s.cmd.op = "init" => s.n = 4
    /\ s.pc = "save" => s.copy \in Registry

ProcOK == {s \in ProcState : WellFormed(s)}

TypeInv ==
    /\ TypeOK
    /\ scope \in [Places -> [Dirs -> Coherent]]
    /\ proc \in [Procs -> ProcOK]
    /\ home <= events

Becomes(p, s) == proc' = [proc EXCEPT ![p] = s]

LEMMA CommandFacts ==
  ASSUME NEW c \in Command
  PROVE  /\ c.op \in {"init", "register", "unregister", "repair"}
         /\ c.place \in Places
         /\ c.op # "repair" => c.dir \in Dirs
         /\ c.op = "init" => c.mode \in Modes
  BY DEF Command

LEMMA IdleOK == Idle \in ProcOK
  BY DEF Idle, ProcOK, ProcState, WellFormed

LEMMA ProcStays ==
  ASSUME TypeInv, NEW p \in Procs, NEW s \in ProcOK, Becomes(p, s)
  PROVE  /\ proc' \in [Procs -> ProcOK]
         /\ proc'[p] = s
         /\ \A q \in Procs \ {p} : proc'[q] = proc[q]
  BY DEF TypeInv, Becomes

LEMMA EndStays ==
  ASSUME TypeInv, NEW p \in Procs, End(p)
  PROVE  /\ proc' \in [Procs -> ProcOK]
         /\ proc'[p] = Idle
         /\ \A q \in Procs \ {p} : proc'[q] = proc[q]
  BY IdleOK, ProcStays DEF End, Becomes

LEMMA ScopeStays ==
  ASSUME TypeInv, NEW w \in Places, NEW d \in Dirs, NEW f \in Coherent,
         scope' = [scope EXCEPT ![w][d] = f]
  PROVE  /\ scope' \in [Places -> [Dirs -> Coherent]]
         /\ scope'[w][d] = f
         /\ \A v \in Places, e \in Dirs : <<v, e>> # <<w, d>> => scope'[v][e] = scope[v][e]
  BY DEF TypeInv

(* An init at work: its directory, and what it may make of it.             *)
LEMMA InitFacts ==
  ASSUME TypeInv, NEW p \in Procs, Cmd(p).op = "init"
  PROVE  /\ Cmd(p).place \in Places /\ Cmd(p).dir \in Dirs /\ Cmd(p).mode \in Modes
         /\ Spot(p) \in Places \X Dirs
         /\ scope[Cmd(p).place][Cmd(p).dir] \in Coherent
<1>1. Cmd(p) \in Command
  BY DEF TypeInv, ProcOK, ProcState, Cmd, NoCommand
<1>2. Cmd(p).place \in Places /\ Cmd(p).dir \in Dirs /\ Cmd(p).mode \in Modes
  BY <1>1, CommandFacts
<1> QED
  BY <1>2 DEF Spot, TypeInv

LEMMA NothingCoherent == Nothing \in Coherent
  BY DEF Nothing, Coherent, ScopeFiles

LEMMA WholeCoherent ==
  ASSUME NEW mode \in Modes
  PROVE  Whole(mode) \in Coherent
  BY NoneIsFresh DEF Whole, Coherent, ScopeFiles, Parts, Files, Order

LEMMA WithoutCoherent ==
  ASSUME NEW f \in Coherent, NEW names
  PROVE  Without(f, names) \in Coherent
<1> DEFINE left == f.parts \ names
<1>1. left \subseteq Parts /\ f.mode \in Modes \cup {None}
  BY DEF Coherent, ScopeFiles
<1>2. CASE "recipients.yaml" \in left
  BY <1>1, <1>2 DEF Without, Coherent, ScopeFiles
<1>3. CASE "recipients.yaml" \notin left
  BY <1>1, <1>3 DEF Without, Coherent, ScopeFiles, Directory
<1> QED
  BY <1>2, <1>3

LEMMA WithFileCoherent ==
  ASSUME NEW p, Cmd(p).mode \in Modes, NEW f \in Coherent, NEW n \in 1..4
  PROVE  WithFile(p, f, Order[n]) \in Coherent
<1>1. Order[n] \in Parts
  BY DEF Parts, Files
<1> QED
  BY <1>1, NoneIsFresh DEF WithFile, Coherent, ScopeFiles

LEMMA DirectoryCoherent ==
  ASSUME NEW f \in Coherent
  PROVE  [f EXCEPT !.parts = @ \cup {Directory}] \in Coherent
  BY DEF Coherent, ScopeFiles, Parts, Directory

LEMMA OvertakeTyped ==
  ASSUME TypeOK, NEW p \in Procs, NEW file \in {"exclude", "registry"}, NEW pc,
         Overtake(p, file, pc)
  PROVE  stale' \subseteq Procs /\ overlapped' \subseteq {"exclude", "registry"}
  BY DEF Overtake, TypeOK
-----------------------------------------------------------------------------
(* Types.                                                                  *)

LEMMA TypeInit == Init => TypeInv
<1> SUFFICES ASSUME Init PROVE TypeInv
  OBVIOUS
<1>1. scope \in [Places -> [Dirs -> Coherent]]
  <2>1. CASE scope = NoScopes
    BY <2>1, NothingCoherent DEF NoScopes
  <2>2. CASE \E w \in GitPlaces, d \in Dirs, mode \in Modes :
               scope = [NoScopes EXCEPT ![w][d] = Whole(mode)]
    BY <2>2, NothingCoherent, WholeCoherent DEF NoScopes, GitPlaces, Places
  <2> QED
    BY <2>1, <2>2 DEF Init
<1>2. proc \in [Procs -> ProcOK] /\ proc \in [Procs -> ProcState]
  BY IdleOK DEF Init, ProcOK
<1>3. TypeOK
  BY <1>1, <1>2, BoundsAreNat DEF Init, TypeOK, Coherent, ProcState
<1>4. home <= events
  BY DEF Init
<1> QED
  BY <1>1, <1>2, <1>3, <1>4 DEF TypeInv

(* What each step makes of its process.                                    *)
Moves(p) == proc' \in [Procs -> ProcOK] /\ \A q \in Procs \ {p} : proc'[q] = proc[q]

LEMMA MovesIfTyped ==
  ASSUME TypeInv, NEW p \in Procs, NEW s \in ProcOK, Becomes(p, s)
  PROVE  Moves(p)
  BY ProcStays DEF Moves

LEMMA EndMoves ==
  ASSUME TypeInv, NEW p \in Procs, End(p)
  PROVE  Moves(p)
  BY EndStays DEF Moves

LEMMA StartMoves ==
  ASSUME TypeInv, NEW p \in Procs, NEW cmd \in Command, Start(p, cmd)
  PROVE  Moves(p) /\ typed' \in 0..MaxCommands
<1> DEFINE pc == CASE cmd.op = "init" -> "check"
                   [] cmd.op = "register" -> "ignore"
                   [] cmd.op \in {"unregister", "repair"} -> "load"
           s == [Idle EXCEPT !.cmd = cmd, !.pc = pc]
<1>1. /\ cmd.op = "init" => pc = "check"
      /\ cmd.op = "register" => pc = "ignore"
      /\ cmd.op \in {"unregister", "repair"} => pc = "load"
  OBVIOUS
<1>2. s \in ProcOK
  <2>1. cmd.op \in {"init", "register", "unregister", "repair"}
    BY CommandFacts
  <2> HIDE DEF pc
  <2>2. pc \in {"check", "ignore", "load"} /\ (pc = "load" => cmd.op # "init")
          /\ (pc = "check" => cmd.op = "init") /\ (pc = "ignore" => cmd.op = "register")
    BY <1>1, <2>1
  <2> QED
    BY <2>2, IdleOK DEF Idle, ProcOK, ProcState, WellFormed
<1>3. Becomes(p, s)
  BY DEF Start, Becomes
<1>4. typed' \in 0..MaxCommands
  BY BoundsAreNat DEF Start, TypeInv, TypeOK
<1> HIDE DEF s
<1> QED
  BY <1>2, <1>3, <1>4, MovesIfTyped

LEMMA CheckMoves ==
  ASSUME TypeInv, NEW p \in Procs, CheckTarget(p)
  PROVE  Moves(p)
<1>1. AfterCheck(p) \in {"ignore", "mkdir"}
  BY DEF AfterCheck
<1>2. [proc[p] EXCEPT !.pc = AfterCheck(p)] \in ProcOK
  BY <1>1 DEF CheckTarget, TypeInv, ProcOK, ProcState, WellFormed
<1>3. Becomes(p, [proc[p] EXCEPT !.pc = AfterCheck(p)])
  BY DEF CheckTarget, Goto, Becomes, TypeInv
<1> QED
  BY <1>2, <1>3, MovesIfTyped

LEMMA AfterIgnoreOK ==
  ASSUME TypeInv, NEW p \in Procs, proc[p].pc \in {"ignore", "ignoreSave"},
         NEW lines \in SUBSET Dirs
  PROVE  [proc[p] EXCEPT !.pc = AfterIgnore(p), !.lines = lines] \in ProcOK
<1>1. proc[p] \in ProcState /\ proc[p].n = 0 /\ Cmd(p) \in Command
  BY DEF TypeInv, ProcOK, WellFormed, Cmd
<1>2. CASE Cmd(p).op = "init"
  BY <1>1, <1>2 DEF AfterIgnore, ProcOK, ProcState, WellFormed, Cmd
<1>3. CASE Cmd(p).op # "init"
  BY <1>1, <1>3 DEF AfterIgnore, ProcOK, ProcState, WellFormed, Cmd
<1> QED
  BY <1>2, <1>3

LEMMA ReadExcludeMoves ==
  ASSUME TypeInv, NEW p \in Procs, ReadExclude(p)
  PROVE  /\ Moves(p)
         /\ \/ proc'[p] = [proc[p] EXCEPT !.pc = AfterIgnore(p)] /\ Cmd(p).dir \in exclude
            \/ proc'[p] = [proc[p] EXCEPT !.pc = "ignoreSave",
                                          !.lines = exclude \cup {Cmd(p).dir}]
<1>0. proc[p] \in ProcState /\ WellFormed(proc[p])
  BY DEF TypeInv, ProcOK
<1>1. CASE Cmd(p).dir \in exclude
  <2>1. Becomes(p, [proc[p] EXCEPT !.pc = AfterIgnore(p)])
    BY <1>1 DEF ReadExclude, Goto, Becomes, TypeInv
  <2>2. [proc[p] EXCEPT !.pc = AfterIgnore(p), !.lines = proc[p].lines] \in ProcOK
    BY <1>0, AfterIgnoreOK DEF ReadExclude, ProcState
  <2>3. [proc[p] EXCEPT !.pc = AfterIgnore(p), !.lines = proc[p].lines]
          = [proc[p] EXCEPT !.pc = AfterIgnore(p)]
    BY <1>0 DEF ProcState
  <2> QED
    BY <1>1, <2>1, <2>2, <2>3, ProcStays DEF Moves
<1>2. CASE Cmd(p).dir \notin exclude
  <2>1. Becomes(p, [proc[p] EXCEPT !.pc = "ignoreSave", !.lines = exclude \cup {Cmd(p).dir}])
    BY <1>2 DEF ReadExclude, Becomes, TypeInv
  <2>2. proc[p].pc = "ignore" /\ Cmd(p) \in Command
    BY <1>0 DEF ReadExclude, WellFormed, Cmd
  <2>3. exclude \cup {Cmd(p).dir} \subseteq Dirs
    BY <1>0, <2>2, CommandFacts DEF WellFormed, Cmd, TypeInv, TypeOK
  <2>4. [proc[p] EXCEPT !.pc = "ignoreSave", !.lines = exclude \cup {Cmd(p).dir}] \in ProcOK
    BY <1>0, <2>2, <2>3 DEF ProcOK, ProcState, WellFormed, Cmd
  <2> QED
    BY <2>1, <2>4, ProcStays DEF Moves
<1> QED
  BY <1>1, <1>2

LEMMA SaveExcludeMoves ==
  ASSUME TypeInv, NEW p \in Procs, SaveExclude(p)
  PROVE  /\ Moves(p)
         /\ proc'[p] = [proc[p] EXCEPT !.pc = AfterIgnore(p), !.lines = {}]
<1>1. [proc[p] EXCEPT !.pc = AfterIgnore(p), !.lines = {}] \in ProcOK
  BY AfterIgnoreOK DEF SaveExclude
<1>2. Becomes(p, [proc[p] EXCEPT !.pc = AfterIgnore(p), !.lines = {}])
  BY DEF SaveExclude, Becomes, TypeInv
<1> QED
  BY <1>1, <1>2, ProcStays DEF Moves

LEMMA MakeDirectoryMoves ==
  ASSUME TypeInv, NEW p \in Procs, MakeDirectory(p)
  PROVE  Moves(p) /\ proc'[p] = [proc[p] EXCEPT !.pc = "install"]
<1>1. [proc[p] EXCEPT !.pc = "install"] \in ProcOK
  BY DEF MakeDirectory, TypeInv, ProcOK, ProcState, WellFormed
<1>2. Becomes(p, [proc[p] EXCEPT !.pc = "install"])
  BY DEF MakeDirectory, Goto, Becomes, TypeInv
<1> QED
  BY <1>1, <1>2, ProcStays DEF Moves

LEMMA InstallMoves ==
  ASSUME TypeInv, NEW p \in Procs, InstallFile(p)
  PROVE  /\ Moves(p)
         /\ \/ proc'[p] = [proc[p] EXCEPT !.n = proc[p].n + 1] /\ proc[p].n + 1 < 4
            \/ /\ proc'[p] = [proc[p] EXCEPT !.n = proc[p].n + 1, !.pc = "load"]
               /\ proc[p].n + 1 = 4
            \/ proc'[p] = Idle /\ proc[p].n + 1 = 4
<1> DEFINE n == proc[p].n + 1
<1>0. /\ proc[p] \in ProcState /\ WellFormed(proc[p])
      /\ proc[p].pc = "install" /\ proc[p].cmd.op = "init" /\ n \in 1..4
  BY DEF InstallFile, TypeInv, ProcOK, ProcState, WellFormed
<1>1. CASE n < 4
  <2>1. [proc[p] EXCEPT !.n = n] \in ProcOK
    BY <1>0, <1>1 DEF ProcOK, ProcState, WellFormed
  <2>2. Becomes(p, [proc[p] EXCEPT !.n = n])
    BY <1>1 DEF InstallFile, Becomes, TypeInv
  <2> QED
    BY <1>1, <2>1, <2>2, ProcStays DEF Moves
<1>2. CASE n = 4 /\ Cmd(p).mode = "git-local"
  <2>1. [proc[p] EXCEPT !.n = 4, !.pc = "load"] \in ProcOK
    <3>1. proc[p].cmd \in Command
      BY <1>0 DEF WellFormed
    <3>2. [proc[p] EXCEPT !.n = 4, !.pc = "load"] \in ProcState
      <4>1. proc[p] \in ProcState /\ 4 \in 0..4
        BY <1>0
      <4> QED
        BY <4>1, Zenon DEF ProcState
    <3>3. WellFormed([proc[p] EXCEPT !.n = 4, !.pc = "load"])
      BY <1>0, <3>1 DEF ProcState, WellFormed
    <3> QED
      BY <3>2, <3>3 DEF ProcOK
  <2>2. proc' = [proc EXCEPT ![p].n = n, ![p].pc = "load"]
    BY <1>2 DEF InstallFile
  <2>3. Becomes(p, [proc[p] EXCEPT !.n = 4, !.pc = "load"])
    BY <1>2, <2>2 DEF Becomes, TypeInv
  <2> QED
    BY <1>2, <2>1, <2>3, ProcStays DEF Moves
<1>3. CASE n = 4 /\ Cmd(p).mode # "git-local"
  BY <1>3, EndStays DEF InstallFile, Moves
<1> QED
  BY <1>0, <1>1, <1>2, <1>3

LEMMA RegistryTyped ==
  ASSUME TypeInv, NEW p \in Procs, proc[p].pc \in {"load", "save"}
  PROVE  /\ Cmd(p).op \in {"init", "register", "unregister", "repair"}
         /\ Registered \subseteq Dirs
         /\ Changed(p) \in Registry
         /\ Told(p) \subseteq Dirs
<1>1. Cmd(p) \in Command
  BY DEF TypeInv, ProcOK, WellFormed, Cmd
<1>2. Registered \subseteq Dirs /\ home \in 0..MaxEvents /\ told \subseteq Dirs
  BY DEF Registered, TypeInv, TypeOK, Registry
<1> QED
  BY <1>1, <1>2, CommandFacts DEF Changed, Registry, Told

LEMMA LoadMoves ==
  ASSUME TypeInv, NEW p \in Procs, LoadRegistry(p)
  PROVE  /\ Moves(p)
         /\ \/ proc'[p] = Idle
            \/ proc'[p] = [proc[p] EXCEPT !.pc = "save", !.copy = Changed(p)]
<1>1. CASE AlreadyThere(p)
  BY <1>1, EndStays DEF LoadRegistry, Moves
<1>2. CASE ~AlreadyThere(p)
  <2>1. [proc[p] EXCEPT !.pc = "save", !.copy = Changed(p)] \in ProcOK
    BY RegistryTyped DEF LoadRegistry, TypeInv, ProcOK, ProcState, WellFormed
  <2>2. Becomes(p, [proc[p] EXCEPT !.pc = "save", !.copy = Changed(p)])
    BY <1>2 DEF LoadRegistry, Becomes, TypeInv
  <2> QED
    BY <2>1, <2>2, ProcStays DEF Moves
<1> QED
  BY <1>1, <1>2

(* What init may make of its directory.                                    *)
LEMMA RemoveTyped ==
  ASSUME TypeInv, NEW p \in Procs, Cmd(p).op = "init", RemoveInitFiles(p)
  PROVE  /\ scope' \in [Places -> [Dirs -> Coherent]]
         /\ ours' = ours \ {Spot(p)}
<1> DEFINE w == Cmd(p).place
           d == Cmd(p).dir
<1>1. Without(scope[w][d], TakenBack(p)) \in Coherent
  BY InitFacts, WithoutCoherent
<1>2. scope' = [scope EXCEPT ![w][d] = Without(scope[w][d], TakenBack(p))]
  BY DEF RemoveInitFiles
<1> QED
  BY <1>1, <1>2, InitFacts, ScopeStays DEF RemoveInitFiles

LEMMA TypeNext == TypeInv /\ [Next]_vars => TypeInv'
<1> SUFFICES ASSUME TypeInv, [Next]_vars PROVE TypeInv'
  OBVIOUS
<1> USE DEF files, history, bounds
<1>0. ASSUME scope' \in [Places -> [Dirs -> Coherent]],
             proc' \in [Procs -> ProcOK],
             registry' \in Registry \cup {None}, home' \in 0..MaxEvents, exclude' \subseteq Dirs,
             stale' \subseteq Procs, overlapped' \subseteq {"exclude", "registry"},
             told' \subseteq Dirs, torn' \subseteq Places \X Dirs, ours' \subseteq Places \X Dirs,
             typed' \in 0..MaxCommands, events' \in 0..MaxEvents,
             home' <= events'
      PROVE TypeInv'
  <2>1. proc' \in [Procs -> ProcState]
    BY <1>0 DEF ProcOK
  <2>2. /\ scope' \in [Places -> [Dirs -> ScopeFiles]]
        /\ \A w \in Places, d \in Dirs :
             scope'[w][d].mode = None <=> ".dotenv-sec.yaml" \notin scope'[w][d].parts
    BY <1>0 DEF Coherent
  <2> QED
    BY <1>0, <2>1, <2>2 DEF TypeInv, TypeOK, ProcState
<1>a. /\ registry \in Registry \cup {None} /\ home \in 0..MaxEvents /\ exclude \subseteq Dirs
      /\ stale \subseteq Procs /\ overlapped \subseteq {"exclude", "registry"}
      /\ told \subseteq Dirs /\ torn \subseteq Places \X Dirs /\ ours \subseteq Places \X Dirs
      /\ typed \in 0..MaxCommands /\ events \in 0..MaxEvents
      /\ home <= events
      /\ scope \in [Places -> [Dirs -> Coherent]]
      /\ proc \in [Procs -> ProcOK]
  BY DEF TypeInv, TypeOK
<1>1. ASSUME NEW w \in Places, NEW d \in Dirs, NEW mode \in Modes, PutFiles(w, d, mode)
      PROVE TypeInv'
  <2>1. scope' \in [Places -> [Dirs -> Coherent]]
    BY <1>1, WholeCoherent, ScopeStays DEF PutFiles
  <2>2. events' \in 0..MaxEvents /\ home' <= events'
    BY <1>1, <1>a, BoundsAreNat DEF PutFiles
  <2> QED
    BY <1>0, <1>1, <1>a, <2>1, <2>2 DEF PutFiles
<1>2. ASSUME NEW w \in Places, NEW d \in Dirs, RemoveFiles(w, d) PROVE TypeInv'
  <2>1. scope' \in [Places -> [Dirs -> Coherent]]
    BY <1>2, NothingCoherent, ScopeStays DEF RemoveFiles
  <2>2. events' \in 0..MaxEvents /\ home' <= events'
    BY <1>2, <1>a, BoundsAreNat DEF RemoveFiles
  <2> QED
    BY <1>0, <1>2, <1>a, <2>1, <2>2 DEF RemoveFiles
<1>3. CASE MoveMain
  <2>1. events' \in 0..MaxEvents /\ home' \in 0..MaxEvents /\ home' <= events'
    BY <1>3, <1>a, BoundsAreNat DEF MoveMain
  <2> QED
    BY <1>0, <1>3, <1>a, <2>1 DEF MoveMain
<1>4. ASSUME NEW p \in Procs, NEW cmd \in Command, Start(p, cmd) PROVE TypeInv'
  <2>1. Moves(p) /\ typed' \in 0..MaxCommands
    BY <1>4, StartMoves
  <2>2. UNCHANGED <<files, home, history, events>>
    BY <1>4 DEF Start
  <2> QED
    BY <1>0, <1>a, <2>1, <2>2 DEF Moves
<1>5. ASSUME NEW p \in Procs, CheckTarget(p) PROVE TypeInv'
  BY <1>0, <1>5, <1>a, CheckMoves DEF CheckTarget, Moves
<1>6. ASSUME NEW p \in Procs, ReadExclude(p) PROVE TypeInv'
  BY <1>0, <1>6, <1>a, ReadExcludeMoves DEF ReadExclude, Moves
<1>7. ASSUME NEW p \in Procs, SaveExclude(p) PROVE TypeInv'
  <2>1. exclude' \subseteq Dirs
    BY <1>7 DEF SaveExclude, TypeInv, TypeOK
  <2>2. stale' \subseteq Procs /\ overlapped' \subseteq {"exclude", "registry"}
    BY <1>7, OvertakeTyped DEF SaveExclude, TypeInv
  <2>3. Moves(p) /\ UNCHANGED <<scope, registry, home, told, torn, ours, bounds>>
    BY <1>7, SaveExcludeMoves DEF SaveExclude
  <2> QED
    BY <1>0, <1>a, <2>1, <2>2, <2>3 DEF Moves
<1>8. ASSUME NEW p \in Procs, MakeDirectory(p) PROVE TypeInv'
  <2>1. Cmd(p).op = "init"
    BY <1>8 DEF MakeDirectory, TypeInv, ProcOK, WellFormed, Cmd
  <2>2. scope' \in [Places -> [Dirs -> Coherent]]
    <3>1. scope' = [scope EXCEPT ![Cmd(p).place][Cmd(p).dir] =
                     [scope[Cmd(p).place][Cmd(p).dir] EXCEPT !.parts = @ \cup {Directory}]]
      BY <1>8, <2>1, InitFacts DEF MakeDirectory, TypeInv
    <3> QED
      BY <2>1, <3>1, InitFacts, DirectoryCoherent, ScopeStays
  <2>3. ours' \subseteq Places \X Dirs
    BY <1>8, <1>a, <2>1, InitFacts DEF MakeDirectory
  <2>4. Moves(p) /\ UNCHANGED <<registry, exclude, home, stale, overlapped, told, torn, bounds>>
    BY <1>8, MakeDirectoryMoves DEF MakeDirectory
  <2> QED
    BY <1>0, <1>a, <2>2, <2>3, <2>4 DEF Moves
<1>9. ASSUME NEW p \in Procs, InstallFile(p) PROVE TypeInv'
  <2>1. Cmd(p).op = "init" /\ proc[p].n + 1 \in 1..4
    BY <1>9 DEF InstallFile, TypeInv, ProcOK, ProcState, WellFormed, Cmd
  <2>2. scope' \in [Places -> [Dirs -> Coherent]]
    BY <1>9, <2>1, InitFacts, WithFileCoherent, ScopeStays DEF InstallFile
  <2>3. Moves(p) /\ UNCHANGED <<registry, exclude, home, history, bounds>>
    BY <1>9, InstallMoves DEF InstallFile
  <2> QED
    BY <1>0, <1>a, <2>2, <2>3 DEF Moves
<1>10. ASSUME NEW p \in Procs, LoadRegistry(p) PROVE TypeInv'
  <2>1. told' \subseteq Dirs
    BY <1>10, <1>a, RegistryTyped DEF LoadRegistry
  <2>2. Moves(p) /\ stale' \subseteq Procs
          /\ UNCHANGED <<files, home, overlapped, torn, ours, bounds>>
    BY <1>10, <1>a, LoadMoves DEF LoadRegistry
  <2> QED
    BY <1>0, <1>a, <2>1, <2>2 DEF Moves
<1>11. ASSUME NEW p \in Procs, SaveRegistry(p) PROVE TypeInv'
  <2>1. registry' \in Registry \cup {None}
    BY <1>11 DEF SaveRegistry, TypeInv, ProcOK, WellFormed
  <2>2. told' \subseteq Dirs
    BY <1>11, RegistryTyped DEF SaveRegistry
  <2>3. stale' \subseteq Procs /\ overlapped' \subseteq {"exclude", "registry"}
    BY <1>11, OvertakeTyped DEF SaveRegistry, TypeInv
  <2>4. Moves(p) /\ UNCHANGED <<scope, exclude, home, torn, ours, bounds>>
    BY <1>11, EndMoves DEF SaveRegistry
  <2> QED
    BY <1>0, <1>a, <2>1, <2>2, <2>3, <2>4 DEF Moves
<1>12. ASSUME NEW p \in Procs, GiveUp(p), events' \in 0..MaxEvents, events <= events'
       PROVE TypeInv'
  <2>0. home' <= events'
    BY <1>12, <1>a, BoundsAreNat DEF GiveUp
  <2>1. scope' \in [Places -> [Dirs -> Coherent]] /\ ours' \subseteq Places \X Dirs
    BY <1>12, <1>a, RemoveTyped DEF GiveUp, Installing
  <2>2. Moves(p) /\ stale' \subseteq Procs
          /\ UNCHANGED <<registry, exclude, home, overlapped, told, torn, typed>>
    BY <1>12, <1>a, EndMoves DEF GiveUp
  <2> QED
    BY <1>0, <1>12, <1>a, <2>0, <2>1, <2>2 DEF Moves
<1>13. ASSUME NEW p \in Procs, Refused(p) PROVE TypeInv'
  BY <1>12, <1>13, <1>a DEF Refused
<1>14. ASSUME NEW p \in Procs, Fails(p) PROVE TypeInv'
  <2>1. events' \in 0..MaxEvents /\ events <= events'
    BY <1>14, <1>a, BoundsAreNat DEF Fails
  <2> QED
    BY <1>12, <1>14, <2>1 DEF Fails
<1>15. ASSUME NEW p \in Procs, Killed(p) PROVE TypeInv'
  <2>1. events' \in 0..MaxEvents /\ events <= events'
    BY <1>15, <1>a, BoundsAreNat DEF Killed
  <2>2. torn' \subseteq Places \X Dirs
    BY <1>15, <1>a, InitFacts DEF Killed, Installing
  <2>3. Moves(p) /\ stale' \subseteq Procs
          /\ UNCHANGED <<files, home, overlapped, told, ours, typed>>
    BY <1>15, <1>a, EndMoves DEF Killed
  <2>4. home' <= events'
    BY <1>a, <2>1, <2>3, BoundsAreNat
  <2> QED
    BY <1>0, <1>a, <2>1, <2>2, <2>3, <2>4 DEF Moves
<1>16. CASE UNCHANGED vars
  BY <1>0, <1>16, <1>a DEF vars
<1> QED
  BY <1>1, <1>2, <1>3, <1>4, <1>5, <1>6, <1>7, <1>8, <1>9, <1>10, <1>11, <1>13, <1>14,
     <1>15, <1>16 DEF Next, Step

LEMMA TypeInvariant == Spec => []TypeInv
  BY TypeInit, TypeNext, PTL DEF Spec

(* Every variable stays within its type.                                   *)
THEOREM TypeCorrect == Spec => []TypeOK
<1>1. TypeInv => TypeOK
  BY DEF TypeInv
<1> QED
  BY TypeInvariant, <1>1, PTL
-----------------------------------------------------------------------------
(* Sharing follows from how a directory is resolved, whatever the files    *)
(* and the registry are.                                                   *)

LEMMA InheritedIsGitLocal ==
  ASSUME NEW w, NEW d, ResolveInherited(w, d).kind = "found"
  PROVE  LET r == ResolveInherited(w, d)
         IN /\ w = "linked" /\ r.place = "main"
            /\ r.dir \in Registered /\ registry.owner = home
            /\ scope["main"][r.dir].mode = "git-local"
<1> DEFINE selected == Nearest(registry.scopes \cap Above[d])
           q == CHOOSE p \in selected : TRUE
<1>1. w = "linked" /\ registry # None /\ registry.owner = home /\ selected # {}
  BY DEF ResolveInherited, NotConfigured, Error
<1>2. ResolveInherited(w, d) = InheritedConfig(q)
  BY <1>1 DEF ResolveInherited
<1>3. q \in selected
  BY <1>1
<1>4. q \in Registered
  BY <1>1, <1>3 DEF Nearest, Registered
<1>5. scope["main"][q].mode = "git-local" /\ InheritedConfig(q) = Found("main", q)
  BY <1>2 DEF InheritedConfig, NotConfigured, Error
<1>6. ResolveInherited(w, d) = [kind |-> "found", place |-> "main", dir |-> q]
  BY <1>2, <1>5 DEF Found
<1> HIDE DEF selected, q
<1> QED
  BY <1>1, <1>4, <1>5, <1>6

LEMMA PhysicalIsLocal ==
  ASSUME NEW w, NEW p, IdentityForFilesystemScope(w, p).kind = "found"
  PROVE  LET r == IdentityForFilesystemScope(w, p)
         IN /\ r.place = w
            /\ scope[w][r.dir].mode = "git-local" =>
                 w = "main" /\ r.dir \in Registered /\ registry.owner = home
  BY DEF IdentityForFilesystemScope, Found, Error, GitLocalScopeRegistered, Registered

(* What one worktree gets from another is a git-local scope now, and no    *)
(* git-local scope counts that is not registered where it is stored.       *)
THEOREM OnlyGitLocal == Spec => []OnlyGitLocalIsShared
<1>1. OnlyGitLocalIsShared
  <2> SUFFICES ASSUME NEW w \in Places, NEW d \in Dirs, Resolve(w, d).kind = "found"
               PROVE  LET r == Resolve(w, d)
                      IN /\ r.place # w => scope[r.place][r.dir].mode = "git-local"
                         /\ scope[r.place][r.dir].mode = "git-local" =>
                              r.place = "main" /\ r.dir \in Registered /\ registry.owner = home
    BY DEF OnlyGitLocalIsShared
  <2> DEFINE inherited == ResolveInherited(w, d)
             nearer == {p \in NearestConfig(w, d) : PhysicalWins(p, inherited)}
  <2>1. CASE w = "plain"
    <3> DEFINE p == CHOOSE q \in NearestConfig("plain", d) : TRUE
    <3>1. Resolve(w, d) = Found("plain", p) /\ scope["plain"][p].mode = "local"
      BY <2>1 DEF Resolve, ResolveFilesystemLocal, NotConfigured, Error
    <3>2. Resolve(w, d) = [kind |-> "found", place |-> "plain", dir |-> p]
      BY <3>1 DEF Found
    <3> HIDE DEF p
    <3> QED
      BY <2>1, <3>1, <3>2
  <2>2. CASE w # "plain" /\ inherited.kind # "error" /\ nearer = {}
    BY <2>2, InheritedIsGitLocal DEF Resolve
  <2>3. CASE w # "plain" /\ inherited.kind # "error" /\ nearer # {}
    BY <2>3, PhysicalIsLocal DEF Resolve
  <2>4. CASE w # "plain" /\ inherited.kind = "error"
    BY <2>4 DEF Resolve, Error
  <2> QED
    BY <2>1, <2>2, <2>3, <2>4
<1> QED
  BY <1>1, PTL
-----------------------------------------------------------------------------
(* The registry.  A process about to save, whose copy no other save has    *)
(* overtaken, holds just what its user is about to be told.                *)

FreshRegistry ==
    \A p \in Procs : proc[p].pc = "save" /\ p \notin stale => proc[p].copy.scopes = Told(p)

ToldInv == "registry" \in overlapped \/ (Registered = told /\ FreshRegistry)

LEMMA ToldInit == Init => ToldInv
  BY DEF Init, ToldInv, FreshRegistry, Registered, Idle

(* A step of one process that leaves the registry alone.                   *)
LEMMA ToldStays ==
  ASSUME TypeInv, ToldInv, UNCHANGED <<registry, told>>, NEW p \in Procs, Moves(p),
         \/ proc'[p].pc # "save"
         \/ proc'[p].copy.scopes = Told(p)'
         \/ "registry" \in overlapped',
         "registry" \in overlapped => "registry" \in overlapped',
         \A q \in Procs \ {p} : q \in stale => q \in stale'
  PROVE  ToldInv'
<1>1. \A q \in Procs \ {p} : Told(q)' = Told(q)
  BY DEF Moves, Told, Cmd
<1>2. \A q \in Procs \ {p} : proc'[q] = proc[q]
  BY DEF Moves
<1>3. CASE "registry" \notin overlapped'
  BY <1>1, <1>2, <1>3 DEF ToldInv, FreshRegistry, Registered
<1>4. CASE "registry" \in overlapped'
  BY <1>4 DEF ToldInv
<1> QED
  BY <1>3, <1>4

(* Only LoadRegistry takes a process to where it saves the registry.       *)
LEMMA NotSaving ==
  ASSUME TypeInv, NEW p \in Procs,
         \/ \E cmd \in Command : Start(p, cmd)
         \/ CheckTarget(p) \/ ReadExclude(p) \/ SaveExclude(p) \/ MakeDirectory(p)
         \/ InstallFile(p)
  PROVE  Moves(p) /\ proc'[p].pc # "save"
<1>0. proc[p] \in ProcState
  BY DEF TypeInv, ProcOK
<1>1. ASSUME NEW cmd \in Command, Start(p, cmd) PROVE proc'[p].pc # "save"
  BY <1>1, CommandFacts DEF Start, TypeInv, Idle
<1>2. CASE CheckTarget(p)
  <2>1. proc' = [proc EXCEPT ![p].pc = AfterCheck(p)] /\ AfterCheck(p) \in {"ignore", "mkdir"}
    BY <1>2 DEF CheckTarget, Goto, AfterCheck
  <2> QED
    BY <1>0, <1>2, <2>1, CheckMoves DEF TypeInv, ProcState
<1>3. CASE ReadExclude(p)
  BY <1>0, <1>3, ReadExcludeMoves DEF AfterIgnore, ProcState
<1>4. CASE SaveExclude(p)
  BY <1>0, <1>4, SaveExcludeMoves DEF AfterIgnore, ProcState
<1>5. CASE MakeDirectory(p)
  BY <1>0, <1>5, MakeDirectoryMoves DEF ProcState
<1>6. CASE InstallFile(p)
  <2>1. proc[p].pc = "install"
    BY <1>6 DEF InstallFile
  <2>2. ASSUME proc'[p] = [proc[p] EXCEPT !.n = proc[p].n + 1] PROVE proc'[p].pc # "save"
    BY <1>0, <2>1, <2>2 DEF ProcState
  <2>3. ASSUME proc'[p] = [proc[p] EXCEPT !.n = proc[p].n + 1, !.pc = "load"]
        PROVE proc'[p].pc # "save"
    BY <1>0, <2>3 DEF ProcState
  <2>4. ASSUME proc'[p] = Idle PROVE proc'[p].pc # "save"
    BY <2>4 DEF Idle
  <2> QED
    BY <1>6, <2>2, <2>3, <2>4, InstallMoves
<1> QED
  BY <1>1, <1>2, <1>3, <1>4, <1>5, <1>6, StartMoves, CheckMoves, ReadExcludeMoves,
     SaveExcludeMoves, MakeDirectoryMoves, InstallMoves

LEMMA ToldNext == TypeInv /\ ToldInv /\ [Next]_vars => ToldInv'
<1> SUFFICES ASSUME TypeInv, ToldInv, [Next]_vars PROVE ToldInv'
  OBVIOUS
<1> USE DEF files, history, bounds
<1>1. CASE UNCHANGED <<registry, proc, told, stale, overlapped>>
  BY <1>1 DEF ToldInv, FreshRegistry, Registered, Told, Cmd
<1>2. ASSUME NEW p \in Procs,
             \/ \E cmd \in Command : Start(p, cmd)
             \/ CheckTarget(p) \/ ReadExclude(p) \/ MakeDirectory(p) \/ InstallFile(p)
      PROVE ToldInv'
  <2>1. /\ UNCHANGED <<registry, told, overlapped>>
        /\ stale' = stale \/ stale' = stale \ {p}
    BY <1>2 DEF Start, CheckTarget, ReadExclude, MakeDirectory, InstallFile
  <2> QED
    BY <1>2, <2>1, NotSaving, ToldStays
<1>3. ASSUME NEW p \in Procs, SaveExclude(p) PROVE ToldInv'
  <2>1. /\ UNCHANGED <<registry, told>>
        /\ "registry" \in overlapped => "registry" \in overlapped'
        /\ \A q \in Procs \ {p} : q \in stale => q \in stale'
    BY <1>3 DEF SaveExclude, Overtake
  <2> QED
    BY <1>3, <2>1, NotSaving, ToldStays
<1>4. ASSUME NEW p \in Procs, LoadRegistry(p) PROVE ToldInv'
  <2>1. UNCHANGED <<registry, overlapped>> /\ stale' = stale \ {p} /\ Moves(p)
    BY <1>4, LoadMoves DEF LoadRegistry
  <2>2. CASE "registry" \in overlapped
    BY <2>1, <2>2 DEF ToldInv
  <2>3. CASE "registry" \notin overlapped
    <3>1. Registered = told
      BY <2>3 DEF ToldInv
    <3>2. Changed(p).scopes = Told(p) /\ (AlreadyThere(p) => Told(p) = told)
      BY <1>4, <3>1, RegistryTyped DEF LoadRegistry, Changed, Told, AlreadyThere
    <3>3. UNCHANGED told
      BY <1>4, <3>2 DEF LoadRegistry
    <3>4. proc'[p].pc = "save" => proc'[p].copy.scopes = Told(p)'
      <4>1. CASE proc'[p] = Idle
        BY <4>1 DEF Idle
      <4>2. CASE proc'[p] = [proc[p] EXCEPT !.pc = "save", !.copy = Changed(p)]
        <5>1. proc'[p].copy = Changed(p) /\ proc'[p].cmd = proc[p].cmd
          BY <4>2 DEF TypeInv, ProcOK, ProcState
        <5> QED
          BY <3>2, <3>3, <5>1 DEF Told, Cmd
      <4> QED
        BY <1>4, <4>1, <4>2, LoadMoves
    <3> QED
      BY <2>1, <3>3, <3>4, ToldStays
  <2> QED
    BY <2>2, <2>3
<1>5. ASSUME NEW p \in Procs, SaveRegistry(p) PROVE ToldInv'
  <2>1. /\ proc[p].pc = "save" /\ proc[p].copy \in Registry
        /\ registry' = proc[p].copy /\ told' = Told(p)
        /\ Overtake(p, "registry", "save")
    BY <1>5 DEF SaveRegistry, TypeInv, ProcOK, WellFormed
  <2>2. Moves(p) /\ proc'[p] = Idle
    BY <1>5, EndStays DEF SaveRegistry, Moves
  <2>3. CASE p \in stale \/ "registry" \in overlapped
    BY <2>1, <2>3 DEF Overtake, ToldInv
  <2>4. CASE p \notin stale /\ "registry" \notin overlapped
    <3>1. proc[p].copy.scopes = Told(p)
      BY <2>1, <2>4 DEF ToldInv, FreshRegistry
    <3>2. registry' # None
      BY <2>1, NoneIsFresh
    <3>3. Registered' = told'
      BY <2>1, <3>1, <3>2 DEF Registered
    <3>4. FreshRegistry'
      BY <2>1, <2>2 DEF FreshRegistry, Overtake, Moves, Idle
    <3> QED
      BY <3>3, <3>4 DEF ToldInv
  <2> QED
    BY <2>3, <2>4
<1>6. ASSUME NEW p \in Procs, Refused(p) \/ Fails(p) \/ Killed(p) PROVE ToldInv'
  <2>1. /\ UNCHANGED <<registry, told, overlapped>>
        /\ stale' = stale \ {p} /\ End(p)
    BY <1>6 DEF Refused, Fails, Killed, GiveUp
  <2>2. Moves(p) /\ proc'[p].pc # "save"
    BY <2>1, EndStays DEF Moves, Idle
  <2> QED
    BY <2>1, <2>2, ToldStays
<1> QED
  BY <1>1, <1>2, <1>3, <1>4, <1>5, <1>6
     DEF Next, Step, MoveMain, PutFiles, RemoveFiles, vars

(* What a command reported of the registry is so, unless commands saved    *)
(* over one another.                                                       *)
THEOREM RegistryIsAsTold == Spec => []RegisteredAsTold
<1>1. ToldInv => RegisteredAsTold
  BY DEF ToldInv, RegisteredAsTold
<1>2. TypeInv /\ ToldInv /\ [Next]_vars => TypeInv' /\ ToldInv'
  BY TypeNext, ToldNext
<1> QED
  BY TypeInit, ToldInit, <1>1, <1>2, PTL DEF Spec
-----------------------------------------------------------------------------
(* info/exclude.  Until an overtaken copy is saved it only grows, and a    *)
(* private init inside Git makes its directory after its line is there.    *)

LinesReady ==
    \A p \in Procs :
        /\ proc[p].pc = "ignoreSave" => Cmd(p).dir \in proc[p].lines
        /\ proc[p].pc = "ignoreSave" /\ p \notin stale => exclude \subseteq proc[p].lines
        /\ proc[p].pc = "mkdir" /\ Private(p) => Cmd(p).dir \in exclude

OursIgnored == \A spot \in ours : spot[2] \in exclude

IgnoreInv == "exclude" \in overlapped \/ (OursIgnored /\ LinesReady)

LEMMA IgnoreInit == Init => IgnoreInv
  BY DEF Init, IgnoreInv, OursIgnored, LinesReady, Idle

LEMMA IgnoreStays ==
  ASSUME IgnoreInv, UNCHANGED exclude, ours' \subseteq ours, NEW p \in Procs, Moves(p),
         proc'[p].pc \notin {"ignoreSave", "mkdir"},
         "exclude" \in overlapped => "exclude" \in overlapped',
         \A q \in Procs \ {p} : q \in stale => q \in stale'
  PROVE  IgnoreInv'
<1>1. \A q \in Procs \ {p} : proc'[q] = proc[q]
  BY DEF Moves
<1>2. \A q \in Procs \ {p} : Private(q)' = Private(q) /\ Cmd(q)' = Cmd(q)
  BY <1>1 DEF Private, Cmd
<1>3. CASE "exclude" \notin overlapped'
  <2>1. OursIgnored'
    BY <1>3 DEF IgnoreInv, OursIgnored
  <2>2. LinesReady'
    BY <1>1, <1>2, <1>3 DEF IgnoreInv, LinesReady
  <2> QED
    BY <2>1, <2>2 DEF IgnoreInv
<1>4. CASE "exclude" \in overlapped'
  BY <1>4 DEF IgnoreInv
<1> QED
  BY <1>3, <1>4

(* A step after which no other process has anything new: what p is about   *)
(* to do agrees with info/exclude.                                         *)
LEMMA IgnoreReady ==
  ASSUME IgnoreInv, UNCHANGED <<exclude, ours, overlapped>>, NEW p \in Procs, Moves(p),
         \A q \in Procs \ {p} : q \in stale => q \in stale',
         proc'[p].pc = "ignoreSave" =>
            exclude \subseteq proc'[p].lines /\ Cmd(p)'.dir \in proc'[p].lines,
         proc'[p].pc = "mkdir" /\ Private(p)' => Cmd(p)'.dir \in exclude
  PROVE  IgnoreInv'
<1>1. \A q \in Procs \ {p} : proc'[q] = proc[q]
  BY DEF Moves
<1>2. \A q \in Procs \ {p} : Private(q)' = Private(q) /\ Cmd(q)' = Cmd(q)
  BY <1>1 DEF Private, Cmd
<1>3. LinesReady => LinesReady'
  BY <1>1, <1>2 DEF LinesReady
<1> QED
  BY <1>3 DEF IgnoreInv, OursIgnored

LEMMA IgnoreNext == TypeInv /\ IgnoreInv /\ [Next]_vars => IgnoreInv'
<1> SUFFICES ASSUME TypeInv, IgnoreInv, [Next]_vars PROVE IgnoreInv'
  OBVIOUS
<1> USE DEF files, history, bounds
<1>1. CASE UNCHANGED <<exclude, proc, stale, overlapped>> /\ ours' \subseteq ours
  BY <1>1 DEF IgnoreInv, OursIgnored, LinesReady, Private, Cmd
<1>2. ASSUME NEW p \in Procs, NEW cmd \in Command, Start(p, cmd) PROVE IgnoreInv'
  <2>1. proc'[p].pc \notin {"ignoreSave", "mkdir"}
    BY <1>2, CommandFacts DEF Start, TypeInv, Idle
  <2>2. Moves(p) /\ UNCHANGED <<exclude, ours, overlapped, stale>>
    BY <1>2, StartMoves DEF Start
  <2> QED
    BY <2>1, <2>2, IgnoreStays
<1>3. ASSUME NEW p \in Procs, CheckTarget(p) PROVE IgnoreInv'
  <2>1. proc' = [proc EXCEPT ![p].pc = AfterCheck(p)]
    BY <1>3 DEF CheckTarget, Goto
  <2>2. proc'[p].pc = AfterCheck(p) /\ Cmd(p)' = Cmd(p) /\ Private(p)' = Private(p)
    BY <2>1 DEF TypeInv, ProcOK, ProcState, Cmd, Private
  <2>3. proc'[p].pc # "ignoreSave" /\ ~(proc'[p].pc = "mkdir" /\ Private(p)')
    BY <2>2 DEF AfterCheck
  <2>4. Moves(p) /\ UNCHANGED <<exclude, ours, overlapped, stale>>
    BY <1>3, CheckMoves DEF CheckTarget
  <2> QED
    BY <2>3, <2>4, IgnoreReady
<1>4. ASSUME NEW p \in Procs, ReadExclude(p) PROVE IgnoreInv'
  <2>1. Moves(p) /\ UNCHANGED <<exclude, ours, overlapped>> /\ stale' = stale \ {p}
    BY <1>4, ReadExcludeMoves DEF ReadExclude
  <2>2. CASE proc'[p] = [proc[p] EXCEPT !.pc = AfterIgnore(p)] /\ Cmd(p).dir \in exclude
    <3>1. proc'[p].pc # "ignoreSave" /\ Cmd(p)' = Cmd(p)
      BY <2>2 DEF TypeInv, ProcOK, ProcState, AfterIgnore, Cmd
    <3> QED
      BY <2>1, <2>2, <3>1, IgnoreReady
  <2>3. CASE proc'[p] = [proc[p] EXCEPT !.pc = "ignoreSave", !.lines = exclude \cup {Cmd(p).dir}]
    <3>1. /\ proc'[p].pc = "ignoreSave" /\ Cmd(p)' = Cmd(p)
          /\ proc'[p].lines = exclude \cup {Cmd(p).dir}
      BY <2>3 DEF TypeInv, ProcOK, ProcState, Cmd
    <3> QED
      BY <2>1, <3>1, IgnoreReady
  <2> QED
    BY <1>4, <2>2, <2>3, ReadExcludeMoves
<1>5. ASSUME NEW p \in Procs, SaveExclude(p) PROVE IgnoreInv'
  <2>1. /\ proc[p].pc = "ignoreSave" /\ exclude' = proc[p].lines /\ UNCHANGED ours
        /\ Overtake(p, "exclude", "ignoreSave")
    BY <1>5 DEF SaveExclude
  <2>2. Moves(p) /\ proc'[p].pc \in {"mkdir", "load"} /\ Cmd(p)' = Cmd(p)
    <3>1. proc'[p] = [proc[p] EXCEPT !.pc = AfterIgnore(p), !.lines = {}] /\ Moves(p)
      BY <1>5, SaveExcludeMoves
    <3>2. proc'[p].pc = AfterIgnore(p) /\ proc'[p].cmd = proc[p].cmd
      BY <3>1 DEF TypeInv, ProcOK, ProcState
    <3> QED
      BY <3>1, <3>2 DEF AfterIgnore, Cmd
  <2>3. CASE p \in stale \/ "exclude" \in overlapped
    BY <2>1, <2>3 DEF Overtake, IgnoreInv
  <2>4. CASE p \notin stale /\ "exclude" \notin overlapped
    <3>1. exclude \subseteq exclude' /\ Cmd(p).dir \in exclude'
      BY <2>1, <2>4 DEF IgnoreInv, LinesReady
    <3>2. OursIgnored'
      BY <2>1, <2>4, <3>1 DEF IgnoreInv, OursIgnored
    <3>3. \A q \in Procs \ {p} : /\ proc'[q] = proc[q]
                                /\ Private(q)' = Private(q) /\ Cmd(q)' = Cmd(q)
      BY <2>2 DEF Moves, Private, Cmd
    <3>4. \A q \in Procs \ {p} : proc[q].pc = "ignoreSave" => q \in stale'
      BY <2>1 DEF Overtake
    <3>5. LinesReady'
      BY <2>2, <2>4, <3>1, <3>3, <3>4 DEF IgnoreInv, LinesReady
    <3> QED
      BY <3>2, <3>5 DEF IgnoreInv
  <2> QED
    BY <2>3, <2>4
<1>6. ASSUME NEW p \in Procs, MakeDirectory(p) PROVE IgnoreInv'
  <2>1. Moves(p) /\ UNCHANGED <<exclude, stale, overlapped>> /\ proc[p].pc = "mkdir"
    BY <1>6, MakeDirectoryMoves DEF MakeDirectory
  <2>2. proc'[p].pc = "install"
    BY <1>6, MakeDirectoryMoves DEF TypeInv, ProcOK, ProcState
  <2>3. CASE "exclude" \in overlapped
    BY <2>1, <2>3 DEF IgnoreInv
  <2>4. CASE "exclude" \notin overlapped
    <3>1. OursIgnored'
      BY <1>6, <2>1, <2>4 DEF MakeDirectory, IgnoreInv, OursIgnored, LinesReady, Spot
    <3>2. \A q \in Procs \ {p} : /\ proc'[q] = proc[q]
                                /\ Private(q)' = Private(q) /\ Cmd(q)' = Cmd(q)
      BY <2>1 DEF Moves, Private, Cmd
    <3>3. LinesReady'
      BY <2>1, <2>2, <2>4, <3>2 DEF IgnoreInv, LinesReady
    <3> QED
      BY <3>1, <3>3 DEF IgnoreInv
  <2> QED
    BY <2>3, <2>4
<1>7. ASSUME NEW p \in Procs, InstallFile(p) PROVE IgnoreInv'
  <2>1. Moves(p) /\ UNCHANGED <<exclude, ours, stale, overlapped>> /\ proc[p].pc = "install"
    BY <1>7, InstallMoves DEF InstallFile
  <2>2. proc'[p].pc \in {"install", "load", "idle"}
    <3>1. ASSUME proc'[p] = [proc[p] EXCEPT !.n = proc[p].n + 1] PROVE proc'[p].pc = "install"
      BY <2>1, <3>1 DEF TypeInv, ProcOK, ProcState
    <3>2. ASSUME proc'[p] = [proc[p] EXCEPT !.n = proc[p].n + 1, !.pc = "load"]
          PROVE proc'[p].pc = "load"
      BY <3>2 DEF TypeInv, ProcOK, ProcState
    <3>3. ASSUME proc'[p] = Idle PROVE proc'[p].pc = "idle"
      BY <3>3 DEF Idle
    <3> QED
      BY <1>7, <3>1, <3>2, <3>3, InstallMoves
  <2> QED
    BY <2>1, <2>2, IgnoreStays
<1>8. ASSUME NEW p \in Procs, LoadRegistry(p) PROVE IgnoreInv'
  <2>1. Moves(p) /\ UNCHANGED <<exclude, ours, overlapped>> /\ stale' = stale \ {p}
    BY <1>8, LoadMoves DEF LoadRegistry
  <2>2. proc'[p].pc \in {"idle", "save"}
    <3>1. ASSUME proc'[p] = [proc[p] EXCEPT !.pc = "save", !.copy = Changed(p)]
          PROVE proc'[p].pc = "save"
      BY <3>1 DEF TypeInv, ProcOK, ProcState
    <3>2. ASSUME proc'[p] = Idle PROVE proc'[p].pc = "idle"
      BY <3>2 DEF Idle
    <3> QED
      BY <1>8, <3>1, <3>2, LoadMoves
  <2> QED
    BY <2>1, <2>2, IgnoreStays
<1>9. ASSUME NEW p \in Procs, SaveRegistry(p) PROVE IgnoreInv'
  <2>1. Moves(p) /\ proc'[p].pc = "idle"
    BY <1>9, EndStays DEF SaveRegistry, Moves, Idle
  <2>2. /\ UNCHANGED <<exclude, ours>>
        /\ "exclude" \in overlapped => "exclude" \in overlapped'
        /\ \A q \in Procs \ {p} : q \in stale => q \in stale'
    BY <1>9 DEF SaveRegistry, Overtake
  <2> QED
    BY <2>1, <2>2, IgnoreStays
<1>10. ASSUME NEW p \in Procs, Refused(p) \/ Fails(p) \/ Killed(p) PROVE IgnoreInv'
  <2>1. /\ UNCHANGED <<exclude, overlapped>> /\ ours' \subseteq ours
        /\ stale' = stale \ {p} /\ End(p)
    BY <1>10 DEF Refused, Fails, Killed, GiveUp, RemoveInitFiles
  <2>2. Moves(p) /\ proc'[p].pc = "idle"
    BY <2>1, EndStays DEF Moves, Idle
  <2> QED
    BY <2>1, <2>2, IgnoreStays
<1> QED
  BY <1>1, <1>2, <1>3, <1>4, <1>5, <1>6, <1>7, <1>8, <1>9, <1>10
     DEF Next, Step, MoveMain, PutFiles, RemoveFiles, vars

(* The files of a private init inside Git never stand without their lines  *)
(* in info/exclude, unless commands saved that file over one another.      *)
THEOREM PrivateStaysIgnored == Spec => []PrivateIsIgnored
<1>1. IgnoreInv => PrivateIsIgnored
  BY DEF IgnoreInv, OursIgnored, PrivateIsIgnored
<1>2. TypeInv /\ IgnoreInv /\ [Next]_vars => TypeInv' /\ IgnoreInv'
  BY TypeNext, IgnoreNext
<1> QED
  BY TypeInit, IgnoreInit, <1>1, <1>2, PTL DEF Spec
-----------------------------------------------------------------------------
(* Initialization.  At most one init is at work in a directory that no     *)
(* killed init has left in pieces, and it finds there what it installed.   *)

Partial(p) ==
    [parts |-> {Directory} \cup TakenBack(p),
     mode |-> IF proc[p].n >= 3 THEN Cmd(p).mode ELSE None]

Done(f) == f = Nothing \/ (f.parts = Parts /\ f.mode # None)

At(spot) == scope[spot[1]][spot[2]]

InstallInv ==
    /\ \A p \in Procs : Installing(p) => At(Spot(p)) = Partial(p) /\ Spot(p) \notin torn
    /\ \A p, q \in Procs : Installing(p) /\ Installing(q) /\ p # q => Spot(p) # Spot(q)
    /\ \A spot \in Places \X Dirs :
         /\ spot \in torn => Directory \in At(spot).parts
         /\ spot \notin torn /\ (\A p \in Procs : Installing(p) => Spot(p) # spot) =>
              Done(At(spot))

LEMMA InstallInit == Init => InstallInv
<1> SUFFICES ASSUME Init PROVE InstallInv
  OBVIOUS
<1>1. \A p \in Procs : ~Installing(p)
  BY DEF Init, Installing, Idle
<1>2. ASSUME NEW spot \in Places \X Dirs PROVE Done(At(spot))
  <2>1. CASE scope = NoScopes
    BY <2>1 DEF At, NoScopes, Done
  <2>2. ASSUME NEW w \in GitPlaces, NEW d \in Dirs, NEW mode \in Modes,
               scope = [NoScopes EXCEPT ![w][d] = Whole(mode)]
        PROVE  Done(At(spot))
    <3>1. At(spot) = Nothing \/ At(spot) = Whole(mode)
      BY <2>2 DEF At, NoScopes
    <3> QED
      BY <3>1, NoneIsFresh DEF Done, Whole
  <2> QED
    BY <2>1, <2>2 DEF Init
<1> QED
  BY <1>1, <1>2 DEF Init, InstallInv

(* The files of the four steps.                                            *)
LEMMA OrderFacts ==
  /\ Directory \notin Files /\ Files \subseteq Parts /\ Parts = Files \cup {Directory}
  /\ \A n \in 0..3 : {Order[i] : i \in 1..(n + 1)} = {Order[i] : i \in 1..n} \cup {Order[n + 1]}
  /\ \A n \in 1..4 : Order[n] \in Files /\ (Order[n] = ".dotenv-sec.yaml" <=> n = 3)
<1>1. Directory \notin Files /\ Files \subseteq Parts /\ Parts = Files \cup {Directory}
  BY DEF Directory, Files, Parts, Order
<1>2. \A n \in 0..3 : 1..(n + 1) = 1..n \cup {n + 1}
  OBVIOUS
<1>3. \A n \in 1..4 : Order[n] \in Files /\ (Order[n] = ".dotenv-sec.yaml" <=> n = 3)
  BY DEF Files, Order
<1> QED
  BY <1>1, <1>2, <1>3

(* A step that changes no directory and no init at work.                   *)
LEMMA InstallStays ==
  ASSUME InstallInv, UNCHANGED <<scope, torn>>,
         \A q \in Procs : /\ Installing(q)' = Installing(q)
                          /\ Installing(q) => /\ Spot(q)' = Spot(q)
                                             /\ Partial(q)' = Partial(q)
  PROVE  InstallInv'
  BY DEF InstallInv, At

(* A step of the one init at work in a directory, or of one that begins or *)
(* ends to be it.                                                          *)
LEMMA InstallStep ==
  ASSUME TypeInv, InstallInv, NEW p \in Procs, Moves(p), Spot(p) \in Places \X Dirs,
         \A spot \in Places \X Dirs : spot # Spot(p) =>
            At(spot)' = At(spot) /\ (spot \in torn' <=> spot \in torn),
         \A q \in Procs \ {p} : Installing(q) => Spot(q) # Spot(p),
         \/ /\ Installing(p)' /\ Spot(p)' = Spot(p)
            /\ scope'[Spot(p)[1]][Spot(p)[2]] = Partial(p)' /\ Spot(p) \notin torn'
         \/ /\ ~Installing(p)'
            /\ IF Spot(p) \in torn'
               THEN Directory \in scope'[Spot(p)[1]][Spot(p)[2]].parts
               ELSE Done(scope'[Spot(p)[1]][Spot(p)[2]])
  PROVE  InstallInv'
<1>1. \A q \in Procs \ {p} : /\ Installing(q)' = Installing(q) /\ Spot(q)' = Spot(q)
                            /\ Partial(q)' = Partial(q)
  BY DEF Moves, Installing, Spot, Cmd, Partial, TakenBack
<1>2. \A q \in Procs : Installing(q) => Spot(q) \in Places \X Dirs
  BY InitFacts DEF Installing
<1>3. \A q \in Procs : Installing(q)' => At(Spot(q))' = Partial(q)' /\ Spot(q)' \notin torn'
  <2>1. ASSUME NEW q \in Procs \ {p}, Installing(q)'
        PROVE  At(Spot(q))' = Partial(q)' /\ Spot(q)' \notin torn'
    BY <1>1, <1>2, <2>1 DEF InstallInv, At
  <2>2. Installing(p)' => At(Spot(p))' = Partial(p)' /\ Spot(p)' \notin torn'
    BY DEF At
  <2> QED
    BY <2>1, <2>2
<1>4. \A q, r \in Procs : Installing(q)' /\ Installing(r)' /\ q # r => Spot(q)' # Spot(r)'
  BY <1>1 DEF InstallInv
<1>5. ASSUME NEW spot \in Places \X Dirs
      PROVE  /\ spot \in torn' => Directory \in At(spot)'.parts
             /\ spot \notin torn' /\ (\A q \in Procs : Installing(q)' => Spot(q)' # spot) =>
                  Done(At(spot))'
  <2>1. CASE spot = Spot(p)
    BY <2>1 DEF At, Done
  <2>2. CASE spot # Spot(p)
    BY <1>1, <2>2 DEF InstallInv, Done
  <2> QED
    BY <2>1, <2>2
<1> QED
  BY <1>3, <1>4, <1>5 DEF InstallInv

(* One directory's files change.                                           *)
Puts(w, d, f) == scope' = [scope EXCEPT ![w][d] = f]

LEMMA OneChanges ==
  ASSUME TypeInv, NEW w \in Places, NEW d \in Dirs, NEW f \in Coherent, Puts(w, d, f)
  PROVE  /\ scope'[w][d] = f
         /\ \A spot \in Places \X Dirs : spot # <<w, d>> => At(spot)' = At(spot)
<1>1. /\ scope'[w][d] = f
      /\ \A v \in Places, e \in Dirs : <<v, e>> # <<w, d>> => scope'[v][e] = scope[v][e]
  BY ScopeStays DEF Puts
<1>2. \A spot \in Places \X Dirs : spot = <<spot[1], spot[2]>>
  OBVIOUS
<1>3. ASSUME NEW spot \in Places \X Dirs, spot # <<w, d>> PROVE At(spot)' = At(spot)
  <2>1. spot[1] \in Places /\ spot[2] \in Dirs
    OBVIOUS
  <2> QED
    BY <1>1, <1>2, <1>3, <2>1 DEF At
<1> QED
  BY <1>1, <1>3

(* What an init at work has in its directory, and nobody else has.         *)
LEMMA AtWork ==
  ASSUME TypeInv, InstallInv, NEW p \in Procs, Installing(p)
  PROVE  /\ Spot(p) \in Places \X Dirs /\ Spot(p) \notin torn
         /\ Spot(p) = <<Cmd(p).place, Cmd(p).dir>>
         /\ Cmd(p).place \in Places /\ Cmd(p).dir \in Dirs /\ Cmd(p).mode \in Modes
         /\ scope[Cmd(p).place][Cmd(p).dir] = Partial(p)
         /\ \A q \in Procs \ {p} : Installing(q) => Spot(q) # Spot(p)
         /\ proc[p].n \in 0..4 /\ (proc[p].pc # "install" => proc[p].n = 4)
<1>1. proc[p] \in ProcState /\ WellFormed(proc[p])
  BY DEF TypeInv, ProcOK
<1>2. proc[p].n \in 0..4 /\ (proc[p].pc # "install" => proc[p].n = 4)
  BY <1>1 DEF ProcState, WellFormed, Installing, Cmd
<1> QED
  BY <1>2, InitFacts DEF InstallInv, Installing, At, Spot

(* All four files in place: the scope is whole.                            *)
LEMMA FourIsWhole ==
  ASSUME TypeInv, InstallInv, NEW p \in Procs, Installing(p), proc[p].pc # "install"
  PROVE  Done(scope[Cmd(p).place][Cmd(p).dir])
<1>1. proc[p].n = 4 /\ Cmd(p).mode # None
  BY AtWork, NoneIsFresh
<1>2. TakenBack(p) = Files
  BY <1>1 DEF TakenBack, Files
<1>3. Partial(p).parts = Parts /\ Partial(p).mode # None
  BY <1>1, <1>2, OrderFacts DEF Partial
<1> QED
  BY <1>3, AtWork DEF Done

(* An init that ends with its scope as it is.                              *)
LEMMA EndsWhole ==
  ASSUME TypeInv, InstallInv, NEW p \in Procs, End(p), UNCHANGED <<scope, torn>>,
         Installing(p) => proc[p].pc # "install"
  PROVE  InstallInv'
<1>1. Moves(p) /\ ~Installing(p)'
  BY EndStays DEF Moves, Installing, Idle, Cmd, NoCommand
<1>2. CASE Installing(p)
  <2>1. Done(scope'[Spot(p)[1]][Spot(p)[2]])
    BY <1>2, AtWork, FourIsWhole
  <2> QED
    BY <1>1, <1>2, <2>1, AtWork, InstallStep DEF At
<1>3. CASE ~Installing(p)
  <2>1. \A q \in Procs \ {p} : /\ Installing(q)' = Installing(q) /\ Spot(q)' = Spot(q)
                              /\ Partial(q)' = Partial(q)
    BY <1>1 DEF Moves, Installing, Spot, Cmd, Partial, TakenBack
  <2>2. Installing(p)' = Installing(p)
    BY <1>1, <1>3 DEF Installing
  <2> QED
    BY <1>3, <2>1, <2>2, InstallStays
<1> QED
  BY <1>2, <1>3

(* init takes back what it installed: nothing is left.                     *)
LEMMA NothingLeft ==
  ASSUME TypeInv, InstallInv, NEW p \in Procs, Installing(p)
  PROVE  Without(Partial(p), TakenBack(p)) = Nothing
<1>1. TakenBack(p) \subseteq Files
  BY AtWork, OrderFacts DEF TakenBack
<1>2. Partial(p).parts \ TakenBack(p) = {Directory}
  BY <1>1, OrderFacts DEF Partial
<1>3. "recipients.yaml" # Directory /\ ".dotenv-sec.yaml" # Directory
  BY DEF Directory
<1> QED
  BY <1>2, <1>3 DEF Without, Nothing

LEMMA GiveUpInstall ==
  ASSUME TypeInv, InstallInv, NEW p \in Procs, GiveUp(p)
  PROVE  InstallInv'
<1>1. End(p) /\ UNCHANGED torn
  BY DEF GiveUp, history
<1>2. CASE Installing(p)
  <2>1. scope' = [scope EXCEPT ![Cmd(p).place][Cmd(p).dir] = Without(@, TakenBack(p))]
    BY <1>2 DEF GiveUp, RemoveInitFiles
  <2>2. Puts(Cmd(p).place, Cmd(p).dir, Nothing)
    BY <1>2, <2>1, AtWork, NothingLeft DEF Puts
  <2>3. /\ scope'[Spot(p)[1]][Spot(p)[2]] = Nothing
        /\ \A spot \in Places \X Dirs : spot # Spot(p) => At(spot)' = At(spot)
    BY <1>2, <2>2, AtWork, NothingCoherent, OneChanges
  <2>4. Moves(p) /\ ~Installing(p)'
    BY <1>1, EndStays DEF Moves, Installing, Idle, Cmd, NoCommand
  <2> QED
    BY <1>1, <1>2, <2>3, <2>4, AtWork, InstallStep DEF Done
<1>3. CASE ~Installing(p)
  BY <1>1, <1>3, EndsWhole DEF GiveUp
<1> QED
  BY <1>2, <1>3

(* A step that is not an init's between its directory and its end.         *)
LEMMA NotInstalling ==
  ASSUME TypeInv, InstallInv, NEW p \in Procs, Moves(p), UNCHANGED <<scope, torn>>,
         ~Installing(p), ~Installing(p)'
  PROVE  InstallInv'
<1>1. \A q \in Procs \ {p} : /\ Installing(q)' = Installing(q) /\ Spot(q)' = Spot(q)
                            /\ Partial(q)' = Partial(q)
  BY DEF Moves, Installing, Spot, Cmd, Partial, TakenBack
<1>2. Installing(p)' = Installing(p)
  BY DEF Installing
<1> QED
  BY <1>1, <1>2, InstallStays

LEMMA MakeDirectoryInstall ==
  ASSUME TypeInv, InstallInv, NEW p \in Procs, MakeDirectory(p)
  PROVE  InstallInv'
<1> DEFINE w == Cmd(p).place
           d == Cmd(p).dir
<1>1. /\ proc[p] \in ProcState /\ proc[p].pc = "mkdir" /\ Cmd(p).op = "init" /\ proc[p].n = 0
      /\ Directory \notin scope[w][d].parts /\ UNCHANGED torn
  BY DEF MakeDirectory, MayMakeDirectory, TypeInv, ProcOK, WellFormed, Cmd, history
<1>2. /\ w \in Places /\ d \in Dirs /\ Spot(p) = <<w, d>> /\ Spot(p) \in Places \X Dirs
      /\ scope[w][d] \in Coherent
  BY <1>1, InitFacts DEF Spot
<1>3. /\ Moves(p) /\ proc'[p].pc = "install" /\ proc'[p].n = 0 /\ proc'[p].cmd = proc[p].cmd
  BY <1>1, MakeDirectoryMoves DEF ProcState
<1>4. \A q \in Procs \ {p} : Installing(q) => Spot(q) # Spot(p)
  <2>1. ASSUME NEW q \in Procs \ {p}, Installing(q), Spot(q) = Spot(p) PROVE FALSE
    <3>1. scope[w][d] = Partial(q)
      BY <1>2, <2>1, AtWork
    <3> QED
      BY <1>1, <3>1 DEF Partial
  <2> QED
    BY <2>1
<1>5. ~Installing(p)
  BY <1>1 DEF Installing
<1>6. Spot(p) \notin torn /\ scope[w][d] = Nothing
  <2>1. At(Spot(p)) = scope[w][d]
    BY <1>2 DEF At
  <2>2. Spot(p) \notin torn
    BY <1>1, <1>2, <2>1 DEF InstallInv
  <2>3. Done(scope[w][d])
    BY <1>2, <1>4, <1>5, <2>1, <2>2 DEF InstallInv
  <2> QED
    BY <1>1, <2>2, <2>3 DEF Done, Parts
<1>7. Installing(p)' /\ Spot(p)' = Spot(p) /\ Cmd(p)' = Cmd(p)
  BY <1>1, <1>3 DEF Installing, Spot, Cmd
<1>8. Partial(p)' = [parts |-> {Directory}, mode |-> None]
  BY <1>3 DEF Partial, TakenBack
<1>9. Puts(w, d, [parts |-> {Directory}, mode |-> None])
  <2>1. scope' = [scope EXCEPT ![w][d] = [scope[w][d] EXCEPT !.parts = @ \cup {Directory}]]
    BY <1>2 DEF MakeDirectory, TypeInv
  <2>2. [scope[w][d] EXCEPT !.parts = @ \cup {Directory}] = [parts |-> {Directory}, mode |-> None]
    BY <1>6 DEF Nothing
  <2> QED
    BY <2>1, <2>2 DEF Puts
<1>10. [parts |-> {Directory}, mode |-> None] \in Coherent
  BY DEF Coherent, ScopeFiles, Parts, Directory
<1>11. /\ scope'[w][d] = Partial(p)'
       /\ \A spot \in Places \X Dirs : spot # Spot(p) => At(spot)' = At(spot)
  BY <1>2, <1>8, <1>9, <1>10, OneChanges
<1>12. scope'[Spot(p)[1]][Spot(p)[2]] = Partial(p)'
  BY <1>2, <1>11
<1> QED
  BY <1>1, <1>2, <1>3, <1>4, <1>6, <1>7, <1>11, <1>12, InstallStep

LEMMA InstallFileInstall ==
  ASSUME TypeInv, InstallInv, NEW p \in Procs, InstallFile(p)
  PROVE  InstallInv'
<1> DEFINE w == Cmd(p).place
           d == Cmd(p).dir
           n == proc[p].n
           f == WithFile(p, Partial(p), Order[n + 1])
<1>1. /\ proc[p] \in ProcState /\ proc[p].pc = "install" /\ Installing(p) /\ n \in 0..3
      /\ UNCHANGED torn
  BY DEF InstallFile, TypeInv, ProcOK, ProcState, WellFormed, Installing, Cmd, history
<1>2. /\ w \in Places /\ d \in Dirs /\ Cmd(p).mode \in Modes /\ Spot(p) = <<w, d>>
      /\ scope[w][d] = Partial(p) /\ Partial(p) \in Coherent
  BY <1>1, AtWork, InitFacts DEF Installing
<1>3. f \in Coherent
  BY <1>1, <1>2, WithFileCoherent
<1>4. /\ scope'[w][d] = f
      /\ \A spot \in Places \X Dirs : spot # Spot(p) => At(spot)' = At(spot)
  <2>1. Puts(w, d, f)
    BY <1>2 DEF InstallFile, Puts
  <2> QED
    BY <1>2, <1>3, <2>1, OneChanges
<1>5. /\ f.parts = {Directory} \cup {Order[i] : i \in 1..(n + 1)}
      /\ f.mode = IF n + 1 >= 3 THEN Cmd(p).mode ELSE None
  <2>1. Order[n + 1] = ".dotenv-sec.yaml" <=> n + 1 = 3
    BY <1>1, OrderFacts
  <2>2. TakenBack(p) \cup {Order[n + 1]} = {Order[i] : i \in 1..(n + 1)}
    BY <1>1, OrderFacts DEF TakenBack
  <2> QED
    BY <1>1, <2>1, <2>2 DEF WithFile, Partial
<1>6. ASSUME proc'[p].n = n + 1, Cmd(p)' = Cmd(p), proc'[p].pc \in {"install", "load"}
      PROVE  Installing(p)' /\ Spot(p)' = Spot(p) /\ scope'[w][d] = Partial(p)'
  <2>1. Installing(p)' /\ Spot(p)' = Spot(p)
    BY <1>1, <1>6 DEF Installing, Spot
  <2>2. Partial(p)' = [parts |-> {Directory} \cup {Order[i] : i \in 1..(n + 1)},
                       mode |-> IF n + 1 >= 3 THEN Cmd(p).mode ELSE None]
    BY <1>6 DEF Partial, TakenBack
  <2> QED
    BY <1>4, <1>5, <2>1, <2>2 DEF WithFile
<1>7. ASSUME proc'[p] = Idle, n + 1 = 4
      PROVE  ~Installing(p)' /\ Done(scope'[w][d])
  <2>1. ~Installing(p)'
    BY <1>7 DEF Installing, Idle, Cmd
  <2>2. f.parts = Parts /\ f.mode # None
    <3>1. {Order[i] : i \in 1..4} = Files
      BY DEF Files
    <3> QED
      BY <1>2, <1>5, <1>7, <3>1, OrderFacts, NoneIsFresh
  <2> QED
    BY <1>4, <2>1, <2>2 DEF Done
<1>8. \/ proc'[p].n = n + 1 /\ Cmd(p)' = Cmd(p) /\ proc'[p].pc \in {"install", "load"}
      \/ proc'[p] = Idle /\ n + 1 = 4
  BY <1>1, InstallMoves DEF ProcState, Cmd
<1>9. Moves(p)
  BY InstallMoves
<1> QED
  BY <1>1, <1>2, <1>4, <1>6, <1>7, <1>8, <1>9, AtWork, InstallStep

LEMMA KilledInstall ==
  ASSUME TypeInv, InstallInv, NEW p \in Procs, Killed(p)
  PROVE  InstallInv'
<1>1. End(p) /\ UNCHANGED scope
  BY DEF Killed, files
<1>2. Moves(p) /\ ~Installing(p)'
  BY <1>1, EndStays DEF Moves, Installing, Idle, Cmd, NoCommand
<1>3. CASE Installing(p)
  <2>1. torn' = torn \cup {Spot(p)}
    BY <1>3 DEF Killed
  <2>2. Directory \in scope'[Spot(p)[1]][Spot(p)[2]].parts
    <3>1. scope[Spot(p)[1]][Spot(p)[2]] = Partial(p)
      BY <1>3, AtWork
    <3>2. Directory \in Partial(p).parts
      BY DEF Partial
    <3> QED
      BY <1>1, <3>1, <3>2
  <2> QED
    BY <1>1, <1>2, <1>3, <2>1, <2>2, AtWork, InstallStep DEF At
<1>4. CASE ~Installing(p)
  BY <1>1, <1>2, <1>4, NotInstalling DEF Killed
<1> QED
  BY <1>3, <1>4

LEMMA ByHandInstall ==
  ASSUME TypeInv, InstallInv, NEW w \in Places, NEW d \in Dirs, NEW f \in Coherent,
         Puts(w, d, f), Done(f), UNCHANGED proc,
         \A p \in Procs : Installing(p) => Spot(p) # <<w, d>>,
         <<w, d>> \notin torn', torn' \ {<<w, d>>} = torn \ {<<w, d>>}
  PROVE  InstallInv'
<1>1. /\ scope'[w][d] = f
      /\ \A spot \in Places \X Dirs : spot # <<w, d>> => At(spot)' = At(spot)
  BY OneChanges
<1>2. \A q \in Procs : /\ Installing(q)' = Installing(q) /\ Spot(q)' = Spot(q)
                      /\ Partial(q)' = Partial(q)
  BY DEF Installing, Spot, Cmd, Partial, TakenBack
<1>3. \A q \in Procs : Installing(q) => Spot(q) \in Places \X Dirs /\ Spot(q) # <<w, d>>
  BY InitFacts DEF Installing
<1>4. ASSUME NEW q \in Procs, Installing(q)'
      PROVE  At(Spot(q))' = Partial(q)' /\ Spot(q)' \notin torn'
  <2>1. At(Spot(q)) = Partial(q) /\ Spot(q) \notin torn
    BY <1>2, <1>4 DEF InstallInv
  <2>2. scope'[Spot(q)[1]][Spot(q)[2]] = scope[Spot(q)[1]][Spot(q)[2]]
    BY <1>1, <1>2, <1>3, <1>4 DEF At
  <2> QED
    BY <1>2, <1>3, <1>4, <2>1, <2>2 DEF At
<1>5. ASSUME NEW spot \in Places \X Dirs
      PROVE  /\ spot \in torn' => Directory \in At(spot)'.parts
             /\ spot \notin torn' /\ (\A q \in Procs : Installing(q)' => Spot(q)' # spot) =>
                  Done(At(spot))'
  <2>1. CASE spot = <<w, d>>
    BY <1>1, <2>1 DEF At, Done
  <2>2. CASE spot # <<w, d>>
    BY <1>1, <1>2, <2>2 DEF InstallInv, Done
  <2> QED
    BY <2>1, <2>2
<1> QED
  BY <1>2, <1>4, <1>5 DEF InstallInv

LEMMA InstallNext == TypeInv /\ InstallInv /\ [Next]_vars => InstallInv'
<1> SUFFICES ASSUME TypeInv, InstallInv, [Next]_vars PROVE InstallInv'
  OBVIOUS
<1> USE DEF files, history, bounds
<1>1. ASSUME NEW w \in Places, NEW d \in Dirs, NEW mode \in Modes, PutFiles(w, d, mode)
      PROVE InstallInv'
  <2>1. Puts(w, d, Whole(mode)) /\ UNCHANGED <<proc, torn>> /\ scope[w][d] = Nothing
    BY <1>1 DEF PutFiles, Puts
  <2>2. \A p \in Procs : Installing(p) => Spot(p) # <<w, d>>
    <3>1. ASSUME NEW p \in Procs, Installing(p), Spot(p) = <<w, d>> PROVE FALSE
      <4>1. scope[w][d] = Partial(p)
        BY <3>1, AtWork
      <4> QED
        BY <2>1, <4>1 DEF Partial, Nothing
    <3> QED
      BY <3>1
  <2>3. <<w, d>> \notin torn
    BY <2>1 DEF InstallInv, At, Nothing
  <2>4. Whole(mode) \in Coherent /\ Done(Whole(mode))
    BY WholeCoherent, NoneIsFresh DEF Done, Whole
  <2> QED
    BY <2>1, <2>2, <2>3, <2>4, ByHandInstall
<1>2. ASSUME NEW w \in Places, NEW d \in Dirs, RemoveFiles(w, d) PROVE InstallInv'
  <2>1. /\ Puts(w, d, Nothing) /\ UNCHANGED proc /\ torn' = torn \ {<<w, d>>}
        /\ \A p \in Procs : Installing(p) => Spot(p) # <<w, d>>
    BY <1>2 DEF RemoveFiles, Puts
  <2> QED
    BY <2>1, NothingCoherent, ByHandInstall DEF Done
<1>3. CASE UNCHANGED <<scope, proc, torn>>
  BY <1>3, InstallStays DEF Installing, Spot, Cmd, Partial, TakenBack
<1>4. ASSUME NEW p \in Procs, NEW cmd \in Command, Start(p, cmd) PROVE InstallInv'
  <2>1. Moves(p) /\ UNCHANGED <<scope, torn>> /\ ~Installing(p)
    BY <1>4, StartMoves DEF Start, Installing
  <2>2. ~Installing(p)'
    BY <1>4, CommandFacts DEF Start, Installing, Cmd, TypeInv, Idle
  <2> QED
    BY <2>1, <2>2, NotInstalling
<1>5. ASSUME NEW p \in Procs, CheckTarget(p) PROVE InstallInv'
  <2>1. Moves(p) /\ UNCHANGED <<scope, torn>> /\ ~Installing(p)
    BY <1>5, CheckMoves DEF CheckTarget, Installing
  <2>2. ~Installing(p)'
    BY <1>5 DEF CheckTarget, Goto, AfterCheck, Installing, TypeInv, ProcOK, ProcState
  <2> QED
    BY <2>1, <2>2, NotInstalling
<1>6. ASSUME NEW p \in Procs, ReadExclude(p) \/ SaveExclude(p) PROVE InstallInv'
  <2>1. Moves(p) /\ UNCHANGED <<scope, torn>> /\ ~Installing(p)
    BY <1>6, ReadExcludeMoves, SaveExcludeMoves DEF ReadExclude, SaveExclude, Installing
  <2>2. proc[p] \in ProcState
    BY DEF TypeInv, ProcOK
  <2>3. Cmd(p)' = Cmd(p) /\ proc'[p].pc \in {AfterIgnore(p), "ignoreSave"}
    <3>1. CASE ReadExclude(p)
      BY <2>2, <3>1, ReadExcludeMoves DEF ProcState, Cmd
    <3>2. CASE SaveExclude(p)
      BY <2>2, <3>2, SaveExcludeMoves DEF ProcState, Cmd
    <3> QED
      BY <1>6, <3>1, <3>2
  <2>4. ~Installing(p)'
    BY <2>3 DEF AfterIgnore, Installing, Cmd
  <2> QED
    BY <2>1, <2>4, NotInstalling
<1>7. ASSUME NEW p \in Procs, LoadRegistry(p) PROVE InstallInv'
  <2>1. Moves(p) /\ UNCHANGED <<scope, torn>> /\ proc[p].pc = "load"
    BY <1>7, LoadMoves DEF LoadRegistry
  <2>2. CASE AlreadyThere(p)
    BY <1>7, <2>1, <2>2, EndsWhole DEF LoadRegistry
  <2>3. CASE ~AlreadyThere(p)
    <3>1. proc'[p] = [proc[p] EXCEPT !.pc = "save", !.copy = Changed(p)]
      BY <1>7, <2>3 DEF LoadRegistry, TypeInv
    <3>2. proc'[p].pc = "save" /\ proc'[p].cmd = proc[p].cmd /\ proc'[p].n = proc[p].n
      BY <3>1 DEF TypeInv, ProcOK, ProcState
    <3>3. /\ Installing(p)' = Installing(p) /\ Spot(p)' = Spot(p)
          /\ Partial(p)' = Partial(p)
      BY <2>1, <3>2 DEF Installing, Spot, Cmd, Partial, TakenBack
    <3>4. \A q \in Procs \ {p} : /\ Installing(q)' = Installing(q) /\ Spot(q)' = Spot(q)
                                /\ Partial(q)' = Partial(q)
      BY <2>1 DEF Moves, Installing, Spot, Cmd, Partial, TakenBack
    <3> QED
      BY <2>1, <3>3, <3>4, InstallStays
  <2> QED
    BY <2>2, <2>3
<1>8. ASSUME NEW p \in Procs, SaveRegistry(p) PROVE InstallInv'
  BY <1>8, EndsWhole DEF SaveRegistry
<1>9. ASSUME NEW p \in Procs, Refused(p) \/ Fails(p) PROVE InstallInv'
  BY <1>9, GiveUpInstall DEF Refused, Fails
<1> QED
  BY <1>1, <1>2, <1>3, <1>4, <1>5, <1>6, <1>7, <1>8, <1>9, MakeDirectoryInstall,
     InstallFileInstall, KilledInstall
     DEF Next, Step, MoveMain, vars

(* Where no init is at work and none was killed, a scope is whole or not   *)
(* there at all.                                                           *)
THEOREM WholeOrNothing == Spec => []AllOrNone
<1>1. TypeInv /\ InstallInv => AllOrNone
  <2> SUFFICES ASSUME TypeInv, InstallInv, NEW w \in Places, NEW d \in Dirs,
                      <<w, d>> \notin torn,
                      \A p \in Procs : Installing(p) => Spot(p) # <<w, d>>
               PROVE  Done(scope[w][d])
    BY DEF AllOrNone, Done
  <2>1. At(<<w, d>>) = scope[w][d]
    BY DEF At
  <2> QED
    BY <2>1 DEF InstallInv
<1>2. TypeInv /\ InstallInv /\ [Next]_vars => TypeInv' /\ InstallInv'
  BY TypeNext, InstallNext
<1> QED
  BY TypeInit, InstallInit, <1>1, <1>2, PTL DEF Spec
-----------------------------------------------------------------------------
(* The nearest scope.  Lengths are bounded, so one of the directories above*)
(* is the nearest; and only one, for all are prefixes of the same path.    *)

LEMMA NearestExists ==
  ASSUME NEW S, S # {}, NEW b \in Nat, \A e \in S : Len(e) \in 0..b
  PROVE  Nearest(S) # {}
<1> DEFINE T == {b - Len(e) : e \in S}
<1>1. T \subseteq Nat /\ T # {}
  OBVIOUS
<1>2. \E x \in T : \A y \in T : <<y, x>> \notin OpToRel(<, Nat)
  <2> HIDE DEF T
  <2> QED
    BY <1>1, NatLessThanWellFounded, WFMin
<1>3. PICK d \in S : \A e \in S : <<b - Len(e), b - Len(d)>> \notin OpToRel(<, Nat)
  BY <1>2
<1>4. ASSUME NEW e \in S PROVE Len(e) <= Len(d)
  <2>1. \A x, y \in Nat : x < y => <<x, y>> \in OpToRel(<, Nat)
    BY DEF OpToRel
  <2>2. b - Len(e) \in Nat /\ b - Len(d) \in Nat
    OBVIOUS
  <2>3. ~(b - Len(e) < b - Len(d))
    BY <1>3, <2>1, <2>2
  <2> QED
    BY <2>3
<1> QED
  BY <1>4 DEF Nearest

LEMMA AboveFacts ==
  ASSUME NEW d \in Dirs
  PROVE  /\ Above[d] \subseteq Dirs
         /\ Len(d) \in Nat /\ \A p \in Above[d] : Len(p) \in 0..Len(d)
         /\ \A p, q \in Above[d] : Len(p) = Len(q) => p = q
<1>1. \A p \in Dirs : p \in Seq(STRING) /\ Len(p) \in Nat
  BY DirsAreSequences
<1>2. \A p \in Above[d] : p \in Dirs /\ Len(p) <= Len(d) /\ SubSeq(p, 1, Len(p)) = SubSeq(d, 1, Len(p))
  BY DEF Above, RelativeContains, IsPrefix
<1>3. \A p \in Seq(STRING) : SubSeq(p, 1, Len(p)) = p
  OBVIOUS
<1>4. ASSUME NEW p \in Above[d], NEW q \in Above[d], Len(p) = Len(q) PROVE p = q
  BY <1>1, <1>2, <1>3, <1>4
<1>5. \A p \in Above[d] : Len(p) \in 0..Len(d)
  BY <1>1, <1>2
<1> QED
  BY <1>1, <1>2, <1>4, <1>5

(* What is nearest of the directories above d that are in S.               *)
LEMMA NearestFacts ==
  ASSUME NEW d \in Dirs, NEW S, S \subseteq Above[d]
  PROVE  /\ S # {} => Nearest(S) # {}
         /\ Nearest(S) \subseteq S
         /\ \A p \in Nearest(S), q \in S : Len(p) \in Nat /\ Len(q) \in Nat /\ Len(q) <= Len(p)
         /\ \A p \in Nearest(S), q \in S : q # p => Len(q) < Len(p)
<1>1. Len(d) \in Nat /\ \A p \in S : Len(p) \in 0..Len(d)
  BY AboveFacts
<1>2. S # {} => Nearest(S) # {}
  BY <1>1, NearestExists
<1>3. Nearest(S) \subseteq S
  BY DEF Nearest
<1>4. \A p \in Nearest(S), q \in S : Len(p) \in Nat /\ Len(q) \in Nat /\ Len(q) <= Len(p)
  BY <1>1 DEF Nearest
<1>5. ASSUME NEW p \in Nearest(S), NEW q \in S, q # p PROVE Len(q) < Len(p)
  <2>1. Len(q) # Len(p)
    BY <1>3, <1>5, AboveFacts
  <2> QED
    BY <1>4, <2>1
<1> QED
  BY <1>2, <1>3, <1>4, <1>5

Physical(w, d) == {q \in Above[d] : scope[w][q].mode # None}
Inheritable(d) == Registered \cap Above[d]

Wins(r, w, d) ==
    /\ r.kind = "found" =>
         r \in Competitors(w, d) /\ \A c \in Competitors(w, d) \ {r} : Beats(r, c)
    /\ r.kind = "absent" => Competitors(w, d) = {}

(* The nearest physical scope wins when nothing inherited is deeper.       *)
LEMMA PhysicalScopeWins ==
  ASSUME NEW w \in Places, NEW d \in Dirs, NEW p \in Nearest(Physical(w, d)),
         w = "linked" => \A q \in Inheritable(d) : Len(q) \in Nat /\ Len(q) <= Len(p)
  PROVE  Wins(Found(w, p), w, d)
<1>1. /\ p \in Physical(w, d)
      /\ \A q \in Physical(w, d) : q # p => Len(q) < Len(p)
      /\ Len(p) \in Nat
  BY NearestFacts DEF Physical
<1>2. Found(w, p) \in Competitors(w, d)
  BY <1>1 DEF Competitors, Physical
<1>3. ASSUME NEW c \in Competitors(w, d) \ {Found(w, p)} PROVE Beats(Found(w, p), c)
  <2>1. CASE \E q \in Physical(w, d) : c = Found(w, q)
    <3>1. PICK q \in Physical(w, d) : c = Found(w, q) /\ q # p
      BY <1>3, <2>1
    <3> QED
      BY <1>1, <3>1 DEF Beats, Found
  <2>2. CASE w = "linked" /\ \E q \in Inheritable(d) : c = Found("main", q)
    <3>1. PICK q \in Inheritable(d) : c = Found("main", q)
      BY <2>2
    <3> QED
      BY <1>1, <2>2, <3>1 DEF Beats, Found
  <2> QED
    BY <1>3, <2>1, <2>2 DEF Competitors, Physical, Inheritable
<1> QED
  BY <1>2, <1>3 DEF Wins, Found

(* The nearest inherited scope wins when every physical one is farther up. *)
LEMMA InheritedScopeWins ==
  ASSUME NEW d \in Dirs, NEW p \in Nearest(Inheritable(d)),
         \A q \in Physical("linked", d) : Len(q) \in Nat /\ Len(q) < Len(p)
  PROVE  Wins(Found("main", p), "linked", d)
<1>1. /\ p \in Inheritable(d)
      /\ \A q \in Inheritable(d) : q # p => Len(q) < Len(p)
      /\ Len(p) \in Nat
  BY NearestFacts DEF Inheritable
<1>2. Found("main", p) \in Competitors("linked", d)
  BY <1>1 DEF Competitors, Inheritable
<1>3. ASSUME NEW c \in Competitors("linked", d) \ {Found("main", p)}
      PROVE  Beats(Found("main", p), c)
  <2>1. CASE \E q \in Physical("linked", d) : c = Found("linked", q)
    <3>1. PICK q \in Physical("linked", d) : c = Found("linked", q)
      BY <2>1
    <3> QED
      BY <3>1 DEF Beats, Found
  <2>2. CASE \E q \in Inheritable(d) : c = Found("main", q)
    <3>1. PICK q \in Inheritable(d) : c = Found("main", q) /\ q # p
      BY <1>3, <2>2
    <3> QED
      BY <1>1, <3>1 DEF Beats, Found
  <2> QED
    BY <1>3, <2>1, <2>2 DEF Competitors, Physical, Inheritable
<1> QED
  BY <1>2, <1>3 DEF Wins, Found

LEMMA ErrorWins ==
  ASSUME NEW w, NEW d
  PROVE  Wins(Error, w, d)
  BY DEF Wins, Error

LEMMA AbsentWins ==
  ASSUME NEW w \in Places, NEW d \in Dirs, Physical(w, d) = {},
         w = "linked" => Inheritable(d) = {}
  PROVE  Wins(NotConfigured, w, d)
  BY DEF Wins, NotConfigured, Competitors, Physical, Inheritable

LEMMA NearestIsIt ==
  ASSUME TypeInv, NEW w \in Places, NEW d \in Dirs, ~Missing(w, d)
  PROVE  Wins(Resolve(w, d), w, d)
<1> DEFINE physical == NearestConfig(w, d)
           inherited == ResolveInherited(w, d)
           nearer == {p \in physical : PhysicalWins(p, inherited)}
           selected == Nearest(Inheritable(d))
<1>1. /\ physical = Nearest(Physical(w, d))
      /\ physical \subseteq Physical(w, d) /\ (Physical(w, d) # {} => physical # {})
      /\ \A p \in physical, q \in Physical(w, d) :
           Len(p) \in Nat /\ Len(q) \in Nat /\ Len(q) <= Len(p)
  BY NearestFacts DEF NearestConfig, Physical
<1>2. /\ selected \subseteq Inheritable(d) /\ (Inheritable(d) # {} => selected # {})
      /\ \A p \in selected, q \in Inheritable(d) :
           Len(p) \in Nat /\ Len(q) \in Nat /\ Len(q) <= Len(p)
  BY NearestFacts DEF Inheritable
<1> HIDE DEF physical, selected
<1>3. CASE w = "plain"
  <2>1. CASE physical = {}
    <3>1. Resolve(w, d) = NotConfigured
      BY <1>3, <2>1 DEF Resolve, ResolveFilesystemLocal, physical
    <3> QED
      BY <1>1, <1>3, <2>1, <3>1, AbsentWins
  <2>2. CASE physical # {}
    <3>1. PICK p \in physical : Resolve(w, d) = Error \/ Resolve(w, d) = Found(w, p)
      BY <1>3, <2>2 DEF Resolve, ResolveFilesystemLocal, physical
    <3>2. Wins(Found(w, p), w, d)
      BY <1>1, <1>3, PhysicalScopeWins
    <3> QED
      BY <3>1, <3>2, ErrorWins
  <2> QED
    BY <2>1, <2>2
<1>4. CASE w # "plain" /\ inherited.kind = "error"
  BY <1>4, ErrorWins DEF Resolve
<1>5. ASSUME NEW p \in physical
      PROVE  IdentityForFilesystemScope(w, p) \in {Error, Found(w, p)}
  BY DEF IdentityForFilesystemScope
<1>6. CASE w # "plain" /\ inherited = NotConfigured /\ (w = "linked" => Inheritable(d) = {})
  <2>1. nearer = physical
    BY <1>6 DEF PhysicalWins, NotConfigured
  <2>2. CASE physical = {}
    <3>1. Resolve(w, d) = NotConfigured
      BY <1>6, <2>1, <2>2 DEF Resolve, NotConfigured, physical
    <3> QED
      BY <1>1, <1>6, <2>2, <3>1, AbsentWins
  <2>3. CASE physical # {}
    <3>1. PICK p \in physical : Resolve(w, d) = IdentityForFilesystemScope(w, p)
      <4> DEFINE q == CHOOSE q \in nearer : TRUE
      <4>1. q \in nearer
        BY <2>1, <2>3
      <4>2. Resolve(w, d) = IdentityForFilesystemScope(w, q)
        BY <1>6, <2>1, <2>3 DEF Resolve, NotConfigured, physical
      <4> QED
        BY <2>1, <4>1, <4>2
    <3>2. Wins(Found(w, p), w, d)
      BY <1>1, <1>6, PhysicalScopeWins
    <3> QED
      BY <1>5, <3>1, <3>2, ErrorWins
  <2> QED
    BY <2>2, <2>3
<1>7. ASSUME NEW p \in selected, w = "linked", inherited = Found("main", p)
      PROVE  Wins(Resolve(w, d), w, d)
  <2>1. nearer = {q \in physical : Len(q) >= Len(p)}
    BY <1>7 DEF PhysicalWins, Found
  <2>2. CASE nearer = {}
    <3>1. Resolve(w, d) = Found("main", p)
      BY <1>7, <2>2 DEF Resolve, Found, physical
    <3>2. \A q \in Physical(w, d) : Len(q) \in Nat /\ Len(q) < Len(p)
      BY <1>1, <1>2, <2>1, <2>2
    <3> QED
      BY <1>7, <3>1, <3>2, InheritedScopeWins DEF selected
  <2>3. CASE nearer # {}
    <3>1. PICK q \in nearer : Resolve(w, d) = IdentityForFilesystemScope(w, q)
      <4> DEFINE q == CHOOSE q \in nearer : TRUE
      <4>1. q \in nearer
        BY <2>3
      <4>2. Resolve(w, d) = IdentityForFilesystemScope(w, q)
        BY <1>7, <2>3 DEF Resolve, Found, physical
      <4> QED
        BY <4>1, <4>2
    <3>2. q \in physical /\ Len(q) >= Len(p)
      BY <2>1
    <3>3. \A i \in Inheritable(d) : Len(i) \in Nat /\ Len(i) <= Len(q)
      BY <1>1, <1>2, <3>2
    <3>4. Wins(Found(w, q), w, d)
      BY <1>1, <3>2, <3>3, PhysicalScopeWins
    <3> QED
      BY <1>5, <3>1, <3>2, <3>4, ErrorWins
  <2> QED
    BY <2>2, <2>3
<1>8. CASE w # "linked" /\ w # "plain"
  BY <1>6, <1>8 DEF ResolveInherited
<1>9. CASE w = "linked" /\ registry = None
  BY <1>6, <1>9 DEF ResolveInherited, Inheritable, Registered
<1>10. CASE w = "linked" /\ registry # None /\ registry.owner # home
  BY <1>4, <1>10 DEF ResolveInherited, Error
<1>11. CASE w = "linked" /\ registry # None /\ registry.owner = home
  <2>1. selected = Nearest(registry.scopes \cap Above[d])
    BY <1>11 DEF selected, Inheritable, Registered
  <2>2. CASE selected = {}
    <3>1. inherited = NotConfigured
      BY <1>11, <2>1, <2>2 DEF ResolveInherited
    <3> QED
      BY <1>2, <1>6, <1>11, <2>2, <3>1
  <2>3. CASE selected # {}
    <3>1. PICK p \in selected : inherited = InheritedConfig(p)
      BY <1>11, <2>1, <2>3 DEF ResolveInherited
    <3>2. scope["main"][p].mode # None
      BY <1>11, <3>1 DEF Missing, SelectedMode, selected, Inheritable
    <3>3. inherited = Found("main", p) \/ inherited = Error
      BY <3>1, <3>2 DEF InheritedConfig
    <3>4. CASE inherited = Error
      BY <1>4, <1>11, <3>4 DEF Error
    <3> QED
      BY <1>7, <1>11, <3>1, <3>3, <3>4
  <2> QED
    BY <2>2, <2>3
<1> QED
  BY <1>3, <1>8, <1>9, <1>10, <1>11

(* Wherever the selected inherited scope has its config, no directory gets *)
(* a scope of another directory than the nearest, and none counts as not   *)
(* configured to which a scope applies.                                    *)
THEOREM NearestWins == Spec => []NearestScopeWinsUnlessMissing
<1>1. TypeInv => NearestScopeWinsUnlessMissing
  BY NearestIsIt DEF NearestScopeWinsUnlessMissing, NearestOrNothing, Wins
<1> QED
  BY TypeInvariant, <1>1, PTL
=============================================================================
