------------------------- MODULE SettingsFileProofs -------------------------
(***************************************************************************)
(* The settings file for every number of terminals, commands and upgrades. *)
(* Saves that overtake each other lose updates, but they only ever bring   *)
(* back what was in the file before: an approval that is found in it was   *)
(* given by the user for that very executable.  And as long as no save is  *)
(* made from an overtaken copy nothing is lost at all.                     *)
(***************************************************************************)
EXTENDS SettingsFile, TLAPS

Holding(p) == proc[p].pc \in {"refreshSave", "save"}

(* A process about to save holds a copy of the whole file, made after it   *)
(* looked at what its command needs.                                       *)
CopiesAreWhole ==
    \A p \in Procs :
        /\ Holding(p) => proc[p].copy \in Settings
        /\ proc[p].pc = "refreshSave" => proc[p].copy.provider.source # "manual"
        /\ proc[p].pc \in {"load", "save"} => proc[p].cmd \in Command
        /\ proc[p].pc = "save" /\ proc[p].cmd.op = "retool" =>
             Registered(proc[p].copy)

TypeInv == TypeOK /\ CopiesAreWhole

LEMMA TypeInit == Init => TypeInv
<1> SUFFICES ASSUME Init PROVE TypeInv
  OBVIOUS
<1>1. file \in Settings
  BY BoundsAreNat DEF Init, Settings, Entry, NoEntry, Sums, Versions
<1>2. proc = [p \in Procs |-> Idle]
  BY DEF Init
<1>3. installed \in Versions /\ 0 \in Versions /\ typed \in 0..MaxCommands /\ kills \in 0..MaxKills
  BY BoundsAreNat DEF Init, Versions
<1>4. identityFile \in BOOLEAN /\ overlapped \in BOOLEAN
  BY DEF Init
<1>5. given \in [approval : Hashes \cup {None}, editor : Editors \cup {None},
                tool : Tools \cup {None}, manual : BOOLEAN]
  BY DEF Init
<1>6. CopiesAreWhole
  BY <1>2 DEF CopiesAreWhole, Holding, Idle
<1>7. proc \in [Procs ->
         [pc : {"idle", "discover", "refresh", "refreshSave", "load", "save"},
          cmd : Command \cup {Prompt}, seen : Versions, copy : Settings \cup {None}]]
  BY <1>2, <1>3 DEF Idle
<1> QED
  BY <1>1, <1>3, <1>4, <1>5, <1>6, <1>7 DEF Init, TypeInv, TypeOK

(* What each command writes is a settings file again.                      *)
LEMMA ChangedTyped ==
  ASSUME NEW cmd \in Command, NEW s \in Settings,
         cmd.op = "retool" => Registered(s)
  PROVE  Changed(cmd, s) \in Settings
<1> USE DEF Settings, Command
<1>1. CASE cmd.op = "allow"
  BY <1>1, BoundsAreNat DEF Changed, Hash, Hashes, Entry, NoEntry, Sums, Versions
<1>2. CASE cmd.op = "register"
  BY <1>2 DEF Changed, RegisteredAs, Entry, NoEntry
<1>3. CASE cmd.op = "retool"
  BY <1>3 DEF Changed, Registered, Entry, NoEntry
<1>4. CASE cmd.op = "revoke"
  BY <1>4 DEF Changed
<1>5. CASE cmd.op = "editor"
  BY <1>5 DEF Changed
<1>6. CASE cmd.op = "enrol"
  BY <1>6 DEF Changed
<1> QED
  BY <1>1, <1>2, <1>3, <1>4, <1>5, <1>6

(* ... and so is what a refresh writes.                                    *)
LEMMA BundledTyped ==
  ASSUME NEW s \in Settings, NEW sum \in Versions
  PROVE  Bundled(s, sum) \in Settings
  BY DEF Bundled, Settings, Entry, NoEntry, Sums

LEMMA ExpectedTyped ==
  ASSUME TypeOK, NEW cmd \in Command, NEW s \in Settings
  PROVE  Expected(cmd, s) \in [approval : Hashes \cup {None}, editor : Editors \cup {None},
                               tool : Tools \cup {None}, manual : BOOLEAN]
<1>1. s.provider.sum \in Sums
  BY BoundsAreNat DEF Settings, Entry, NoEntry, Sums, Versions
<1>2. cmd.op = "allow" => <<cmd.arg, s.provider.sum>> \in Hashes
  BY <1>1 DEF Command, Hashes
<1>3. given \in [approval : Hashes \cup {None}, editor : Editors \cup {None},
                tool : Tools \cup {None}, manual : BOOLEAN]
  BY DEF TypeOK
<1>4. CASE cmd.op = "allow"
  BY <1>2, <1>3, <1>4 DEF Expected
<1>5. CASE cmd.op = "register"
  BY <1>3, <1>5 DEF Expected
<1>6. CASE cmd.op = "retool"
  BY <1>3, <1>6 DEF Expected, Command
<1>7. CASE cmd.op = "revoke"
  BY <1>3, <1>7 DEF Expected
<1>8. CASE cmd.op = "editor"
  BY <1>3, <1>8 DEF Expected, Command
<1>9. CASE cmd.op = "enrol"
  BY <1>3, <1>9 DEF Expected
<1> QED
  BY <1>4, <1>5, <1>6, <1>7, <1>8, <1>9 DEF Command

Process == [pc : {"idle", "discover", "refresh", "refreshSave", "load", "save"},
            cmd : Command \cup {Prompt}, seen : Versions, copy : Settings \cup {None}]

(* What a step of one process does to the processes.                       *)
LEMMA OneProcess ==
  ASSUME TypeInv, NEW p \in Procs, NEW state \in Process,
         proc' = [proc EXCEPT ![p] = state],
         /\ state.pc \in {"refreshSave", "save"} => state.copy \in Settings
         /\ state.pc = "refreshSave" => state.copy.provider.source # "manual"
         /\ state.pc \in {"load", "save"} => state.cmd \in Command
         /\ state.pc = "save" /\ state.cmd.op = "retool" => Registered(state.copy)
  PROVE  proc' \in [Procs -> Process] /\ CopiesAreWhole'
  BY DEF TypeInv, TypeOK, CopiesAreWhole, Holding, Process, Registered

LEMMA IdleTyped == Idle \in Process
  BY BoundsAreNat DEF Idle, Process, Versions

LEMMA AfterRefreshTyped ==
  ASSUME TypeInv, NEW p \in Procs, AfterRefresh(p)
  PROVE  proc' \in [Procs -> Process] /\ CopiesAreWhole'
<1>1. CASE proc[p].cmd = Prompt
  <2>1. Idle.pc = "idle"
    BY DEF Idle
  <2> QED
    BY <1>1, <2>1, IdleTyped, OneProcess DEF AfterRefresh
<1>2. CASE proc[p].cmd # Prompt
  <2> DEFINE state == [proc[p] EXCEPT !.pc = "load"]
  <2>1. state \in Process /\ state.pc = "load" /\ state.cmd \in Command
    BY <1>2 DEF TypeInv, TypeOK, Process
  <2>2. proc' = [proc EXCEPT ![p] = state]
    BY <1>2 DEF AfterRefresh, Goto
  <2> HIDE DEF state
  <2> QED
    BY <2>1, <2>2, OneProcess
<1> QED
  BY <1>1, <1>2

LEMMA AbandonTyped ==
  ASSUME TypeInv, NEW p \in Procs, Abandon(p)
  PROVE  proc' \in [Procs -> Process] /\ CopiesAreWhole'
<1>1. Idle.pc = "idle"
  BY DEF Idle
<1> QED
  BY <1>1, IdleTyped, OneProcess DEF Abandon

LEMMA TypeNext == TypeInv /\ [Next]_vars => TypeInv'
<1> SUFFICES ASSUME TypeInv, [Next]_vars PROVE TypeInv'
  OBVIOUS
<1> USE DEF TypeOK
<1>0. /\ proc \in [Procs -> Process] /\ installed \in Nat
      /\ MaxUpgrades \in Nat /\ MaxCommands \in Nat /\ MaxKills \in Nat
  BY BoundsAreNat DEF TypeInv, Process, Versions
<1>1. ASSUME Upgrade
      PROVE TypeInv'
  BY <1>0, <1>1 DEF Upgrade, TypeInv, CopiesAreWhole, Holding, Versions
<1>2. ASSUME IdentityFileGoesOrReturns
      PROVE TypeInv'
  BY <1>2 DEF IdentityFileGoesOrReturns, TypeInv, CopiesAreWhole, Holding
<1>3. ASSUME NEW p \in Procs, NEW cmd \in Command \cup {Prompt}, Start(p, cmd)
      PROVE TypeInv'
  <2> DEFINE state == [Idle EXCEPT !.pc = "discover", !.cmd = cmd]
  <2>1. state \in Process /\ state.pc = "discover"
    BY IdleTyped DEF Process, Idle
  <2>2. proc' = [proc EXCEPT ![p] = state]
    BY <1>3 DEF Start
  <2> HIDE DEF state
  <2>3. proc' \in [Procs -> Process] /\ CopiesAreWhole'
    BY <2>1, <2>2, OneProcess
  <2>4. typed' \in 0..MaxCommands
    BY <1>0, <1>3 DEF Start, TypeInv
  <2> QED
    BY <1>3, <2>3, <2>4 DEF Start, TypeInv, Process
<1>4. ASSUME NEW p \in Procs, Discover(p)
      PROVE TypeInv'
  <2>1. proc' \in [Procs -> Process] /\ CopiesAreWhole'
    <3>1. CASE installed = 0
      BY <1>4, <3>1, AfterRefreshTyped DEF Discover
    <3>2. CASE installed # 0
      <4> DEFINE state == [proc[p] EXCEPT !.pc = "refresh", !.seen = installed]
      <4>1. state \in Process /\ state.pc = "refresh"
        BY <1>0 DEF TypeInv, Process
      <4>2. proc' = [proc EXCEPT ![p] = state]
        BY <1>4, <3>2 DEF Discover
      <4> HIDE DEF state
      <4> QED
        BY <4>1, <4>2, OneProcess
    <3> QED
      BY <3>1, <3>2
  <2> QED
    BY <1>4, <2>1 DEF Discover, TypeInv, Process
<1>5. ASSUME NEW p \in Procs, LoadForRefresh(p)
      PROVE TypeInv'
  <2>1. proc' \in [Procs -> Process] /\ CopiesAreWhole'
    <3>1. CASE KeepsEntry(file.provider, proc[p].seen)
      BY <1>5, <3>1, AfterRefreshTyped DEF LoadForRefresh
    <3>2. CASE ~KeepsEntry(file.provider, proc[p].seen)
      <4> DEFINE state == [proc[p] EXCEPT !.pc = "refreshSave", !.copy = file]
      <4>1. state \in Process /\ state.pc = "refreshSave" /\ state.copy = file
        BY <1>0 DEF TypeInv, Process
      <4>2. proc' = [proc EXCEPT ![p] = state]
        BY <1>5, <3>2 DEF LoadForRefresh
      <4>3. file \in Settings /\ file.provider.source # "manual"
        BY <3>2 DEF TypeInv, KeepsEntry
      <4> HIDE DEF state
      <4> QED
        BY <4>1, <4>2, <4>3, OneProcess
    <3> QED
      BY <3>1, <3>2
  <2> QED
    BY <1>5, <2>1 DEF LoadForRefresh, TypeInv, Process
<1>6. ASSUME NEW p \in Procs, RefreshSave(p)
      PROVE TypeInv'
  <2>1. proc' \in [Procs -> Process] /\ CopiesAreWhole'
    BY <1>6, AfterRefreshTyped DEF RefreshSave
  <2>2. file' \in Settings
    <3>1. proc[p].copy \in Settings /\ proc[p].seen \in Versions
      BY <1>0, <1>6 DEF RefreshSave, TypeInv, CopiesAreWhole, Holding, Process
    <3> QED
      BY <1>6, <3>1, BundledTyped DEF RefreshSave, Save
  <2>3. overlapped' \in BOOLEAN
    BY <1>6 DEF RefreshSave, Save, TypeInv
  <2>4. stale' \subseteq Procs
    BY <1>6 DEF RefreshSave, Save, TypeInv
  <2> QED
    BY <1>6, <2>1, <2>2, <2>3, <2>4 DEF RefreshSave, TypeInv, Process
<1>7. ASSUME NEW p \in Procs, LoadForCommand(p)
      PROVE TypeInv'
  <2> DEFINE state == [proc[p] EXCEPT !.pc = "save", !.copy = file]
  <2>1. state \in Process /\ state.pc = "save" /\ state.copy = file /\ state.cmd = proc[p].cmd
    BY <1>0 DEF TypeInv, Process
  <2>2. proc' = [proc EXCEPT ![p] = state]
    BY <1>7 DEF LoadForCommand
  <2>3. file \in Settings /\ proc[p].cmd \in Command
    BY <1>7 DEF LoadForCommand, TypeInv, CopiesAreWhole
  <2>4. proc[p].cmd.op = "retool" => Registered(file)
    BY <1>7 DEF LoadForCommand, Permitted
  <2> HIDE DEF state
  <2>5. proc' \in [Procs -> Process] /\ CopiesAreWhole'
    BY <2>1, <2>2, <2>3, <2>4, OneProcess
  <2>6. identityFile' \in BOOLEAN
    BY <1>7 DEF LoadForCommand, TypeInv
  <2> QED
    BY <1>7, <2>5, <2>6 DEF LoadForCommand, TypeInv, Process
<1>8. ASSUME NEW p \in Procs, SaveForCommand(p)
      PROVE TypeInv'
  <2>1. Idle.pc = "idle"
    BY DEF Idle
  <2>2. proc' \in [Procs -> Process] /\ CopiesAreWhole'
    BY <1>8, <2>1, IdleTyped, OneProcess DEF SaveForCommand
  <2>3. /\ proc[p].copy \in Settings /\ proc[p].cmd \in Command
        /\ proc[p].cmd.op = "retool" => Registered(proc[p].copy)
    BY <1>8 DEF SaveForCommand, TypeInv, CopiesAreWhole, Holding
  <2>4. file' \in Settings
    BY <1>8, <2>3, ChangedTyped DEF SaveForCommand, Save
  <2>5. given' \in [approval : Hashes \cup {None}, editor : Editors \cup {None},
                   tool : Tools \cup {None}, manual : BOOLEAN]
    BY <1>8, <2>3, ExpectedTyped DEF SaveForCommand, TypeInv
  <2>6. reviewed' \subseteq Hashes
    <3>1. proc[p].copy.provider.sum \in Sums
      BY <2>3, BoundsAreNat DEF Settings, Entry, NoEntry, Sums, Versions
    <3>2. proc[p].cmd.op = "allow" => <<proc[p].cmd.arg, proc[p].copy.provider.sum>> \in Hashes
      BY <2>3, <3>1 DEF Command, Hashes
    <3> QED
      BY <1>8, <3>2 DEF SaveForCommand, TypeInv
  <2>7. overlapped' \in BOOLEAN
    BY <1>8 DEF SaveForCommand, Save, TypeInv
  <2>8. stale' \subseteq Procs
    BY <1>8 DEF SaveForCommand, Save, TypeInv
  <2> QED
    BY <1>8, <2>2, <2>4, <2>5, <2>6, <2>7, <2>8 DEF SaveForCommand, TypeInv, Process
<1>9. ASSUME NEW p \in Procs, Refused(p)
      PROVE TypeInv'
  BY <1>9, AbandonTyped DEF Refused, Abandon, TypeInv, Process
<1>10. ASSUME NEW p \in Procs, Dies(p)
       PROVE TypeInv'
  <2>1. kills' \in 0..MaxKills
    BY <1>0, <1>10 DEF Dies, TypeInv
  <2>2. proc' \in [Procs -> Process] /\ CopiesAreWhole'
    BY <1>10, AbandonTyped DEF Dies
  <2> QED
    BY <1>10, <2>1, <2>2 DEF Dies, Abandon, TypeInv, Process
<1>11. CASE UNCHANGED vars
  BY <1>11 DEF vars, TypeInv, CopiesAreWhole, Holding
<1> QED
  BY <1>1, <1>2, <1>3, <1>4, <1>5, <1>6, <1>7, <1>8, <1>9, <1>10, <1>11 DEF Next, Step

(* Each variable keeps its type, whatever copy is saved over whatever: the *)
(* file never holds half of an entry.                                      *)
THEOREM TypeCorrect == Spec => []TypeOK
<1>1. TypeInv => TypeOK
  BY DEF TypeInv
<1> QED
  BY TypeInit, TypeNext, <1>1, PTL DEF Spec

-----------------------------------------------------------------------------
(* Approvals.  The file and every copy of it hold an approval the user     *)
(* gave, or none; a save can only move one to the other.                   *)
ApprovalsGiven ==
    /\ file.approval \in reviewed \cup {None}
    /\ \A p \in Procs : Holding(p) => proc[p].copy.approval \in reviewed \cup {None}

LEMMA ChangedApproval ==
  ASSUME NEW cmd \in Command, NEW s \in Settings
  PROVE  \/ Changed(cmd, s).approval = s.approval
         \/ /\ cmd.op = "allow"
            /\ Changed(cmd, s).approval = <<cmd.arg, s.provider.sum>>
  BY DEF Changed, Command, Settings, Hash

LEMMA AfterRefreshLetsGo ==
  ASSUME TypeInv, NEW p \in Procs, AfterRefresh(p)
  PROVE  \A q \in Procs : proc'[q].pc \in {"refreshSave", "save"} =>
            q # p /\ proc'[q] = proc[q]
<1>1. proc \in [Procs -> Process] /\ Idle.pc = "idle"
  BY DEF TypeInv, TypeOK, Process, Idle
<1>2. CASE proc[p].cmd = Prompt
  BY <1>1, <1>2 DEF AfterRefresh
<1>3. CASE proc[p].cmd # Prompt
  <2>1. proc' = [proc EXCEPT ![p] = [proc[p] EXCEPT !.pc = "load"]]
    BY <1>3 DEF AfterRefresh, Goto
  <2>2. [proc[p] EXCEPT !.pc = "load"].pc = "load"
    BY <1>1 DEF Process
  <2> QED
    BY <1>1, <2>1, <2>2
<1> QED
  BY <1>2, <1>3

LEMMA ApprovalsNext ==
  TypeInv /\ ApprovalsGiven /\ [Next]_vars => ApprovalsGiven'
<1> SUFFICES ASSUME TypeInv, ApprovalsGiven, [Next]_vars PROVE ApprovalsGiven'
  OBVIOUS
<1>0. proc \in [Procs -> Process]
  BY DEF TypeInv, TypeOK, Process
<1> USE DEF ApprovalsGiven, Holding
<1>1. ASSUME NEW p \in Procs, LoadForRefresh(p)
      PROVE ApprovalsGiven'
  <2>1. CASE KeepsEntry(file.provider, proc[p].seen)
    BY <1>0, <1>1, <2>1, AfterRefreshLetsGo DEF LoadForRefresh
  <2>2. CASE ~KeepsEntry(file.provider, proc[p].seen)
    BY <1>0, <1>1, <2>2 DEF LoadForRefresh, Process
  <2> QED
    BY <2>1, <2>2
<1>2. ASSUME NEW p \in Procs, LoadForCommand(p)
      PROVE ApprovalsGiven'
  BY <1>0, <1>2 DEF LoadForCommand
<1>3. ASSUME NEW p \in Procs, RefreshSave(p)
      PROVE ApprovalsGiven'
  <2>1. proc[p].copy \in Settings /\ proc[p].copy.approval \in reviewed \cup {None}
    BY <1>3 DEF RefreshSave, TypeInv, CopiesAreWhole
  <2>2. file'.approval = proc[p].copy.approval
    BY <1>3, <2>1 DEF RefreshSave, Save, Bundled, Settings
  <2> QED
    BY <1>0, <1>3, <2>1, <2>2, AfterRefreshLetsGo DEF RefreshSave
<1>4. ASSUME NEW p \in Procs, SaveForCommand(p)
      PROVE ApprovalsGiven'
  <2>1. /\ proc[p].copy \in Settings /\ proc[p].cmd \in Command
        /\ proc[p].copy.approval \in reviewed \cup {None}
    BY <1>4 DEF SaveForCommand, TypeInv, CopiesAreWhole
  <2>2. reviewed \subseteq reviewed'
    BY <1>4 DEF SaveForCommand
  <2>3. file'.approval \in reviewed' \cup {None}
    BY <1>4, <2>1, <2>2, ChangedApproval DEF SaveForCommand, Save
  <2> QED
    BY <1>0, <1>4, <2>2, <2>3 DEF SaveForCommand, Idle
<1>5. ASSUME UNCHANGED <<file, reviewed>>,
             \A p \in Procs : proc'[p].pc \in {"refreshSave", "save"} =>
               proc[p].pc \in {"refreshSave", "save"} /\ proc'[p].copy = proc[p].copy
      PROVE ApprovalsGiven'
  BY <1>5
<1>6. ASSUME NEW p \in Procs, NEW cmd \in Command \cup {Prompt}, Start(p, cmd)
      PROVE ApprovalsGiven'
  BY <1>0, <1>5, <1>6 DEF Start, Idle
<1>7. ASSUME NEW p \in Procs, Discover(p)
      PROVE ApprovalsGiven'
  <2>1. CASE installed = 0
    BY <1>5, <1>7, <2>1, AfterRefreshLetsGo DEF Discover
  <2>2. CASE installed # 0
    BY <1>0, <1>5, <1>7, <2>2 DEF Discover, Process
  <2> QED
    BY <2>1, <2>2
<1>8. ASSUME NEW p \in Procs, Refused(p) \/ Dies(p)
      PROVE ApprovalsGiven'
  BY <1>0, <1>5, <1>8 DEF Refused, Dies, Abandon, Idle
<1>9. ASSUME Upgrade \/ IdentityFileGoesOrReturns \/ UNCHANGED vars
      PROVE ApprovalsGiven'
  BY <1>5, <1>9 DEF Upgrade, IdentityFileGoesOrReturns, vars
<1> QED
  BY <1>1, <1>2, <1>3, <1>4, <1>6, <1>7, <1>8, <1>9 DEF Next, Step

(* No provider runs for a policy unless the user approved that policy with *)
(* that very executable, for any number of processes that save over each   *)
(* other, in any order.                                                    *)
THEOREM OnlyReviewed == Spec => []OnlyReviewedRuns
<1>1. Init => TypeInv /\ ApprovalsGiven
  <2> SUFFICES ASSUME Init PROVE ApprovalsGiven
    BY TypeInit
  <2>1. file.approval = None
    BY DEF Init
  <2>2. \A p \in Procs : proc[p].pc = "idle"
    BY DEF Init, Idle
  <2> QED
    BY <2>1, <2>2 DEF ApprovalsGiven, Holding
<1>2. TypeInv /\ ApprovalsGiven /\ [Next]_vars => (TypeInv /\ ApprovalsGiven)'
  BY TypeNext, ApprovalsNext
<1>3. TypeInv /\ ApprovalsGiven => OnlyReviewedRuns
  <2> SUFFICES ASSUME TypeInv, ApprovalsGiven, NEW policy \in Policies,
                      Approves(file, policy)
               PROVE  <<policy, file.provider.sum>> \in reviewed
    BY DEF OnlyReviewedRuns
  <2>1. file.approval = <<policy, file.provider.sum>>
    BY DEF Approves, Hash
  <2>2. file.provider.sum \in Sums
    BY BoundsAreNat DEF TypeInv, TypeOK, Settings, Entry, NoEntry, Sums, Versions
  <2>3. file.approval # None
    BY <2>1, <2>2, NoneIsFresh DEF Hashes
  <2> QED
    BY <2>1, <2>3 DEF ApprovalsGiven
<1> QED
  BY <1>1, <1>2, <1>3, PTL DEF Spec

-----------------------------------------------------------------------------
(* Lost updates.  A copy that no save has overtaken is the file itself, so *)
(* as long as only such copies are saved the file follows the user's       *)
(* commands one by one.                                                    *)
FreshCopies == \A p \in Procs \ stale : Holding(p) => proc[p].copy = file

KeptInv == FreshCopies /\ KeptUnlessOverlapped

Follows(s, g) ==
    /\ s.approval = g.approval
    /\ s.editor = g.editor
    /\ s.provider.tool = g.tool
    /\ g.manual <=> s.provider.source = "manual"

LEMMA ChangedFollows ==
  ASSUME TypeOK, NEW cmd \in Command, Follows(file, given)
  PROVE  Follows(Changed(cmd, file), Expected(cmd, file))
<1>1. file \in Settings
  BY DEF TypeOK
<1>2. given \in [approval : Hashes \cup {None}, editor : Editors \cup {None},
                tool : Tools \cup {None}, manual : BOOLEAN]
  BY DEF TypeOK
<1> USE <1>1, <1>2 DEF Settings, Follows, Changed, Expected
<1>3. CASE cmd.op = "allow"
  BY <1>3 DEF Hash
<1>4. CASE cmd.op = "register"
  BY <1>4 DEF RegisteredAs
<1>5. CASE cmd.op = "retool"
  BY <1>5 DEF Entry, NoEntry
<1>6. CASE cmd.op = "revoke"
  BY <1>6 DEF NoEntry
<1>7. CASE cmd.op = "editor"
  BY <1>7
<1>8. CASE cmd.op = "enrol"
  BY <1>8
<1> QED
  BY <1>3, <1>4, <1>5, <1>6, <1>7, <1>8 DEF Command

(* Who saves overtakes the copies of all others.                           *)
LEMMA SaveOvertakes ==
  ASSUME TypeInv, NEW p \in Procs, NEW settings, Save(p, settings),
         \A q \in Procs : proc'[q].pc \in {"refreshSave", "save"} =>
            q # p /\ proc'[q] = proc[q]
  PROVE  FreshCopies'
  BY DEF Save, FreshCopies, Holding

LEMMA KeptNext == TypeInv /\ KeptInv /\ [Next]_vars => KeptInv'
<1> SUFFICES ASSUME TypeInv, KeptInv, [Next]_vars PROVE KeptInv'
  OBVIOUS
<1>0. proc \in [Procs -> Process] /\ Idle.pc = "idle"
  BY DEF TypeInv, TypeOK, Process, Idle
<1>1. ASSUME UNCHANGED <<file, given, overlapped>>
      PROVE KeptUnlessOverlapped'
  BY <1>1 DEF KeptInv, KeptUnlessOverlapped
<1>2. ASSUME NEW p \in Procs, stale' \in {stale, stale \ {p}}, file' = file,
             \A q \in Procs : proc'[q].pc \in {"refreshSave", "save"} =>
               \/ proc'[q].copy = file
               \/ q # p /\ proc'[q] = proc[q]
      PROVE FreshCopies'
  BY <1>2 DEF KeptInv, FreshCopies, Holding
<1>3. ASSUME NEW p \in Procs, LoadForRefresh(p)
      PROVE KeptInv'
  <2>1. CASE KeepsEntry(file.provider, proc[p].seen)
    BY <1>1, <1>2, <1>3, <2>1, AfterRefreshLetsGo DEF LoadForRefresh, KeptInv
  <2>2. CASE ~KeepsEntry(file.provider, proc[p].seen)
    BY <1>0, <1>1, <1>2, <1>3, <2>2 DEF LoadForRefresh, KeptInv, Process
  <2> QED
    BY <2>1, <2>2
<1>4. ASSUME NEW p \in Procs, LoadForCommand(p)
      PROVE KeptInv'
  BY <1>0, <1>1, <1>2, <1>4 DEF LoadForCommand, KeptInv, Process
<1>5. ASSUME NEW p \in Procs, RefreshSave(p)
      PROVE KeptInv'
  <2>1. FreshCopies'
    BY <1>5, AfterRefreshLetsGo, SaveOvertakes DEF RefreshSave
  <2>2. ASSUME ~overlapped'
        PROVE Follows(file', given')
    <3>1. p \notin stale /\ ~overlapped
      BY <1>5, <2>2 DEF RefreshSave, Save
    <3>2. proc[p].copy = file /\ file.provider.source # "manual" /\ file \in Settings
      BY <1>5, <3>1 DEF RefreshSave, KeptInv, FreshCopies, Holding, TypeInv, CopiesAreWhole
    <3>3. Follows(file, given) /\ given' = given
      BY <1>5, <3>1 DEF RefreshSave, KeptInv, KeptUnlessOverlapped, Follows
    <3>4. file' = Bundled(file, proc[p].seen)
      BY <1>5, <3>2 DEF RefreshSave, Save
    <3> QED
      BY <3>2, <3>3, <3>4 DEF Bundled, Settings, Follows
  <2> QED
    BY <2>1, <2>2 DEF KeptInv, KeptUnlessOverlapped, Follows
<1>6. ASSUME NEW p \in Procs, SaveForCommand(p)
      PROVE KeptInv'
  <2>1. FreshCopies'
    <3>1. \A q \in Procs : proc'[q].pc \in {"refreshSave", "save"} =>
            q # p /\ proc'[q] = proc[q]
      BY <1>0, <1>6 DEF SaveForCommand
    <3> QED
      BY <1>6, <3>1, SaveOvertakes DEF SaveForCommand
  <2>2. ASSUME ~overlapped'
        PROVE Follows(file', given')
    <3>1. p \notin stale /\ ~overlapped
      BY <1>6, <2>2 DEF SaveForCommand, Save
    <3>2. proc[p].copy = file /\ proc[p].cmd \in Command
      BY <1>6, <3>1
         DEF SaveForCommand, KeptInv, FreshCopies, Holding, TypeInv, CopiesAreWhole
    <3>3. Follows(file, given)
      BY <3>1 DEF KeptInv, KeptUnlessOverlapped, Follows
    <3>4. file' = Changed(proc[p].cmd, file) /\ given' = Expected(proc[p].cmd, file)
      BY <1>6, <3>2 DEF SaveForCommand, Save
    <3> QED
      BY <3>2, <3>3, <3>4, ChangedFollows DEF TypeInv
  <2> QED
    BY <2>1, <2>2 DEF KeptInv, KeptUnlessOverlapped, Follows
<1>7. ASSUME NEW p \in Procs, NEW cmd \in Command \cup {Prompt}, Start(p, cmd)
      PROVE KeptInv'
  <2>1. [Idle EXCEPT !.pc = "discover", !.cmd = cmd].pc = "discover"
    BY DEF Idle
  <2> QED
    BY <1>0, <1>1, <1>2, <1>7, <2>1 DEF Start, KeptInv
<1>8. ASSUME NEW p \in Procs, Discover(p)
      PROVE KeptInv'
  <2>1. CASE installed = 0
    BY <1>1, <1>2, <1>8, <2>1, AfterRefreshLetsGo DEF Discover, KeptInv
  <2>2. CASE installed # 0
    BY <1>0, <1>1, <1>2, <1>8, <2>2 DEF Discover, KeptInv, Process
  <2> QED
    BY <2>1, <2>2
<1>9. ASSUME NEW p \in Procs, Refused(p) \/ Dies(p)
      PROVE KeptInv'
  BY <1>0, <1>1, <1>2, <1>9 DEF Refused, Dies, Abandon, KeptInv
<1>10. ASSUME Upgrade \/ IdentityFileGoesOrReturns \/ UNCHANGED vars
       PROVE KeptInv'
  BY <1>10 DEF Upgrade, IdentityFileGoesOrReturns, vars, KeptInv, KeptUnlessOverlapped,
               FreshCopies, Holding
<1> QED
  BY <1>3, <1>4, <1>5, <1>6, <1>7, <1>8, <1>9, <1>10 DEF Next, Step

(* Until a save is made from an overtaken copy, everything the user was    *)
(* told is done is in the file, whatever refreshes, upgrades, kills and    *)
(* refused commands came in between.                                       *)
THEOREM Kept == Spec => []KeptUnlessOverlapped
<1>1. Init => TypeInv /\ KeptInv
  <2> SUFFICES ASSUME Init PROVE KeptInv
    BY TypeInit
  <2>1. /\ file.approval = None /\ file.editor = None /\ file.provider.tool = None
        /\ file.provider.source # "manual"
    BY DEF Init, NoEntry
  <2>2. \A p \in Procs : proc[p].pc = "idle"
    BY DEF Init, Idle
  <2>3. /\ given.approval = None /\ given.editor = None /\ given.tool = None
        /\ given.manual = FALSE
    BY DEF Init
  <2> QED
    BY <2>1, <2>2, <2>3 DEF KeptInv, FreshCopies, Holding, KeptUnlessOverlapped
<1>2. TypeInv /\ KeptInv /\ [Next]_vars => (TypeInv /\ KeptInv)'
  BY TypeNext, KeptNext
<1>3. KeptInv => KeptUnlessOverlapped
  BY DEF KeptInv
<1> QED
  BY <1>1, <1>2, <1>3, PTL DEF Spec

=============================================================================
