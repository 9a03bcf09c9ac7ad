----------------------------- MODULE ShellHook ------------------------------
(***************************************************************************)
(* The shell side of dotenvsec (internal/environment/shell.go): one        *)
(* interactive shell with the hook installed.  Before every prompt         *)
(* _dotenv_sec_refresh runs "dotenvsec activate" and evaluates what it     *)
(* prints, a script of one line per variable; the lines run one after the  *)
(* other.  The hook remembers what each variable it touches held before    *)
(* (its ambient value) so that _dotenv_sec_clear can put it back.          *)
(*                                                                         *)
(* "activate" is one step here, which looks at the directory, at the       *)
(* current marker and at what the scope can deliver (module Activation     *)
(* opens it).  A secret is written as the marker <<scope, version>> of the *)
(* source it was decrypted from.                                           *)
(*                                                                         *)
(* What can go wrong around the hook is switched by Hazards:               *)
(*   "noOutput"   activate dies, is missing or fails before its RunE;      *)
(*   "decode"     base64 fails for one line (fork failure, PATH managed);  *)
(*   "interrupt"  Ctrl-C while activate runs or its script is evaluated;   *)
(*   "resource"   the user sources the hook again in the same shell;       *)
(*   "child"      the user goes on in a child shell, which inherits the    *)
(*                exported variables and nothing else.                     *)
(***************************************************************************)
EXTENDS Naturals, Sequences, FiniteSets

CONSTANTS
    Names,      \* environment variables
    UserVals,   \* values the user gives them
    Scopes,     \* directories that carry a scope
    SetNames,   \* scope -> the variables it sets, sorted
    UnsetNames, \* scope -> the variables it unsets
    MaxVersion, \* bound on the edits of a source
    Shell,      \* "bash" or "zsh"
    Hazards,
    Absent,     \* an unset variable
    None        \* no scope, no marker

ASSUME PlansAreLists ==
    /\ SetNames \in [Scopes -> Seq(Names)]
    /\ UnsetNames \in [Scopes -> Seq(Names)]
ASSUME MaxVersionIsNat == MaxVersion \in Nat
ASSUME NoneIsFresh == None \notin Scopes /\ None \notin Scopes \X (0..MaxVersion)
ASSUME SecretsAreFresh == (UserVals \cup {Absent}) \cap (Scopes \X (0..MaxVersion)) = {}

VARIABLES
    env,      \* the shell's variables
    saved,    \* _PRESENT and _AMBIENT: what each name in _MANAGED held before
    marker,   \* DOTENV_SEC_SCOPE
    busy,     \* _DOTENV_SEC_BUSY
    stage,    \* at the user's commands, in activate, or evaluating its output
    script,   \* the lines still to be evaluated
    cwd,
    source,   \* version of each scope's encrypted file
    health,   \* each scope: what activate gets from it
    own,      \* history: what each variable would hold without the hook
    orphans,  \* history: names the hook managed and was made to forget
    forgot    \* history: it was, and no script has completed since

hook == <<saved, marker, busy, stage, script>>
world == <<cwd, source, health>>
history == <<own, orphans, forgot>>
vars == <<env, saved, marker, busy, stage, script, cwd, source, health,
          own, orphans, forgot>>

Markers == Scopes \X (0..MaxVersion)
Values == UserVals \cup Markers \cup {Absent}
MarkAhead(s) == <<s, source[s] + 1>>
Mark(s) == <<s, source[s]>>

(* Prepare fails; only Load does (no provider, no key); all is well.       *)
Health == {"refused", "sealed", "usable"}

Line == [kind : {"clear", "unset", "set", "marker", "nomarker"},
         name : Names \cup {None}, val : Markers \cup {None}]
Plain(kind) == [kind |-> kind, name |-> None, val |-> None]

Init ==
    /\ env \in [Names -> UserVals \cup {Absent}]
    /\ saved = [n \in {} |-> Absent]
    /\ marker = None
    /\ busy = FALSE
    /\ stage = "command"
    /\ script = <<>>
    /\ cwd = None
    /\ source = [s \in Scopes |-> 0]
    /\ health = [s \in Scopes |-> "usable"]
    /\ own = env
    /\ orphans = {}
    /\ forgot = FALSE

-----------------------------------------------------------------------------
(* The user and the rest of the machine.                                   *)

Cd(d) ==
    /\ stage = "command"
    /\ cwd' = d
    /\ UNCHANGED <<env, hook, source, health, history>>

(* The user's own assignment: lost with the scope if the scope manages the *)
(* variable at that moment, kept otherwise.                                *)
Assign(n, v) ==
    /\ stage = "command"
    /\ env' = [env EXCEPT ![n] = v]
    /\ IF n \in DOMAIN saved THEN UNCHANGED <<own, orphans>>
       ELSE /\ own' = [own EXCEPT ![n] = v]
            /\ orphans' = orphans \ {n}
    /\ UNCHANGED <<hook, world, forgot>>

EditSource(s) ==
    /\ source[s] < MaxVersion
    /\ source' = [source EXCEPT ![s] = @ + 1]
    /\ UNCHANGED <<env, hook, cwd, health, history>>

ChangeHealth(s) ==
    /\ \E h \in Health \ {health[s]} : health' = [health EXCEPT ![s] = h]
    /\ UNCHANGED <<env, hook, cwd, source, history>>

-----------------------------------------------------------------------------
(* What activate prints.                                                   *)

SetLines(s) ==
    [i \in 1..Len(SetNames[s]) |->
       [kind |-> "set", name |-> SetNames[s][i], val |-> Mark(s)]]
UnsetLines(s) ==
    [i \in 1..Len(UnsetNames[s]) |->
       [kind |-> "unset", name |-> UnsetNames[s][i], val |-> None]]
MarkerLine(s) == [kind |-> "marker", name |-> None, val |-> Mark(s)]

TransitionNoClear(s) == UnsetLines(s) \o SetLines(s) \o <<MarkerLine(s)>>
Transition(s) ==
    <<Plain("clear")>> \o UnsetLines(s) \o SetLines(s) \o <<MarkerLine(s)>>

ClearScriptOnlyMarker == <<Plain("nomarker")>>
ClearScript == <<Plain("clear"), Plain("nomarker")>>

Prepared == cwd # None /\ health[cwd] # "refused"
Loads == cwd # None /\ health[cwd] = "usable"
SameScope == marker # None /\ marker[1] = cwd
SameMarker == marker = Mark(cwd)

-----------------------------------------------------------------------------
(* _dotenv_sec_refresh.                                                    *)

(* A prompt is due.  A refresh that finds the flag set returns at once.    *)
Prompt ==
    /\ stage = "command"
    /\ ~busy
    /\ busy' = TRUE
    /\ stage' = "activating"
    /\ UNCHANGED <<env, saved, marker, script, world, history>>

(* The marker is compared before anything is loaded: where it is the same  *)
(* it makes no difference that the scope no longer decrypts.               *)
ActivateAnswers ==
    /\ stage = "activating"
    /\ script' = IF Prepared /\ SameMarker THEN <<>>
                 ELSE IF Loads THEN Transition(cwd)
                 ELSE ClearScript
    /\ stage' = "evaluating"
    /\ UNCHANGED <<env, saved, marker, busy, world, history>>

ActivateDies ==
    /\ "noOutput" \in Hazards
    /\ stage = "activating"
    /\ stage' = "evaluating"
    /\ UNCHANGED <<env, saved, marker, busy, script, world, history>>

(* _dotenv_sec_clear: put every managed variable back, forget them all.    *)
Restored(kept) == [n \in Names |-> IF n \in DOMAIN kept THEN kept[n] ELSE env[n]]
Forgotten == [n \in {} |-> Absent]

(* _dotenv_sec_remember: the first value seen is the ambient one.          *)
RememberedUnset(n) ==
    [m \in DOMAIN saved \cup {n} |-> IF m \in DOMAIN saved THEN saved[m] ELSE Absent]
Remembered(n) ==
    [m \in DOMAIN saved \cup {n} |-> IF m \in DOMAIN saved THEN saved[m] ELSE env[m]]

Clear == env' = Restored(saved) /\ saved' = Forgotten

NextLine ==
    /\ stage = "evaluating"
    /\ script # <<>>
    /\ script' = Tail(script)
    /\ UNCHANGED <<busy, stage, world, own, orphans>>

EvalClear ==
    /\ NextLine
    /\ Head(script).kind = "clear"
    /\ Clear
    /\ UNCHANGED <<marker, forgot>>

EvalUnset ==
    LET n == Head(script).name IN
    /\ NextLine
    /\ Head(script).kind = "unset"
    /\ saved' = Remembered(n)
    /\ env' = [env EXCEPT ![n] = Absent]
    /\ UNCHANGED <<marker, forgot>>

EvalSet ==
    LET n == Head(script).name IN
    /\ NextLine
    /\ Head(script).kind = "set"
    /\ saved' = Remembered(n)
    /\ env' = [env EXCEPT ![n] = Head(script).val]
    /\ UNCHANGED <<marker, forgot>>

(* The decoder fails: this one line clears and returns 1, and eval goes on *)
(* with the next line.                                                     *)
EvalSetFails ==
    /\ "decode" \in Hazards
    /\ NextLine
    /\ Head(script).kind = "set"
    /\ env' = Restored(Remembered(Head(script).name))
    /\ saved' = Forgotten
    /\ UNCHANGED <<marker, forgot>>

(* export DOTENV_SEC_SCOPE=marker, or unset DOTENV_SEC_SCOPE.              *)
EvalMarker ==
    /\ NextLine
    /\ Head(script).kind \in {"marker", "nomarker"}
    /\ marker' = Head(script).val
    /\ forgot' = FALSE
    /\ UNCHANGED <<env, saved>>

EvalEnds ==
    /\ stage = "evaluating"
    /\ script = <<>>
    /\ busy' = FALSE
    /\ stage' = "command"
    /\ UNCHANGED <<env, saved, marker, script, world, history>>

(* Ctrl-C abandons the function where it stands; the flag stays set.       *)
Interrupt ==
    /\ "interrupt" \in Hazards
    /\ stage # "command"
    /\ script' = <<>>
    /\ stage' = "command"
    /\ UNCHANGED <<env, saved, marker, busy, world, history>>

(* What the hook managed is no longer known to it.                         *)
Lose ==
    /\ saved' = Forgotten
    /\ orphans' = orphans \cup DOMAIN saved
    /\ forgot' = TRUE

(* bash's hook declares its arrays with =(), zsh's without; both end with  *)
(* a refresh, which the flag may turn away.                                *)
Resource ==
    /\ "resource" \in Hazards
    /\ stage = "command"
    /\ IF Shell = "bash" THEN Lose ELSE UNCHANGED <<saved, orphans, forgot>>
    /\ busy' = TRUE
    /\ stage' = IF busy THEN "command" ELSE "activating"
    /\ UNCHANGED <<env, marker, script, world, own>>

(* The child's arrays and flag are new, its variables and marker are not.  *)
ChildShell ==
    /\ "child" \in Hazards
    /\ stage = "command"
    /\ Lose
    /\ busy' = TRUE
    /\ stage' = "activating"
    /\ UNCHANGED <<env, marker, script, world, own>>

Eval == EvalClear \/ EvalUnset \/ EvalSet \/ EvalSetFails \/ EvalMarker

Next ==
    \/ \E d \in Scopes \cup {None} : Cd(d)
    \/ \E n \in Names, v \in UserVals \cup {Absent} : Assign(n, v)
    \/ \E s \in Scopes : EditSource(s) \/ ChangeHealth(s)
    \/ Prompt
    \/ ActivateAnswers
    \/ ActivateDies
    \/ Eval
    \/ EvalEnds
    \/ Interrupt
    \/ Resource
    \/ ChildShell

(* The shell runs its hook to the end; the user's commands end, so that a  *)
(* prompt is due again; activate, started over and over, does not die      *)
(* every time.                                                             *)
Fairness ==
    /\ WF_vars(Prompt)
    /\ WF_vars(ActivateAnswers \/ ActivateDies) /\ SF_vars(ActivateAnswers)
    /\ WF_vars(Eval)
    /\ WF_vars(EvalEnds)

Spec == Init /\ [][Next]_vars
FairSpec == Spec /\ Fairness

-----------------------------------------------------------------------------
(* Properties.                                                             *)

TypeOK ==
    /\ env \in [Names -> Values]
    /\ DOMAIN saved \subseteq Names
    /\ saved \in [DOMAIN saved -> Values]
    /\ marker \in Markers \cup {None}
    /\ busy \in BOOLEAN
    /\ stage \in {"command", "activating", "evaluating"}
    /\ script \in Seq(Line)
    /\ cwd \in Scopes \cup {None}
    /\ source \in [Scopes -> 0..MaxVersion]
    /\ health \in [Scopes -> Health]
    /\ own \in [Names -> UserVals \cup {Absent}]
    /\ orphans \subseteq Names
    /\ forgot \in BOOLEAN

(* Whatever fails in between, a managed variable's ambient value is the    *)
(* user's own and an unmanaged variable holds the user's own value: no     *)
(* secret is ever outside what the next clear removes, and no clear can    *)
(* bring back anything but what the user had.  The only names this is not  *)
(* said of are those a sourced-again hook or a child shell was never told. *)
AmbientKept ==
    \A n \in Names \ orphans :
        own[n] = IF n \in DOMAIN saved THEN saved[n] ELSE env[n]

(* At a prompt without a marker the hook holds nothing: leaving a scope,   *)
(* or failing to enter one, has put everything back.                       *)
NoMarkerNothingManaged ==
    stage = "command" /\ ~busy /\ marker = None => DOMAIN saved = {}

ElementsOf(seq) == {seq[i] : i \in DOMAIN seq}
ManagedBy(m) == ElementsOf(SetNames[m[1]]) \cup ElementsOf(UnsetNames[m[1]])

(* README.md: "applies an atomic environment transition".  At a prompt     *)
(* with a marker, exactly the marker's names are managed, and no secret of *)
(* another scope or of another version of its source is in the shell.      *)
AtomicTransition ==
    stage = "command" /\ ~busy /\ ~forgot /\ marker # None =>
        /\ DOMAIN saved = ManagedBy(marker)
        /\ \A n \in Names \ orphans : env[n] \in Markers => env[n] = marker

Cleared == marker = None /\ DOMAIN saved = {} /\ env = own

(* docs/getting-started.md: "Entering an unconfigured directory still      *)
(* clears any environment values managed by the previous scope."           *)
(* A shell left where nothing can be prepared (no scope, an unapproved or  *)
(* a broken one) ends up with no marker, nothing managed and the user's    *)
(* own variables; and so does one left in a scope that does not decrypt,   *)
(* except that it keeps the very source that the scope still has.          *)
LeavingClears ==
    /\ <>[](~Prepared) => <>[]Cleared
    /\ \A s \in Scopes :
         <>[](cwd = s /\ health[s] = "sealed") => <>[](Cleared \/ marker = Mark(s))

(* A shell left in a usable scope ends up with that scope's latest source. *)
EnteringActivates ==
    \A s \in Scopes :
        <>[](cwd = s /\ health[s] = "usable") => <>[](marker = Mark(s))

-----------------------------------------------------------------------------
(* The refinement.  A transition counts as made when activate has printed  *)
(* it: what the user will see is what the lines still to be evaluated lead *)
(* to, and the layer is the marker they end with.                          *)

NamedIn(seq, kind) == {seq[i].name : i \in {j \in DOMAIN seq : seq[j].kind = kind}}

Seen ==
    [n \in Names |->
       IF n \in NamedIn(script, "set") THEN script[Len(script)].val
       ELSE IF n \in NamedIn(script, "unset") THEN Absent
       ELSE IF script # <<>> /\ Head(script).kind = "clear" THEN own[n]
       ELSE env[n]]

Layer == IF script = <<>> THEN marker ELSE script[Len(script)].val

Promise == INSTANCE EnvironmentLayer WITH env <- Seen, layer <- Layer

(* README.md: "Scopes never merge."                                        *)
(* As long as activate's output is evaluated to its end and the hook keeps *)
(* its arrays, the shell is the user's own environment with one scope's    *)
(* layer exchanged as a whole: nothing of the old scope shows under the    *)
(* new one, and a prompt in an unchanged scope changes nothing.            *)
ImplementsLayer == Promise!Spec
=============================================================================
