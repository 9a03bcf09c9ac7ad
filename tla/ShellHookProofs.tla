-------------------------- MODULE ShellHookProofs ---------------------------
(***************************************************************************)
(* The hook for every set of variables, scopes and values: it never loses  *)
(* what a variable it knows of held before, and a prompt that is due and   *)
(* has no marker manages nothing.  A prompt with a marker holds all of its *)
(* scope unless the decoder fails.  Where the hook keeps its arrays this   *)
(* is so of every variable, and where nothing is interrupted of every      *)
(* prompt; and a hook that evaluates its scripts to the end implements     *)
(* EnvironmentLayer.                                                       *)
(***************************************************************************)
EXTENDS ShellHook, SequenceTheorems, TLAPS

(* Lines as activate prints them: those that set or unset name a variable. *)
GoodLine ==
    {l \in Line : /\ l.kind \in {"set", "unset"} => l.name \in Names
                  /\ l.kind = "set" => l.val \in Markers
                  /\ l.kind = "marker" => l.val \in Markers
                  /\ l.kind = "nomarker" => l.val = None}

TypeInv == TypeOK /\ script \in Seq(GoodLine)

LEMMA MarksAreMarkers ==
  ASSUME TypeOK, NEW s \in Scopes
  PROVE  Mark(s) \in Markers
  BY DEF TypeOK, Mark, Markers

LEMMA PlainLines == Plain("clear") \in GoodLine /\ Plain("nomarker") \in GoodLine
  BY DEF Plain, GoodLine, Line

(* A transition is a list of such lines.                                   *)
LEMMA TransitionTyped ==
  ASSUME TypeOK, NEW s \in Scopes
  PROVE  /\ UnsetLines(s) \in Seq(GoodLine)
         /\ SetLines(s) \in Seq(GoodLine)
         /\ MarkerLine(s) \in GoodLine
<1> USE MarksAreMarkers DEF GoodLine, Line
<1>1. SetNames[s] \in Seq(Names) /\ UnsetNames[s] \in Seq(Names)
  BY PlansAreLists
<1>2. UnsetLines(s) \in Seq(GoodLine)
  <2>1. \A i \in 1..Len(UnsetNames[s]) : UnsetNames[s][i] \in Names
    BY <1>1, ElementOfSeq
  <2>2. UnsetLines(s) \in [1..Len(UnsetNames[s]) -> GoodLine]
    BY <2>1 DEF UnsetLines
  <2> QED
    BY <2>2, <1>1, LenProperties
<1>3. SetLines(s) \in Seq(GoodLine)
  <2>1. \A i \in 1..Len(SetNames[s]) : SetNames[s][i] \in Names
    BY <1>1, ElementOfSeq
  <2>2. SetLines(s) \in [1..Len(SetNames[s]) -> GoodLine]
    BY <2>1 DEF SetLines
  <2> QED
    BY <2>2, <1>1, LenProperties
<1>4. MarkerLine(s) \in GoodLine
  BY DEF MarkerLine
<1> QED
  BY <1>2, <1>3, <1>4

LEMMA TransitionInSeq ==
  ASSUME TypeOK, NEW s \in Scopes
  PROVE  Transition(s) \in Seq(GoodLine)
  BY PlainLines, TransitionTyped, ConcatProperties DEF Transition

LEMMA AnswerTyped ==
  ASSUME TypeInv, ActivateAnswers
  PROVE  script' \in Seq(GoodLine)
<1>1. ClearScript \in Seq(GoodLine)
  BY PlainLines DEF ClearScript
<1>2. Loads => Transition(cwd) \in Seq(GoodLine)
  BY TransitionInSeq DEF Loads, TypeInv, TypeOK
<1>3. <<>> \in Seq(GoodLine)
  OBVIOUS
<1> QED
  BY <1>1, <1>2, <1>3 DEF ActivateAnswers

(* What activate may print: nothing where the marker is the scope's own, a *)
(* transition into a scope whose marker the shell has not, or a clear.     *)
LEMMA AnswerCases ==
  ASSUME TypeInv, ActivateAnswers
  PROVE  \/ script' = <<>> /\ marker # None
         \/ cwd \in Scopes /\ ~SameMarker /\ script' = Transition(cwd)
         \/ script' = ClearScript
<1>1. CASE Prepared /\ SameMarker
  <2>1. Mark(cwd) # None
    BY <1>1, MarksAreMarkers, NoneIsFresh DEF Prepared, TypeInv, TypeOK, Markers
  <2> QED
    BY <1>1, <2>1 DEF ActivateAnswers, SameMarker
<1>2. CASE ~(Prepared /\ SameMarker) /\ Loads
  <2>1. cwd \in Scopes /\ Prepared
    BY <1>2 DEF Loads, Prepared, TypeInv, TypeOK
  <2> QED
    BY <1>2, <2>1 DEF ActivateAnswers
<1>3. CASE ~(Prepared /\ SameMarker) /\ ~Loads
  BY <1>3 DEF ActivateAnswers
<1> QED
  BY <1>1, <1>2, <1>3

(* The first line and the rest of a script that is not finished.           *)
LEMMA HeadTyped ==
  ASSUME TypeInv, NextLine
  PROVE  Head(script) \in GoodLine /\ script' \in Seq(GoodLine)
  BY HeadTailProperties DEF TypeInv, NextLine

LEMMA LinesAreLines == Seq(GoodLine) \subseteq Seq(Line)
<1>1. GoodLine \subseteq Line
  BY DEF GoodLine
<1> QED
  BY <1>1, SeqMonotonic

LEMMA TypeInit == Init => TypeInv
<1> SUFFICES ASSUME Init PROVE TypeInv
  OBVIOUS
<1>1. env \in [Names -> Values]
  BY DEF Init, Values
<1>2. busy \in BOOLEAN /\ forgot \in BOOLEAN
  BY DEF Init
<1>3. script \in Seq(GoodLine) /\ script \in Seq(Line)
  BY DEF Init
<1>4. DOMAIN saved = {} /\ saved \in [DOMAIN saved -> Values]
  BY DEF Init
<1>5. source \in [Scopes -> 0..MaxVersion]
  BY MaxVersionIsNat DEF Init
<1>6. health \in [Scopes -> Health]
  BY DEF Init, Health
<1> QED
  BY <1>1, <1>2, <1>3, <1>4, <1>5, <1>6 DEF Init, TypeInv, TypeOK

(* A script line that manages one more variable, or one again.             *)
LEMMA RememberedTyped ==
  ASSUME TypeInv, NEW n \in Names
  PROVE  /\ DOMAIN Remembered(n) \subseteq Names
         /\ Remembered(n) \in [DOMAIN Remembered(n) -> Values]
  BY DEF TypeInv, TypeOK, Remembered

LEMMA ForgottenTyped ==
  DOMAIN Forgotten = {} /\ Forgotten \in [DOMAIN Forgotten -> Values]
  BY DEF Forgotten

LEMMA RestoredTyped ==
  ASSUME TypeInv, NEW kept, kept \in [DOMAIN kept -> Values]
  PROVE  Restored(kept) \in [Names -> Values]
  BY DEF TypeInv, TypeOK, Restored

LEMMA TypeNext == TypeInv /\ [Next]_vars => TypeInv'
<1> SUFFICES ASSUME TypeInv, [Next]_vars PROVE TypeInv'
  OBVIOUS
<1> USE LinesAreLines DEF TypeInv, TypeOK
<1>1. ASSUME NEW d \in Scopes \cup {None}, Cd(d)
      PROVE TypeInv'
  BY <1>1 DEF Cd, hook, history
<1>2. ASSUME NEW n \in Names, NEW v \in UserVals \cup {Absent}, Assign(n, v)
      PROVE TypeInv'
  <2>1. env' \in [Names -> Values] /\ own' \in [Names -> UserVals \cup {Absent}]
    BY <1>2 DEF Assign, Values
  <2>2. orphans' \subseteq Names
    BY <1>2 DEF Assign
  <2> QED
    BY <1>2, <2>1, <2>2 DEF Assign, hook, world
<1>3. ASSUME NEW s \in Scopes, EditSource(s)
      PROVE TypeInv'
  <2>1. source' \in [Scopes -> 0..MaxVersion]
    BY <1>3, MaxVersionIsNat DEF EditSource
  <2> QED
    BY <1>3, <2>1 DEF EditSource, hook, history
<1>4. ASSUME NEW s \in Scopes, ChangeHealth(s)
      PROVE TypeInv'
  BY <1>4 DEF ChangeHealth, hook, history
<1>5. ASSUME Prompt
      PROVE TypeInv'
  BY <1>5 DEF Prompt, world, history
<1>6. ASSUME ActivateAnswers
      PROVE TypeInv'
  BY <1>6, AnswerTyped DEF ActivateAnswers, world, history
<1>7. ASSUME ActivateDies
      PROVE TypeInv'
  BY <1>7 DEF ActivateDies, world, history
<1>8. ASSUME EvalClear
      PROVE TypeInv'
  BY <1>8, HeadTyped, ForgottenTyped, RestoredTyped DEF EvalClear, Clear, NextLine, world
<1>9. ASSUME EvalUnset
      PROVE TypeInv'
  <2>1. Head(script) \in GoodLine /\ script' \in Seq(GoodLine)
    BY <1>9, HeadTyped DEF EvalUnset
  <2>2. Head(script).name \in Names
    BY <1>9, <2>1 DEF EvalUnset, GoodLine
  <2>3. env' \in [Names -> Values]
    BY <1>9 DEF EvalUnset, Values
  <2> QED
    BY <1>9, <2>1, <2>2, <2>3, RememberedTyped DEF EvalUnset, NextLine, world
<1>10. ASSUME EvalSet
       PROVE TypeInv'
  <2>1. Head(script) \in GoodLine /\ script' \in Seq(GoodLine)
    BY <1>10, HeadTyped DEF EvalSet
  <2>2. Head(script).name \in Names /\ Head(script).val \in Markers
    BY <1>10, <2>1 DEF EvalSet, GoodLine
  <2>3. env' \in [Names -> Values]
    BY <1>10, <2>2 DEF EvalSet, Values
  <2> QED
    BY <1>10, <2>1, <2>2, <2>3, RememberedTyped DEF EvalSet, NextLine, world
<1>11. ASSUME EvalSetFails
       PROVE TypeInv'
  <2>1. Head(script) \in GoodLine /\ script' \in Seq(GoodLine)
    BY <1>11, HeadTyped DEF EvalSetFails
  <2>2. Head(script).name \in Names
    BY <1>11, <2>1 DEF EvalSetFails, GoodLine
  <2>3. env' \in [Names -> Values]
    BY <1>11, <2>2, RememberedTyped, RestoredTyped DEF EvalSetFails
  <2> QED
    BY <1>11, <2>1, <2>3, ForgottenTyped DEF EvalSetFails, NextLine, world
<1>12. ASSUME EvalMarker
       PROVE TypeInv'
  <2>1. Head(script) \in GoodLine /\ script' \in Seq(GoodLine)
    BY <1>12, HeadTyped DEF EvalMarker
  <2>2. marker' \in Markers \cup {None} /\ forgot' \in BOOLEAN
    BY <1>12, <2>1 DEF EvalMarker, GoodLine
  <2> QED
    BY <1>12, <2>1, <2>2 DEF EvalMarker, NextLine, world
<1>13. ASSUME EvalEnds
       PROVE TypeInv'
  BY <1>13 DEF EvalEnds, world, history
<1>14. ASSUME Interrupt
       PROVE TypeInv'
  BY <1>14 DEF Interrupt, world, history
<1>15. ASSUME Resource
       PROVE TypeInv'
  <2>1. /\ DOMAIN saved' \subseteq Names /\ saved' \in [DOMAIN saved' -> Values]
        /\ orphans' \subseteq Names
    BY <1>15, ForgottenTyped DEF Resource, Lose
  <2>2. busy' \in BOOLEAN /\ forgot' \in BOOLEAN
    BY <1>15 DEF Resource, Lose
  <2>3. stage' \in {"command", "activating", "evaluating"}
    BY <1>15 DEF Resource
  <2> QED
    BY <1>15, <2>1, <2>2, <2>3 DEF Resource, world
<1>16. ASSUME ChildShell
       PROVE TypeInv'
  <2>1. /\ DOMAIN saved' \subseteq Names /\ saved' \in [DOMAIN saved' -> Values]
        /\ orphans' \subseteq Names
    BY <1>16, ForgottenTyped DEF ChildShell, Lose
  <2>2. busy' \in BOOLEAN /\ forgot' \in BOOLEAN
    BY <1>16 DEF ChildShell, Lose
  <2> QED
    BY <1>16, <2>1, <2>2 DEF ChildShell, world
<1>17. CASE UNCHANGED vars
  BY <1>17 DEF vars
<1> QED
  BY <1>1, <1>2, <1>3, <1>4, <1>5, <1>6, <1>7, <1>8, <1>9, <1>10, <1>11, <1>12, <1>13,
     <1>14, <1>15, <1>16, <1>17
     DEF Next, Eval

(* Every variable of the shell has its type at every moment; the lines     *)
(* still to be evaluated are lines activate prints.                        *)
THEOREM TypeCorrect == Spec => []TypeOK
<1>1. TypeInv => TypeOK
  BY DEF TypeInv
<1> QED
  BY TypeInit, TypeNext, <1>1, PTL DEF Spec

-----------------------------------------------------------------------------
(* What each variable would hold without the hook is never lost: a line    *)
(* that touches a variable remembers it first, and only _dotenv_sec_clear  *)
(* forgets, having put everything back.                                    *)
LEMMA AmbientInit == Init => AmbientKept
  BY DEF Init, AmbientKept

(* Clearing, with what was remembered up to that moment, restores.         *)
LEMMA ClearKeepsAmbient ==
  ASSUME AmbientKept, NEW kept, env' = Restored(kept), saved' = Forgotten,
         UNCHANGED <<own, orphans>>,
         \A n \in Names \ orphans : own[n] = IF n \in DOMAIN kept THEN kept[n] ELSE env[n]
  PROVE  AmbientKept'
  BY DEF AmbientKept, Restored, Forgotten

(* Touching one variable after remembering it.                             *)
LEMMA TouchKeepsAmbient ==
  ASSUME TypeInv, AmbientKept, NEW n \in Names, NEW v,
         saved' = Remembered(n), env' = [env EXCEPT ![n] = v],
         UNCHANGED <<own, orphans>>
  PROVE  AmbientKept'
  BY DEF TypeInv, TypeOK, AmbientKept, Remembered

LEMMA LoseKeepsAmbient ==
  ASSUME TypeInv, AmbientKept, Lose, UNCHANGED <<env, own>>
  PROVE  AmbientKept'
  BY DEF TypeInv, TypeOK, AmbientKept, Lose, Forgotten

LEMMA AmbientNext == TypeInv /\ AmbientKept /\ [Next]_vars => AmbientKept'
<1> SUFFICES ASSUME TypeInv, AmbientKept, [Next]_vars PROVE AmbientKept'
  OBVIOUS
<1>1. ASSUME NEW n \in Names, NEW v \in UserVals \cup {Absent}, Assign(n, v)
      PROVE AmbientKept'
  BY <1>1 DEF Assign, hook, TypeInv, TypeOK, AmbientKept
<1>2. ASSUME EvalClear
      PROVE AmbientKept'
  <2>1. \A n \in Names \ orphans : own[n] = IF n \in DOMAIN saved THEN saved[n] ELSE env[n]
    BY DEF AmbientKept
  <2> QED
    BY <1>2, <2>1, ClearKeepsAmbient DEF EvalClear, Clear, NextLine
<1>3. ASSUME EvalUnset
      PROVE AmbientKept'
  <2>1. Head(script).name \in Names
    BY <1>3, HeadTyped DEF EvalUnset, GoodLine
  <2> QED
    BY <1>3, <2>1, TouchKeepsAmbient DEF EvalUnset, NextLine
<1>4. ASSUME EvalSet
      PROVE AmbientKept'
  <2>1. Head(script).name \in Names
    BY <1>4, HeadTyped DEF EvalSet, GoodLine
  <2> QED
    BY <1>4, <2>1, TouchKeepsAmbient DEF EvalSet, NextLine
<1>5. ASSUME EvalSetFails
      PROVE AmbientKept'
  <2> DEFINE kept == Remembered(Head(script).name)
  <2>1. \A n \in Names \ orphans : own[n] = IF n \in DOMAIN kept THEN kept[n] ELSE env[n]
    BY DEF AmbientKept, Remembered
  <2>2. UNCHANGED <<own, orphans>> /\ env' = Restored(kept) /\ saved' = Forgotten
    BY <1>5 DEF EvalSetFails, NextLine
  <2> HIDE DEF kept
  <2> QED
    BY <2>1, <2>2, ClearKeepsAmbient
<1>6. ASSUME Resource
      PROVE AmbientKept'
  <2>1. CASE Shell = "bash"
    BY <1>6, <2>1, LoseKeepsAmbient DEF Resource
  <2>2. CASE Shell # "bash"
    BY <1>6, <2>2 DEF Resource, AmbientKept
  <2> QED
    BY <2>1, <2>2
<1>7. ASSUME ChildShell
      PROVE AmbientKept'
  BY <1>7, LoseKeepsAmbient DEF ChildShell
<1>8. ASSUME UNCHANGED <<env, saved, own, orphans>>
      PROVE AmbientKept'
  BY <1>8 DEF AmbientKept
<1>9. ASSUME \/ \E d \in Scopes \cup {None} : Cd(d)
             \/ \E s \in Scopes : EditSource(s) \/ ChangeHealth(s)
             \/ Prompt \/ ActivateAnswers \/ ActivateDies \/ EvalMarker \/ EvalEnds
             \/ Interrupt \/ UNCHANGED vars
      PROVE UNCHANGED <<env, saved, own, orphans>>
  BY <1>9 DEF Cd, EditSource, ChangeHealth, Prompt, ActivateAnswers, ActivateDies,
              EvalMarker, NextLine, EvalEnds, Interrupt, hook, history, vars
<1> QED
  BY <1>1, <1>2, <1>3, <1>4, <1>5, <1>6, <1>7, <1>8, <1>9 DEF Next, Eval

(* No failure, interruption or edit makes the hook lose what the user had  *)
(* in a variable, or leave a secret where the next clear will not remove   *)
(* it, the names set aside that a sourced-again bash hook or a child shell *)
(* was never told of: those may hold a secret that nothing removes.        *)
THEOREM AmbientIsKept == Spec => []AmbientKept
<1>1. Init => TypeInv /\ AmbientKept
  BY TypeInit, AmbientInit
<1>2. TypeInv /\ AmbientKept /\ [Next]_vars => (TypeInv /\ AmbientKept)'
  BY TypeNext, AmbientNext
<1> QED
  BY <1>1, <1>2, PTL DEF Spec

(* A hook forgets only when a bash sources it again or a child shell is    *)
(* started.                                                                *)
NeverForgets ==
    /\ "child" \notin Hazards
    /\ "resource" \in Hazards => Shell # "bash"

NothingForgotten == orphans = {} /\ ~forgot

LEMMA ForgotInit == Init => NothingForgotten
  BY DEF Init, NothingForgotten

LEMMA ForgotNext ==
  ASSUME NeverForgets, NothingForgotten, [Next]_vars
  PROVE  NothingForgotten'
<1> USE DEF NothingForgotten
<1>1. ASSUME NEW n \in Names, NEW v \in UserVals \cup {Absent}, Assign(n, v)
      PROVE  NothingForgotten'
  BY <1>1 DEF Assign
<1>2. ASSUME Eval
      PROVE  NothingForgotten'
  BY <1>2 DEF Eval, EvalClear, EvalUnset, EvalSet, EvalSetFails, EvalMarker, NextLine
<1>3. ASSUME Resource
      PROVE  NothingForgotten'
  BY <1>3 DEF Resource, NeverForgets
<1>4. ~ChildShell
  BY DEF ChildShell, NeverForgets
<1>5. ASSUME \/ \E d \in Scopes \cup {None} : Cd(d)
             \/ \E s \in Scopes : EditSource(s) \/ ChangeHealth(s)
             \/ Prompt \/ ActivateAnswers \/ ActivateDies \/ EvalEnds
             \/ Interrupt \/ UNCHANGED vars
      PROVE  UNCHANGED <<orphans, forgot>>
  BY <1>5 DEF Cd, EditSource, ChangeHealth, Prompt, ActivateAnswers, ActivateDies,
              EvalEnds, Interrupt, hook, history, vars
<1> QED
  BY <1>1, <1>2, <1>3, <1>4, <1>5 DEF Next

(* In a shell whose hook keeps its arrays (zsh, or a bash that sources it  *)
(* once; no child shell) nothing is set aside: every variable that is not  *)
(* managed holds the user's own value, whatever dies or is interrupted.    *)
THEOREM NothingIsOrphaned ==
  ASSUME NeverForgets
  PROVE  Spec => [](AmbientKept /\ orphans = {})
<1>1. Init => TypeInv /\ AmbientKept /\ NothingForgotten
  BY TypeInit, AmbientInit, ForgotInit
<1>2. TypeInv /\ AmbientKept /\ NothingForgotten /\ [Next]_vars =>
        (TypeInv /\ AmbientKept /\ NothingForgotten)'
  BY TypeNext, AmbientNext, ForgotNext
<1>3. NothingForgotten => orphans = {}
  BY DEF NothingForgotten
<1> QED
  BY <1>1, <1>2, <1>3, PTL DEF Spec

-----------------------------------------------------------------------------
(* Without a marker nothing is managed.  A script that manages something   *)
(* ends in a marker line; one that takes the marker away has cleared       *)
(* before; and whatever cuts a script short leaves the flag set.           *)
NothingManaged == DOMAIN saved = {}

EndsWithMarker(seq) == seq[Len(seq)].kind = "marker"

Quiet ==
    \/ stage = "command" /\ ~busy
    \/ stage = "activating"
    \/ stage = "evaluating" /\ script = <<>>

ScriptInv ==
    /\ stage # "command" => busy
    /\ stage # "evaluating" => script = <<>>
    /\ Quiet /\ marker = None => NothingManaged
    /\ script # <<>> =>
         \/ EndsWithMarker(script)
         \/ script = ClearScript
         \/ script = <<Plain("nomarker")>> /\ NothingManaged

LEMMA TransitionEnds ==
  ASSUME TypeOK, NEW s \in Scopes
  PROVE  EndsWithMarker(Transition(s))
<1> DEFINE body == <<Plain("clear")>> \o UnsetLines(s) \o SetLines(s)
           last == <<MarkerLine(s)>>
<1>1. body \in Seq(GoodLine) /\ last \in Seq(GoodLine)
  BY PlainLines, TransitionTyped, ConcatProperties
<1>2. Len(last) = 1 /\ last[1] = MarkerLine(s)
  OBVIOUS
<1>3. Len(body) \in Nat
  BY <1>1, LenProperties
<1>4. /\ Len(body \o last) = Len(body) + 1
      /\ (body \o last)[Len(body) + 1] = last[1]
  <2> HIDE DEF body, last
  <2>1. /\ Len(body \o last) = Len(body) + Len(last)
        /\ \A i \in 1..(Len(body) + Len(last)) :
             (body \o last)[i] = IF i <= Len(body) THEN body[i] ELSE last[i - Len(body)]
    BY <1>1, ConcatProperties
  <2> QED
    BY <2>1, <1>2, <1>3
<1>5. Transition(s) = body \o last
  BY DEF Transition
<1>6. MarkerLine(s).kind = "marker"
  BY DEF MarkerLine
<1> HIDE DEF body, last
<1> QED
  BY <1>2, <1>4, <1>5, <1>6 DEF EndsWithMarker

(* Evaluating a line that is not a marker leaves the last line in place.   *)
LEMMA TailEnds ==
  ASSUME TypeInv, NextLine, EndsWithMarker(script), Head(script).kind # "marker"
  PROVE  script' # <<>> /\ EndsWithMarker(script')
<1>1. script \in Seq(GoodLine) /\ script # <<>> /\ script' = Tail(script)
  BY DEF TypeInv, NextLine
<1>2. Head(script) = script[1] /\ Len(script) \in Nat \ {0}
  BY <1>1, EmptySeq
<1>3. Len(script) # 1
  BY <1>2 DEF EndsWithMarker
<1>4. /\ Len(script') = Len(script) - 1
      /\ \A i \in 1..Len(script') : script'[i] = script[i + 1]
  BY <1>1, HeadTailProperties
<1> QED
  BY <1>2, <1>3, <1>4, EmptySeq DEF EndsWithMarker

(* So does a marker line that is followed by others.                       *)
LEMMA MarkerTailEnds ==
  ASSUME TypeInv, NextLine, EndsWithMarker(script), script' # <<>>
  PROVE  EndsWithMarker(script')
<1>1. script \in Seq(GoodLine) /\ script # <<>> /\ script' = Tail(script)
  BY DEF TypeInv, NextLine
<1>2. /\ Len(script') = Len(script) - 1
      /\ script' \in Seq(GoodLine)
      /\ \A i \in 1..Len(script') : script'[i] = script[i + 1]
  BY <1>1, HeadTailProperties
<1>3. Len(script') \in Nat \ {0} /\ Len(script) \in Nat
  BY <1>1, <1>2, EmptySeq, LenProperties
<1> QED
  BY <1>2, <1>3 DEF EndsWithMarker

LEMMA ScriptInit == Init => ScriptInv
  BY DEF Init, ScriptInv, Quiet, NothingManaged

LEMMA ScriptNext == TypeInv /\ ScriptInv /\ [Next]_vars => ScriptInv'
<1> SUFFICES ASSUME TypeInv, ScriptInv, [Next]_vars PROVE ScriptInv'
  OBVIOUS
<1> USE DEF ScriptInv, Quiet, NothingManaged
<1>1. ASSUME \/ \E d \in Scopes \cup {None} : Cd(d)
             \/ \E n \in Names, v \in UserVals \cup {Absent} : Assign(n, v)
             \/ \E s \in Scopes : EditSource(s) \/ ChangeHealth(s)
             \/ UNCHANGED vars
      PROVE UNCHANGED hook
  BY <1>1 DEF Cd, Assign, EditSource, ChangeHealth, hook, vars
<1>2. ASSUME UNCHANGED hook
      PROVE ScriptInv'
  BY <1>2 DEF hook
<1>3. ASSUME Prompt
      PROVE ScriptInv'
  BY <1>3 DEF Prompt
<1>4. ASSUME ActivateAnswers
      PROVE ScriptInv'
  <2>1. CASE script' = ClearScript
    <3>1. script' = ClearScript /\ stage' = "evaluating" /\ busy' = busy
      BY <1>4, <2>1 DEF ActivateAnswers
    <3>2. stage = "activating" /\ ClearScript # <<>>
      BY <1>4 DEF ActivateAnswers, ClearScript
    <3> QED
      BY <3>1, <3>2
  <2>2. CASE script' = <<>> /\ marker # None
    BY <1>4, <2>2 DEF ActivateAnswers
  <2>3. CASE cwd \in Scopes /\ script' = Transition(cwd)
    <3>1. cwd \in Scopes
      BY <2>3
    <3>2. EndsWithMarker(Transition(cwd))
      BY <3>1, TransitionEnds DEF TypeInv
    <3>3. Transition(cwd) # <<>>
      BY <3>1, TransitionTyped, PlainLines, ConcatProperties, EmptySeq
         DEF Transition, TypeInv
    <3> QED
      BY <1>4, <2>3, <3>2, <3>3 DEF ActivateAnswers
  <2> QED
    BY <1>4, <2>1, <2>2, <2>3, AnswerCases
<1>5. ASSUME ActivateDies
      PROVE ScriptInv'
  BY <1>5 DEF ActivateDies
<1>6. ASSUME EvalClear
      PROVE ScriptInv'
  <2>1. CASE EndsWithMarker(script)
    BY <1>6, <2>1, TailEnds DEF EvalClear, NextLine
  <2>2. CASE script = ClearScript
    BY <1>6, <2>2 DEF EvalClear, Clear, Forgotten, NextLine, ClearScript
  <2>3. CASE script = <<Plain("nomarker")>>
    BY <1>6, <2>3 DEF EvalClear, Plain
  <2> QED
    BY <1>6, <2>1, <2>2, <2>3 DEF EvalClear, NextLine
<1>7. ASSUME EvalUnset \/ EvalSet \/ EvalSetFails
      PROVE ScriptInv'
  <2>1. Head(script).kind \in {"set", "unset"} /\ NextLine
    BY <1>7 DEF EvalUnset, EvalSet, EvalSetFails
  <2>2. EndsWithMarker(script)
    BY <2>1 DEF NextLine, ClearScript, Plain
  <2> QED
    BY <2>1, <2>2, TailEnds DEF NextLine
<1>8. ASSUME EvalMarker
      PROVE ScriptInv'
  <2>1. Head(script) \in GoodLine
    BY <1>8, HeadTyped DEF EvalMarker
  <2>2. CASE EndsWithMarker(script) /\ Head(script).kind = "marker"
    <3>1. marker' # None
      BY <1>8, <2>1, <2>2, NoneIsFresh DEF EvalMarker, GoodLine, Markers
    <3> QED
      BY <1>8, <2>2, <3>1, MarkerTailEnds DEF EvalMarker, NextLine
  <2>3. CASE EndsWithMarker(script) /\ Head(script).kind # "marker"
    BY <1>8, <2>3, TailEnds DEF EvalMarker, NextLine
  <2>4. CASE script = ClearScript
    BY <1>8, <2>4 DEF EvalMarker, ClearScript, Plain
  <2>5. CASE script = <<Plain("nomarker")>> /\ NothingManaged
    BY <1>8, <2>5 DEF EvalMarker, NextLine, Plain
  <2> QED
    BY <1>8, <2>2, <2>3, <2>4, <2>5 DEF EvalMarker, NextLine
<1>9. ASSUME EvalEnds
      PROVE ScriptInv'
  BY <1>9 DEF EvalEnds
<1>10. ASSUME Interrupt
       PROVE ScriptInv'
  BY <1>10 DEF Interrupt
<1>11. ASSUME Resource
       PROVE ScriptInv'
  BY <1>11 DEF Resource, Lose, Forgotten
<1>12. ASSUME ChildShell
       PROVE ScriptInv'
  BY <1>12 DEF ChildShell, Lose, Forgotten
<1> QED
  BY <1>1, <1>2, <1>3, <1>4, <1>5, <1>6, <1>7, <1>8, <1>9, <1>10, <1>11, <1>12
     DEF Next, Eval

(* A shell at its prompt without a marker holds nothing of any scope: it   *)
(* left the scope, or failed to enter it, with everything put back.        *)
THEOREM NoMarkerHoldsNothing == Spec => []NoMarkerNothingManaged
<1>1. Init => TypeInv /\ ScriptInv
  BY TypeInit, ScriptInit
<1>2. TypeInv /\ ScriptInv /\ [Next]_vars => (TypeInv /\ ScriptInv)'
  BY TypeNext, ScriptNext
<1>3. ScriptInv => NoMarkerNothingManaged
  BY DEF ScriptInv, Quiet, NothingManaged, NoMarkerNothingManaged
<1> QED
  BY <1>1, <1>2, <1>3, PTL DEF Spec

-----------------------------------------------------------------------------
(* The transition is atomic as a prompt sees it.  While its lines are      *)
(* evaluated, what they have managed already and what they still touch are *)
(* together the names of the marker at their end.                          *)
Shape(seq, m) ==
    /\ seq[Len(seq)].kind = "marker" /\ seq[Len(seq)].val = m
    /\ \A i \in 1..(Len(seq) - 1) : seq[i].kind \notin {"marker", "nomarker"}
    /\ \A i \in 2..Len(seq) : seq[i].kind # "clear"
    /\ \A i \in 1..Len(seq) : seq[i].kind = "set" => seq[i].val = m

Touches(seq, n) ==
    \E i \in 1..Len(seq) : seq[i].kind \in {"set", "unset"} /\ seq[i].name = n
Touched(seq) == {n \in Names : Touches(seq, n)}

OnlySecretsOf(m) == \A n \in DOMAIN saved : env[n] \in Markers => env[n] = m

UnderWay(m) ==
    /\ Shape(script, m)
    /\ IF Head(script).kind = "clear" THEN Touched(script) = ManagedBy(m)
       ELSE DOMAIN saved \cup Touched(script) = ManagedBy(m) /\ OnlySecretsOf(m)

AtomicInv ==
    /\ script # <<>> /\ EndsWithMarker(script) => UnderWay(script[Len(script)].val)
    /\ Quiet /\ ~forgot /\ marker # None =>
         DOMAIN saved = ManagedBy(marker) /\ OnlySecretsOf(marker)

(* Two lists of lines, one after the other.                                *)
LEMMA Joined ==
  ASSUME NEW p \in Seq(GoodLine), NEW q \in Seq(GoodLine)
  PROVE  /\ p \o q \in Seq(GoodLine)
         /\ Len(p) \in Nat /\ Len(q) \in Nat
         /\ Len(p \o q) = Len(p) + Len(q)
         /\ \A i \in 1..Len(p) : (p \o q)[i] = p[i]
         /\ \A i \in 1..Len(q) : (p \o q)[Len(p) + i] = q[i]
<1>1. /\ p \o q \in Seq(GoodLine)
      /\ Len(p \o q) = Len(p) + Len(q)
      /\ \A i \in 1..(Len(p) + Len(q)) :
           (p \o q)[i] = IF i <= Len(p) THEN p[i] ELSE q[i - Len(p)]
  BY ConcatProperties
<1>2. Len(p) \in Nat /\ Len(q) \in Nat
  BY LenProperties
<1>3. ASSUME NEW i \in 1..Len(p)
      PROVE  (p \o q)[i] = p[i]
  <2>1. i \in 1..(Len(p) + Len(q)) /\ i <= Len(p)
    BY <1>2
  <2> QED
    BY <1>1, <2>1
<1>4. ASSUME NEW i \in 1..Len(q)
      PROVE  (p \o q)[Len(p) + i] = q[i]
  <2>1. /\ Len(p) + i \in 1..(Len(p) + Len(q))
        /\ ~(Len(p) + i <= Len(p)) /\ (Len(p) + i) - Len(p) = i
    BY <1>2
  <2>2. (p \o q)[Len(p) + i] = q[(Len(p) + i) - Len(p)]
    BY <1>1, <2>1
  <2> QED
    BY <2>1, <2>2
<1> QED
  BY <1>1, <1>2, <1>3, <1>4

(* A transition line by line.                                              *)
LEMMA TransitionLines ==
  ASSUME TypeOK, NEW s \in Scopes
  PROVE  LET u == Len(UnsetNames[s])
             v == Len(SetNames[s])
         IN  /\ u \in Nat /\ v \in Nat /\ Len(Transition(s)) = 1 + u + v + 1
             /\ Transition(s)[1] = Plain("clear")
             /\ \A i \in 1..u : Transition(s)[1 + i] = UnsetLines(s)[i]
             /\ \A i \in 1..v : Transition(s)[1 + u + i] = SetLines(s)[i]
             /\ Transition(s)[1 + u + v + 1] = MarkerLine(s)
<1> DEFINE u == Len(UnsetNames[s])
           v == Len(SetNames[s])
           unset == UnsetLines(s)
           set == SetLines(s)
           first == <<Plain("clear")>>
           last == <<MarkerLine(s)>>
           start == first \o unset
           body == start \o set
           all == body \o last
<1>1. u \in Nat /\ v \in Nat
  <2>1. SetNames[s] \in Seq(Names) /\ UnsetNames[s] \in Seq(Names)
    BY PlansAreLists
  <2> QED
    BY <2>1, LenProperties
<1>2. unset \in Seq(GoodLine) /\ set \in Seq(GoodLine)
  BY TransitionTyped
<1>3. Len(unset) = u /\ Len(set) = v
  <2>1. DOMAIN unset = 1..u /\ DOMAIN set = 1..v
    BY DEF UnsetLines, SetLines
  <2> HIDE DEF unset, set, u, v
  <2> QED
    BY <1>1, <1>2, <2>1, LenProperties
<1>4. /\ first \in Seq(GoodLine) /\ Len(first) = 1 /\ first[1] = Plain("clear")
      /\ last \in Seq(GoodLine) /\ Len(last) = 1 /\ last[1] = MarkerLine(s)
  BY PlainLines, TransitionTyped
<1>5. Transition(s) = all
  BY DEF Transition
<1> HIDE DEF first, last, unset, set, u, v
<1>6. /\ start \in Seq(GoodLine) /\ Len(start) = 1 + u
      /\ start[1] = first[1] /\ \A i \in 1..u : start[1 + i] = unset[i]
  <2>1. /\ start \in Seq(GoodLine) /\ Len(start) = Len(first) + Len(unset)
        /\ \A i \in 1..Len(first) : start[i] = first[i]
        /\ \A i \in 1..Len(unset) : start[Len(first) + i] = unset[i]
    BY <1>2, <1>4, Joined
  <2> HIDE DEF start
  <2> QED
    BY <1>3, <1>4, <2>1
<1> HIDE DEF start
<1>7. /\ body \in Seq(GoodLine) /\ Len(body) = 1 + u + v
      /\ \A i \in 1..(1 + u) : body[i] = start[i]
      /\ \A i \in 1..v : body[1 + u + i] = set[i]
  <2>1. /\ body \in Seq(GoodLine) /\ Len(body) = Len(start) + Len(set)
        /\ \A i \in 1..Len(start) : body[i] = start[i]
        /\ \A i \in 1..Len(set) : body[Len(start) + i] = set[i]
    BY <1>2, <1>6, Joined
  <2> HIDE DEF body
  <2> QED
    BY <1>3, <1>6, <2>1
<1> HIDE DEF body
<1>8. /\ Len(all) = 1 + u + v + 1
      /\ \A i \in 1..(1 + u + v) : all[i] = body[i]
      /\ all[1 + u + v + 1] = last[1]
  <2>1. /\ Len(all) = Len(body) + Len(last)
        /\ \A i \in 1..Len(body) : all[i] = body[i]
        /\ \A i \in 1..Len(last) : all[Len(body) + i] = last[i]
    BY <1>4, <1>7, Joined
  <2> HIDE DEF all
  <2> QED
    BY <1>4, <1>7, <2>1
<1> HIDE DEF all
<1>9. all[1] = first[1]
  <2>1. 1 \in 1..(1 + u) /\ 1 \in 1..(1 + u + v)
    BY <1>1
  <2> QED
    BY <1>6, <1>7, <1>8, <2>1
<1>10. ASSUME NEW i \in 1..u
       PROVE  all[1 + i] = unset[i]
  <2>1. 1 + i \in 1..(1 + u) /\ 1 + i \in 1..(1 + u + v)
    BY <1>1
  <2> QED
    BY <1>6, <1>7, <1>8, <2>1
<1>11. ASSUME NEW i \in 1..v
       PROVE  all[1 + u + i] = set[i]
  <2>1. 1 + u + i \in 1..(1 + u + v)
    BY <1>1
  <2> QED
    BY <1>7, <1>8, <2>1
<1>12. /\ u \in Nat /\ v \in Nat /\ Len(Transition(s)) = 1 + u + v + 1
       /\ Transition(s)[1] = Plain("clear")
       /\ \A i \in 1..u : Transition(s)[1 + i] = unset[i]
       /\ \A i \in 1..v : Transition(s)[1 + u + i] = set[i]
       /\ Transition(s)[1 + u + v + 1] = MarkerLine(s)
  BY <1>1, <1>4, <1>5, <1>8, <1>9, <1>10, <1>11
<1> QED
  BY <1>12 DEF u, v, unset, set

(* What each of its lines is.                                              *)
LEMMA TransitionKinds ==
  ASSUME TypeOK, NEW s \in Scopes
  PROVE  LET t == Transition(s)
             unset == UnsetNames[s]
             set == SetNames[s]
             u == Len(unset)
             v == Len(set)
         IN  /\ u \in Nat /\ v \in Nat /\ Len(t) = 1 + u + v + 1
             /\ t[1].kind = "clear"
             /\ t[1 + u + v + 1].kind = "marker" /\ t[1 + u + v + 1].val = Mark(s)
             /\ \A i \in 1..u : t[1 + i].kind = "unset" /\ t[1 + i].name = unset[i]
             /\ \A i \in 1..v : /\ t[1 + u + i].kind = "set"
                                /\ t[1 + u + i].name = set[i]
                                /\ t[1 + u + i].val = Mark(s)
             /\ DOMAIN unset = 1..u /\ \A i \in 1..u : unset[i] \in Names
             /\ DOMAIN set = 1..v /\ \A i \in 1..v : set[i] \in Names
             /\ \A i \in 1..Len(t) :
                  \/ i = 1 \/ i = 1 + u + v + 1
                  \/ \E j \in 1..u : i = 1 + j
                  \/ \E j \in 1..v : i = 1 + u + j
<1> DEFINE t == Transition(s)
           unset == UnsetNames[s]
           set == SetNames[s]
           u == Len(unset)
           v == Len(set)
<1>1. /\ u \in Nat /\ v \in Nat /\ Len(t) = 1 + u + v + 1
      /\ t[1] = Plain("clear") /\ t[1 + u + v + 1] = MarkerLine(s)
      /\ \A i \in 1..u : t[1 + i] = UnsetLines(s)[i]
      /\ \A i \in 1..v : t[1 + u + i] = SetLines(s)[i]
  BY TransitionLines
<1>2. /\ t[1].kind = "clear"
      /\ t[1 + u + v + 1].kind = "marker" /\ t[1 + u + v + 1].val = Mark(s)
  BY <1>1 DEF Plain, MarkerLine
<1>3. \A i \in 1..u : t[1 + i].kind = "unset" /\ t[1 + i].name = unset[i]
  <2>1. \A i \in 1..u :
          UnsetLines(s)[i] = [kind |-> "unset", name |-> unset[i], val |-> None]
    BY DEF UnsetLines
  <2> HIDE DEF t, u, v, unset
  <2>2. ASSUME NEW i \in 1..u
        PROVE  t[1 + i].kind = "unset" /\ t[1 + i].name = unset[i]
    <3>1. t[1 + i] = UnsetLines(s)[i]
      BY <1>1
    <3>2. UnsetLines(s)[i] = [kind |-> "unset", name |-> unset[i], val |-> None]
      BY <2>1
    <3>3. t[1 + i] = [kind |-> "unset", name |-> unset[i], val |-> None]
      BY <3>1, <3>2
    <3> QED
      BY <3>3
  <2> QED
    BY <2>2
<1>4. \A i \in 1..v : /\ t[1 + u + i].kind = "set" /\ t[1 + u + i].name = set[i]
                     /\ t[1 + u + i].val = Mark(s)
  <2>1. \A i \in 1..v : SetLines(s)[i] = [kind |-> "set", name |-> set[i], val |-> Mark(s)]
    BY DEF SetLines
  <2> HIDE DEF t, u, v, set
  <2>2. ASSUME NEW i \in 1..v
        PROVE  /\ t[1 + u + i].kind = "set" /\ t[1 + u + i].name = set[i]
               /\ t[1 + u + i].val = Mark(s)
    <3>1. t[1 + u + i] = SetLines(s)[i]
      BY <1>1
    <3>2. SetLines(s)[i] = [kind |-> "set", name |-> set[i], val |-> Mark(s)]
      BY <2>1
    <3>3. t[1 + u + i] = [kind |-> "set", name |-> set[i], val |-> Mark(s)]
      BY <3>1, <3>2
    <3> QED
      BY <3>3
  <2> QED
    BY <2>2
<1>5. /\ DOMAIN unset = 1..u /\ \A i \in 1..u : unset[i] \in Names
      /\ DOMAIN set = 1..v /\ \A i \in 1..v : set[i] \in Names
  <2>1. unset \in Seq(Names) /\ set \in Seq(Names)
    BY PlansAreLists
  <2> QED
    BY <2>1, LenProperties, ElementOfSeq
<1> HIDE DEF t, unset, set, u, v
<1>6. ASSUME NEW i \in 1..Len(t)
      PROVE  \/ i = 1
             \/ i = 1 + u + v + 1
             \/ \E j \in 1..u : i = 1 + j
             \/ \E j \in 1..v : i = 1 + u + j
  <2>1. CASE i \in 2..(1 + u)
    <3>1. i - 1 \in 1..u /\ i = 1 + (i - 1)
      BY <1>1, <2>1
    <3> QED
      BY <3>1
  <2>2. CASE i \in (1 + u + 1)..(1 + u + v)
    <3>1. i - (1 + u) \in 1..v /\ i = 1 + u + (i - (1 + u))
      BY <1>1, <2>2
    <3> QED
      BY <3>1
  <2>3. i = 1 \/ i = 1 + u + v + 1 \/ i \in 2..(1 + u) \/ i \in (1 + u + 1)..(1 + u + v)
    <3>1. u \in Nat /\ v \in Nat /\ i \in 1..(1 + u + v + 1)
      BY <1>1
    <3> QED
      BY <3>1
  <2> QED
    BY <2>1, <2>2, <2>3
<1>7. /\ u \in Nat /\ v \in Nat /\ Len(t) = 1 + u + v + 1
      /\ t[1].kind = "clear"
      /\ t[1 + u + v + 1].kind = "marker" /\ t[1 + u + v + 1].val = Mark(s)
      /\ \A i \in 1..u : t[1 + i].kind = "unset" /\ t[1 + i].name = unset[i]
      /\ \A i \in 1..v : /\ t[1 + u + i].kind = "set" /\ t[1 + u + i].name = set[i]
                         /\ t[1 + u + i].val = Mark(s)
      /\ DOMAIN unset = 1..u /\ \A i \in 1..u : unset[i] \in Names
      /\ DOMAIN set = 1..v /\ \A i \in 1..v : set[i] \in Names
      /\ \A i \in 1..Len(t) :
           \/ i = 1 \/ i = 1 + u + v + 1
           \/ \E j \in 1..u : i = 1 + j
           \/ \E j \in 1..v : i = 1 + u + j
  BY <1>1, <1>2, <1>3, <1>4, <1>5, <1>6
<1> QED
  BY <1>7 DEF t, unset, set, u, v

(* It has the shape, and touches the names its marker stands for.          *)
LEMMA TransitionShape ==
  ASSUME TypeOK, NEW s \in Scopes
  PROVE  /\ Shape(Transition(s), Mark(s))
         /\ Head(Transition(s)).kind = "clear"
         /\ Touched(Transition(s)) = ManagedBy(Mark(s))
<1> DEFINE t == Transition(s)
           m == Mark(s)
           unset == UnsetNames[s]
           set == SetNames[s]
           u == Len(unset)
           v == Len(set)
<1>1. u \in Nat /\ v \in Nat /\ Len(t) = 1 + u + v + 1
  BY TransitionKinds
<1>2. t \in Seq(GoodLine)
  BY TransitionInSeq
<1>3. /\ t[1].kind = "clear"
      /\ t[1 + u + v + 1].kind = "marker" /\ t[1 + u + v + 1].val = m
      /\ \A i \in 1..u : t[1 + i].kind = "unset" /\ t[1 + i].name = unset[i]
      /\ \A i \in 1..v : /\ t[1 + u + i].kind = "set" /\ t[1 + u + i].name = set[i]
                         /\ t[1 + u + i].val = m
      /\ DOMAIN unset = 1..u /\ \A i \in 1..u : unset[i] \in Names
      /\ DOMAIN set = 1..v /\ \A i \in 1..v : set[i] \in Names
  BY TransitionKinds
<1>4. \A i \in 1..Len(t) :
         \/ i = 1
         \/ i = 1 + u + v + 1
         \/ \E j \in 1..u : i = 1 + j
         \/ \E j \in 1..v : i = 1 + u + j
  BY TransitionKinds
<1>5. ManagedBy(m) = {set[i] : i \in 1..v} \cup {unset[i] : i \in 1..u}
  <2>1. m[1] = s
    BY DEF Mark
  <2> HIDE DEF m
  <2> QED
    BY <1>3, <2>1 DEF ManagedBy, ElementsOf
<1>6. Head(t) = t[1] /\ t # <<>>
  <2> HIDE DEF t, u, v
  <2>1. Len(t) # 0
    BY <1>1
  <2> QED
    BY <1>2, <2>1, EmptySeq
<1> HIDE DEF t, m, unset, set, u, v
<1>7. Shape(t, m)
  <2>1. ASSUME NEW i \in 1..Len(t), i # 1, i # Len(t)
        PROVE  /\ t[i].kind \in {"set", "unset"}
               /\ t[i].kind = "set" => t[i].val = m
    <3>1. i # 1 + u + v + 1
      BY <1>1, <2>1
    <3> QED
      BY <1>3, <1>4, <2>1, <3>1
  <2>2. t[Len(t)].kind = "marker" /\ t[Len(t)].val = m
    BY <1>1, <1>3
  <2>3. Len(t) \in Nat /\ Len(t) >= 2
    BY <1>1
  <2>4. \A i \in 1..(Len(t) - 1) : i \in 1..Len(t) /\ i # Len(t)
    BY <2>3
  <2>5. \A i \in 2..Len(t) : i \in 1..Len(t) /\ i # 1
    BY <2>3
  <2> QED
    BY <1>3, <2>1, <2>2, <2>4, <2>5 DEF Shape
<1>8. ASSUME NEW i \in 1..Len(t), t[i].kind \in {"set", "unset"}
      PROVE  t[i].name \in ManagedBy(m)
  BY <1>3, <1>4, <1>5, <1>8
<1>9. ASSUME NEW n \in ManagedBy(m)
      PROVE  n \in Touched(t)
  <2>1. CASE \E i \in 1..v : n = set[i]
    <3>1. PICK i \in 1..v : n = set[i]
      BY <2>1
    <3>2. 1 + u + i \in 1..Len(t)
      BY <1>1
    <3> QED
      BY <1>3, <3>1, <3>2 DEF Touched, Touches
  <2>2. CASE \E i \in 1..u : n = unset[i]
    <3>1. PICK i \in 1..u : n = unset[i]
      BY <2>2
    <3>2. 1 + i \in 1..Len(t)
      BY <1>1
    <3> QED
      BY <1>3, <3>1, <3>2 DEF Touched, Touches
  <2> QED
    BY <1>5, <2>1, <2>2
<1>10. Touched(t) = ManagedBy(m)
  BY <1>8, <1>9 DEF Touched, Touches
<1>11. Shape(t, m) /\ Head(t).kind = "clear" /\ Touched(t) = ManagedBy(m)
  BY <1>3, <1>6, <1>7, <1>10
<1> QED
  BY <1>11 DEF t, m

(* What is left when one line that is not the last is evaluated.           *)
LEMMA RestOfScript ==
  ASSUME TypeInv, NextLine, NEW m, Shape(script, m), script' # <<>>
  PROVE  /\ Shape(script', m) /\ script'[Len(script')].val = m
         /\ Head(script').kind # "clear"
         /\ Head(script).kind \notin {"marker", "nomarker"}
         /\ Head(script).kind = "set" => Head(script).val = m
         /\ Touched(script) = Touched(script') \cup
              {n \in Names : Head(script).kind \in {"set", "unset"} /\ Head(script).name = n}
<1>1. script \in Seq(GoodLine) /\ script # <<>> /\ script' = Tail(script)
  BY DEF TypeInv, NextLine
<1>2. /\ Len(script') = Len(script) - 1 /\ script' \in Seq(GoodLine)
      /\ \A i \in 1..Len(script') : script'[i] = script[i + 1]
  BY <1>1, HeadTailProperties
<1>3. /\ Len(script') \in Nat \ {0} /\ Len(script) \in Nat
      /\ Head(script) = script[1] /\ Head(script') = script'[1]
  BY <1>1, <1>2, EmptySeq, LenProperties
<1>4. Shape(script', m)
  <2>1. script'[Len(script')] = script[Len(script)]
    BY <1>2, <1>3
  <2>2. \A i \in 1..(Len(script') - 1) : script'[i].kind \notin {"marker", "nomarker"}
    BY <1>2, <1>3 DEF Shape
  <2>3. \A i \in 1..Len(script') :
          /\ script'[i].kind # "clear"
          /\ script'[i].kind = "set" => script'[i].val = m
    BY <1>2, <1>3 DEF Shape
  <2> QED
    BY <1>3, <2>1, <2>2, <2>3 DEF Shape
<1>5. Head(script').kind # "clear"
  BY <1>2, <1>3 DEF Shape
<1>6. /\ Head(script).kind \notin {"marker", "nomarker"}
      /\ Head(script).kind = "set" => Head(script).val = m
  BY <1>2, <1>3 DEF Shape
<1>7. ASSUME NEW n \in Names
      PROVE  Touches(script, n) <=>
               \/ Touches(script', n)
               \/ Head(script).kind \in {"set", "unset"} /\ Head(script).name = n
  <2>1. ASSUME NEW i \in 1..Len(script), i # 1
        PROVE  i - 1 \in 1..Len(script') /\ script'[i - 1] = script[i]
    BY <1>2, <1>3, <2>1
  <2>2. ASSUME NEW i \in 1..Len(script')
        PROVE  i + 1 \in 1..Len(script) /\ script'[i] = script[i + 1]
    BY <1>2, <1>3
  <2>3. 1 \in 1..Len(script)
    BY <1>2, <1>3
  <2> QED
    BY <1>3, <2>1, <2>2, <2>3 DEF Touches
<1> QED
  BY <1>4, <1>5, <1>6, <1>7 DEF Shape, Touched

LEMMA AtomicInit == Init => AtomicInv
  BY DEF Init, AtomicInv

(* One line of a transition is evaluated.                                  *)
LEMMA LineAtomic ==
  ASSUME TypeInv, AtomicInv, NextLine, EndsWithMarker(script), stage = "evaluating",
         EvalClear \/ EvalUnset \/ EvalSet
  PROVE  AtomicInv'
<1> DEFINE l == Head(script)
<1> PICK m : m = script[Len(script)].val
  OBVIOUS
<1>1. script # <<>> /\ UnderWay(m) /\ Shape(script, m)
  BY DEF NextLine, AtomicInv, UnderWay
<1>2. script' # <<>> /\ EndsWithMarker(script')
  BY TailEnds DEF EvalClear, EvalUnset, EvalSet
<1>3. /\ Shape(script', m) /\ script'[Len(script')].val = m
      /\ Head(script').kind # "clear"
      /\ l.kind = "set" => l.val = m
      /\ Touched(script) = Touched(script') \cup
            {n \in Names : l.kind \in {"set", "unset"} /\ l.name = n}
  BY <1>1, <1>2, RestOfScript
<1>4. ~Quiet'
  BY <1>2 DEF NextLine, Quiet
<1>5. DOMAIN saved' \cup Touched(script') = ManagedBy(m) /\ OnlySecretsOf(m)'
  <2>1. CASE EvalClear
    <3>1. l.kind = "clear" /\ DOMAIN saved' = {}
      BY <2>1, ForgottenTyped DEF EvalClear, Clear
    <3> QED
      BY <1>1, <1>3, <3>1 DEF UnderWay, OnlySecretsOf
  <2>2. CASE EvalUnset \/ EvalSet
    <3>1. l \in GoodLine /\ l.kind \in {"set", "unset"} /\ l.name \in Names
      BY <2>2, HeadTyped DEF EvalUnset, EvalSet, GoodLine
    <3>2. DOMAIN saved' = DOMAIN saved \cup {l.name}
      BY <2>2 DEF EvalUnset, EvalSet, Remembered
    <3>3. env' = [env EXCEPT ![l.name] = IF l.kind = "set" THEN m ELSE Absent]
      BY <1>3, <2>2, <3>1 DEF EvalUnset, EvalSet
    <3>4. DOMAIN saved \cup Touched(script) = ManagedBy(m) /\ OnlySecretsOf(m)
      BY <1>1, <3>1 DEF UnderWay
    <3>5. Touched(script) = Touched(script') \cup {l.name}
      BY <1>3, <3>1
    <3>6. OnlySecretsOf(m)'
      <4>1. Absent \notin Markers
        BY SecretsAreFresh DEF Markers
      <4>2. DOMAIN env = Names /\ DOMAIN saved \subseteq Names
        BY DEF TypeInv, TypeOK
      <4> QED
        BY <3>1, <3>2, <3>3, <3>4, <4>1, <4>2 DEF OnlySecretsOf
    <3> QED
      BY <3>2, <3>4, <3>5, <3>6
  <2> QED
    BY <2>1, <2>2
<1>6. UnderWay(m)'
  BY <1>3, <1>5 DEF UnderWay
<1> QED
  BY <1>3, <1>4, <1>6 DEF AtomicInv

LEMMA MarkerAtomic ==
  ASSUME TypeInv, ScriptInv, AtomicInv, EvalMarker
  PROVE  AtomicInv'
<1>1. /\ script # <<>> /\ stage = "evaluating" /\ script' = Tail(script)
      /\ Head(script) \in GoodLine /\ Head(script).kind \in {"marker", "nomarker"}
      /\ marker' = Head(script).val /\ UNCHANGED <<env, saved, stage>>
  BY HeadTyped DEF EvalMarker, NextLine
<1>2. CASE EndsWithMarker(script)
  <2> DEFINE m == script[Len(script)].val
  <2>1. UnderWay(m) /\ Shape(script, m)
    BY <1>1, <1>2 DEF AtomicInv, UnderWay
  <2> HIDE DEF m
  <2>2. script' = <<>>
    BY <1>1, <2>1, RestOfScript DEF EvalMarker
  <2>3. /\ script \in Seq(GoodLine) /\ Len(script) = 1 /\ Head(script) = script[1]
    <3>1. script \in Seq(GoodLine)
      BY DEF TypeInv
    <3>2. Len(script') = Len(script) - 1 /\ Head(script) = script[1] /\ Len(script) \in Nat
      BY <1>1, <3>1, HeadTailProperties, EmptySeq, LenProperties
    <3>3. Len(script') = 0
      BY <2>2
    <3> QED
      BY <3>1, <3>2, <3>3
  <2>4. Touched(script) = {}
    BY <1>1, <2>3 DEF Touched, Touches
  <2>5. marker' = m /\ DOMAIN saved = ManagedBy(m) /\ OnlySecretsOf(m)
    BY <1>1, <2>1, <2>3, <2>4 DEF UnderWay, Shape
  <2>6. DOMAIN saved' = ManagedBy(marker') /\ OnlySecretsOf(marker)'
    BY <1>1, <2>5 DEF OnlySecretsOf
  <2> QED
    BY <2>2, <2>6 DEF AtomicInv
<1>3. CASE ~EndsWithMarker(script)
  <2>1. script = ClearScript \/ script = <<Plain("nomarker")>>
    BY <1>1, <1>3 DEF ScriptInv
  <2>2. script = <<Plain("nomarker")>>
    BY <1>1, <2>1 DEF ClearScript, Plain
  <2>3. script' = <<>> /\ marker' = None
    BY <1>1, <2>2 DEF Plain
  <2> QED
    BY <2>3 DEF AtomicInv
<1> QED
  BY <1>2, <1>3

LEMMA AnswerAtomic ==
  ASSUME TypeInv, ScriptInv, AtomicInv, ActivateAnswers
  PROVE  AtomicInv'
<1>1. /\ stage = "activating" /\ stage' = "evaluating"
      /\ UNCHANGED <<env, saved, marker, forgot>>
  BY DEF ActivateAnswers, history
<1>2. CASE script' = ClearScript
  <2>1. script' = ClearScript
    BY <1>2
  <2>2. script' # <<>> /\ ~EndsWithMarker(script')
    BY <2>1 DEF ClearScript, Plain, EndsWithMarker
  <2> QED
    BY <1>1, <2>2 DEF AtomicInv, Quiet
<1>3. CASE script' = <<>>
  BY <1>1, <1>3 DEF AtomicInv, Quiet, OnlySecretsOf
<1>4. CASE cwd \in Scopes /\ script' = Transition(cwd)
  <2>1. cwd \in Scopes
    BY <1>4
  <2>2. script' = Transition(cwd)
    BY <1>4
  <2>3. /\ Shape(script', Mark(cwd)) /\ Head(script').kind = "clear"
        /\ Touched(script') = ManagedBy(Mark(cwd))
    BY <2>1, <2>2, TransitionShape DEF TypeInv
  <2>4. UnderWay(Mark(cwd))'
    <3>1. UNCHANGED cwd /\ Mark(cwd)' = Mark(cwd)
      BY DEF ActivateAnswers, world, Mark
    <3> QED
      BY <2>3, <3>1 DEF UnderWay
  <2>5. script'[Len(script')].val = Mark(cwd) /\ Mark(cwd)' = Mark(cwd)
    BY <2>3 DEF Shape, ActivateAnswers, world, Mark
  <2>6. script' # <<>>
    BY <2>1, <2>2, TransitionTyped, PlainLines, ConcatProperties, EmptySeq
       DEF Transition, TypeInv
  <2> QED
    BY <1>1, <2>4, <2>5, <2>6 DEF AtomicInv, Quiet
<1> QED
  BY <1>2, <1>3, <1>4, AnswerCases

LEMMA AtomicNext ==
  ASSUME "decode" \notin Hazards, TypeInv, ScriptInv, AtomicInv, [Next]_vars
  PROVE  AtomicInv'
<1>1. ASSUME NEW n \in Names, NEW v \in UserVals \cup {Absent}, Assign(n, v)
      PROVE  AtomicInv'
  <2>1. script = <<>> /\ UNCHANGED hook /\ UNCHANGED forgot
    BY <1>1 DEF Assign, ScriptInv
  <2>2. v \notin Markers
    BY SecretsAreFresh DEF Markers
  <2>3. \A m : OnlySecretsOf(m) => OnlySecretsOf(m)'
    BY <1>1, <2>1, <2>2 DEF Assign, OnlySecretsOf, TypeInv, TypeOK, hook
  <2>4. OnlySecretsOf(marker) => OnlySecretsOf(marker)'
    BY <1>1, <2>1, <2>2 DEF Assign, OnlySecretsOf, TypeInv, TypeOK, hook
  <2> QED
    BY <2>1, <2>4 DEF AtomicInv, Quiet, hook
<1>2. ASSUME UNCHANGED <<env, saved, marker, busy, stage, script, forgot>>
      PROVE  AtomicInv'
  BY <1>2 DEF AtomicInv, Quiet, UnderWay, OnlySecretsOf
<1>3. ASSUME \/ \E d \in Scopes \cup {None} : Cd(d)
             \/ \E s \in Scopes : EditSource(s) \/ ChangeHealth(s)
             \/ UNCHANGED vars
      PROVE  UNCHANGED <<env, saved, marker, busy, stage, script, forgot>>
  BY <1>3 DEF Cd, EditSource, ChangeHealth, hook, history, vars
<1>4. ASSUME Prompt \/ ActivateDies \/ EvalEnds
      PROVE  AtomicInv'
  <2>1. script = <<>> /\ Quiet /\ UNCHANGED <<env, saved, marker, script, forgot>>
    BY <1>4 DEF Prompt, ActivateDies, EvalEnds, ScriptInv, Quiet, history
  <2> QED
    BY <2>1 DEF AtomicInv, OnlySecretsOf
<1>5. ASSUME EvalClear \/ EvalUnset \/ EvalSet
      PROVE  AtomicInv'
  <2>1. NextLine /\ stage = "evaluating" /\ Head(script).kind \in {"clear", "unset", "set"}
    BY <1>5 DEF EvalClear, EvalUnset, EvalSet, NextLine
  <2>2. CASE EndsWithMarker(script)
    BY <1>5, <2>1, <2>2, LineAtomic
  <2>3. CASE ~EndsWithMarker(script)
    <3>1. script = ClearScript
      BY <2>1, <2>3 DEF NextLine, ScriptInv, Plain
    <3>2. script' = <<Plain("nomarker")>>
      BY <2>1, <3>1 DEF NextLine, ClearScript
    <3>3. script' # <<>> /\ ~EndsWithMarker(script')
      BY <3>2 DEF EndsWithMarker, Plain
    <3> QED
      BY <2>1, <3>3 DEF AtomicInv, Quiet, NextLine
  <2> QED
    BY <2>2, <2>3
<1>6. ASSUME Interrupt
      PROVE  AtomicInv'
  BY <1>6 DEF Interrupt, ScriptInv, AtomicInv, Quiet
<1>7. ASSUME Resource
      PROVE  AtomicInv'
  <2>1. script' = <<>> /\ busy' = TRUE
    BY <1>7 DEF Resource, ScriptInv
  <2>2. CASE Shell = "bash"
    BY <1>7, <2>1, <2>2 DEF Resource, Lose, AtomicInv
  <2>3. CASE Shell # "bash"
    <3>1. UNCHANGED <<env, saved, marker, forgot>>
      BY <1>7, <2>3 DEF Resource
    <3>2. Quiet' => Quiet
      BY <1>7, <2>1 DEF Resource, Quiet
    <3> QED
      BY <2>1, <3>1, <3>2 DEF AtomicInv, OnlySecretsOf
  <2> QED
    BY <2>2, <2>3
<1>8. ASSUME ChildShell
      PROVE  AtomicInv'
  BY <1>8 DEF ChildShell, Lose, ScriptInv, AtomicInv
<1>9. ~EvalSetFails
  BY DEF EvalSetFails
<1> QED
  BY <1>1, <1>2, <1>3, <1>4, <1>5, <1>6, <1>7, <1>8, <1>9, MarkerAtomic, AnswerAtomic
     DEF Next, Eval

(* Unless the decoder fails, a prompt that is due (the flag is not set)    *)
(* and has a marker has exactly the names of the marker's scope under      *)
(* management, and no secret but those of the marker.  Said of a hook that *)
(* has completed a script since it was last made to forget, and of the     *)
(* names it was not made to forget.                                        *)
THEOREM TransitionsAreAtomic ==
  ASSUME "decode" \notin Hazards
  PROVE  Spec => []AtomicTransition
<1>1. TypeInv /\ AmbientKept /\ ScriptInv /\ AtomicInv => AtomicTransition
  <2> SUFFICES ASSUME TypeInv, AmbientKept, ScriptInv, AtomicInv,
                      stage = "command", ~busy, ~forgot, marker # None
               PROVE  /\ DOMAIN saved = ManagedBy(marker)
                      /\ \A n \in Names \ orphans : env[n] \in Markers => env[n] = marker
    BY DEF AtomicTransition
  <2>1. DOMAIN saved = ManagedBy(marker) /\ OnlySecretsOf(marker)
    BY DEF AtomicInv, Quiet
  <2>2. ASSUME NEW n \in Names \ orphans, n \notin DOMAIN saved
        PROVE  env[n] \notin Markers
    <3>1. env[n] = own[n] /\ own[n] \in UserVals \cup {Absent}
      BY <2>2 DEF AmbientKept, TypeInv, TypeOK
    <3> QED
      BY <3>1, SecretsAreFresh DEF Markers
  <2> QED
    BY <2>1, <2>2 DEF OnlySecretsOf
<1>2. Init => TypeInv /\ AmbientKept /\ ScriptInv /\ AtomicInv
  BY TypeInit, AmbientInit, ScriptInit, AtomicInit
<1>3. TypeInv /\ AmbientKept /\ ScriptInv /\ AtomicInv /\ [Next]_vars =>
        (TypeInv /\ AmbientKept /\ ScriptInv /\ AtomicInv)'
  BY TypeNext, AmbientNext, ScriptNext, AtomicNext
<1> QED
  BY <1>1, <1>2, <1>3, PTL DEF Spec

(* Where nothing is interrupted the flag never outlives its refresh.       *)
Unflagged == stage = "command" => ~busy

LEMMA UnflaggedNext ==
  ASSUME "interrupt" \notin Hazards, "child" \notin Hazards, Unflagged, [Next]_vars
  PROVE  Unflagged'
<1> USE DEF Unflagged
<1>1. ASSUME Eval
      PROVE  Unflagged'
  BY <1>1 DEF Eval, EvalClear, EvalUnset, EvalSet, EvalSetFails, EvalMarker, NextLine
<1>2. ASSUME \/ Prompt \/ ActivateAnswers \/ ActivateDies \/ EvalEnds \/ Resource
      PROVE  Unflagged'
  BY <1>2 DEF Prompt, ActivateAnswers, ActivateDies, EvalEnds, Resource
<1>3. ASSUME \/ \E d \in Scopes \cup {None} : Cd(d)
             \/ \E n \in Names, v \in UserVals \cup {Absent} : Assign(n, v)
             \/ \E s \in Scopes : EditSource(s) \/ ChangeHealth(s)
             \/ UNCHANGED vars
      PROVE  UNCHANGED <<busy, stage>>
  BY <1>3 DEF Cd, Assign, EditSource, ChangeHealth, hook, vars
<1>4. ~Interrupt /\ ~ChildShell
  BY DEF Interrupt, ChildShell
<1> QED
  BY <1>1, <1>2, <1>3, <1>4 DEF Next

(* What a prompt shows: the user's own variables, or one scope's layer.    *)
WholePrompt ==
    stage = "command" =>
        IF marker = None THEN DOMAIN saved = {} /\ env = own
        ELSE /\ DOMAIN saved = ManagedBy(marker)
             /\ \A n \in Names : env[n] \in Markers => env[n] = marker

(* Where in addition nothing is interrupted and the hook keeps its arrays, *)
(* every prompt shows a whole transition, of every variable: with a marker *)
(* its scope's names are managed and no other secret is in the shell;      *)
(* without one no variable differs from what the user gave it.             *)
THEOREM PromptsAreWhole ==
  ASSUME "decode" \notin Hazards, "interrupt" \notin Hazards, NeverForgets
  PROVE  Spec => []WholePrompt
<1> DEFINE I == /\ TypeInv /\ AmbientKept /\ ScriptInv /\ AtomicInv
                /\ NothingForgotten /\ Unflagged
<1>1. Init => I
  BY TypeInit, AmbientInit, ScriptInit, AtomicInit, ForgotInit DEF Init, Unflagged
<1>2. I /\ [Next]_vars => I'
  <2>1. "child" \notin Hazards
    BY DEF NeverForgets
  <2> QED
    BY <2>1, TypeNext, AmbientNext, ScriptNext, AtomicNext, ForgotNext, UnflaggedNext
<1>3. I => WholePrompt
  <2> SUFFICES ASSUME I, stage = "command" PROVE WholePrompt
    BY DEF WholePrompt
  <2>1. ~busy /\ ~forgot /\ orphans = {} /\ Quiet
    BY DEF Unflagged, NothingForgotten, Quiet
  <2>2. CASE marker = None
    <3>1. DOMAIN saved = {}
      BY <2>1, <2>2 DEF ScriptInv, NothingManaged
    <3>2. \A n \in Names : env[n] = own[n]
      BY <2>1, <3>1 DEF AmbientKept
    <3>3. env = own
      BY <3>2 DEF TypeInv, TypeOK
    <3> QED
      BY <2>2, <3>1, <3>3 DEF WholePrompt
  <2>3. CASE marker # None
    <3>1. DOMAIN saved = ManagedBy(marker) /\ OnlySecretsOf(marker)
      BY <2>1, <2>3 DEF AtomicInv
    <3>2. ASSUME NEW n \in Names, n \notin DOMAIN saved
          PROVE  env[n] \notin Markers
      BY <2>1, <3>2, SecretsAreFresh DEF AmbientKept, TypeInv, TypeOK, Markers
    <3> QED
      BY <2>3, <3>1, <3>2 DEF WholePrompt, OnlySecretsOf
  <2> QED
    BY <2>2, <2>3
<1> QED
  BY <1>1, <1>2, <1>3, PTL DEF Spec

-----------------------------------------------------------------------------
(* The hook implements EnvironmentLayer, as long as no transition is cut   *)
(* off and the hook keeps its arrays.                                      *)

(* The lines that unset come before those that set.                        *)
SetsComeLast(seq) ==
    \A i, j \in 1..Len(seq) : i < j /\ seq[i].kind = "set" => seq[j].kind # "unset"

LosslessInv ==
    /\ orphans = {}
    /\ ~forgot
    /\ stage = "command" => ~busy
    /\ SetsComeLast(script)

Lossless ==
    /\ Hazards \cap {"decode", "interrupt", "child"} = {}
    /\ Shell = "bash" => "resource" \notin Hazards

LEMMA NamedMember ==
  ASSUME NEW seq \in Seq(GoodLine), NEW kind, NEW n
  PROVE  n \in NamedIn(seq, kind) <=>
           \E i \in 1..Len(seq) : seq[i].kind = kind /\ seq[i].name = n
<1>1. DOMAIN seq = 1..Len(seq)
  BY LenProperties
<1> QED
  BY <1>1 DEF NamedIn

LEMMA NothingNamed ==
  ASSUME NEW kind
  PROVE  NamedIn(<<>>, kind) = {} /\ SetsComeLast(<<>>)
  BY DEF NamedIn, SetsComeLast

(* What a transition sets and unsets, and in which order.                  *)
LEMMA TransitionNames ==
  ASSUME TypeOK, NEW s \in Scopes
  PROVE  /\ NamedIn(Transition(s), "set") = ElementsOf(SetNames[s])
         /\ NamedIn(Transition(s), "unset") = ElementsOf(UnsetNames[s])
         /\ SetsComeLast(Transition(s))
         /\ Transition(s) # <<>>
         /\ Transition(s)[Len(Transition(s))].val = Mark(s)
<1> DEFINE t == Transition(s)
           unset == UnsetNames[s]
           set == SetNames[s]
           u == Len(unset)
           v == Len(set)
<1>1. u \in Nat /\ v \in Nat /\ Len(t) = 1 + u + v + 1
  BY TransitionKinds
<1>2. t \in Seq(GoodLine)
  BY TransitionInSeq
<1>3. /\ t[1].kind = "clear"
      /\ t[1 + u + v + 1].kind = "marker" /\ t[1 + u + v + 1].val = Mark(s)
      /\ \A i \in 1..u : t[1 + i].kind = "unset" /\ t[1 + i].name = unset[i]
      /\ \A i \in 1..v : /\ t[1 + u + i].kind = "set" /\ t[1 + u + i].name = set[i]
                         /\ t[1 + u + i].val = Mark(s)
      /\ DOMAIN unset = 1..u /\ \A i \in 1..u : unset[i] \in Names
      /\ DOMAIN set = 1..v /\ \A i \in 1..v : set[i] \in Names
  BY TransitionKinds
<1>4. \A i \in 1..Len(t) :
         \/ i = 1
         \/ i = 1 + u + v + 1
         \/ \E j \in 1..u : i = 1 + j
         \/ \E j \in 1..v : i = 1 + u + j
  BY TransitionKinds
<1> HIDE DEF t, unset, set, u, v
<1>5. NamedIn(t, "set") = ElementsOf(set)
  <2>1. ASSUME NEW i \in 1..v
        PROVE  1 + u + i \in 1..Len(t)
    BY <1>1
  <2>2. ASSUME NEW n, n \in NamedIn(t, "set")
        PROVE  n \in ElementsOf(set)
    <3>1. PICK i \in 1..Len(t) : t[i].kind = "set" /\ t[i].name = n
      BY <1>2, <2>2, NamedMember
    <3> QED
      BY <1>3, <1>4, <3>1 DEF ElementsOf
  <2>3. ASSUME NEW n, n \in ElementsOf(set)
        PROVE  n \in NamedIn(t, "set")
    BY <1>2, <1>3, <2>1, <2>3, NamedMember DEF ElementsOf
  <2> QED
    BY <2>2, <2>3
<1>6. NamedIn(t, "unset") = ElementsOf(unset)
  <2>1. ASSUME NEW i \in 1..u
        PROVE  1 + i \in 1..Len(t)
    BY <1>1
  <2>2. ASSUME NEW n, n \in NamedIn(t, "unset")
        PROVE  n \in ElementsOf(unset)
    <3>1. PICK i \in 1..Len(t) : t[i].kind = "unset" /\ t[i].name = n
      BY <1>2, <2>2, NamedMember
    <3> QED
      BY <1>3, <1>4, <3>1 DEF ElementsOf
  <2>3. ASSUME NEW n, n \in ElementsOf(unset)
        PROVE  n \in NamedIn(t, "unset")
    BY <1>2, <1>3, <2>1, <2>3, NamedMember DEF ElementsOf
  <2> QED
    BY <2>2, <2>3
<1>7. SetsComeLast(t)
  <2> SUFFICES ASSUME NEW i \in 1..Len(t), NEW j \in 1..Len(t), i < j,
                      t[i].kind = "set", t[j].kind = "unset"
               PROVE  FALSE
    BY DEF SetsComeLast
  <2>1. PICK k \in 1..v : i = 1 + u + k
    BY <1>3, <1>4
  <2>2. PICK l \in 1..u : j = 1 + l
    BY <1>3, <1>4
  <2> QED
    BY <1>1, <2>1, <2>2
<1>8. t # <<>> /\ t[Len(t)].val = Mark(s)
  <2>1. Len(t) # 0 /\ Len(t) = 1 + u + v + 1
    BY <1>1
  <2> QED
    BY <1>2, <1>3, <2>1, EmptySeq
<1> QED
  BY <1>5, <1>6, <1>7, <1>8 DEF t, set, unset

(* What one line adds to the names of those after it.                      *)
LEMMA NamedInRest ==
  ASSUME TypeInv, NextLine
  PROVE  /\ \A kind, n : n \in NamedIn(script, kind) <=>
              \/ n \in NamedIn(script', kind)
              \/ Head(script).kind = kind /\ Head(script).name = n
         /\ SetsComeLast(script) =>
              /\ SetsComeLast(script')
              /\ Head(script).kind = "set" => NamedIn(script', "unset") = {}
<1>1. script \in Seq(GoodLine) /\ script # <<>> /\ script' = Tail(script)
  BY DEF TypeInv, NextLine
<1>2. /\ Len(script') = Len(script) - 1 /\ script' \in Seq(GoodLine)
      /\ \A i \in 1..Len(script') : script'[i] = script[i + 1]
  BY <1>1, HeadTailProperties
<1>3. /\ Len(script') \in Nat /\ Len(script) \in Nat
      /\ Head(script) = script[1]
  BY <1>1, <1>2, EmptySeq, LenProperties
<1>4. /\ \A i \in 1..Len(script) : i # 1 =>
           i - 1 \in 1..Len(script') /\ script'[i - 1] = script[i]
      /\ \A i \in 1..Len(script') : i + 1 \in 1..Len(script) /\ script'[i] = script[i + 1]
      /\ 1 \in 1..Len(script)
  BY <1>2, <1>3
<1>5. ASSUME NEW kind, NEW n
      PROVE  n \in NamedIn(script, kind) <=>
               \/ n \in NamedIn(script', kind)
               \/ Head(script).kind = kind /\ Head(script).name = n
  <2>1. n \in NamedIn(script, kind) <=>
          \E i \in 1..Len(script) : script[i].kind = kind /\ script[i].name = n
    BY <1>1, NamedMember
  <2>2. n \in NamedIn(script', kind) <=>
          \E i \in 1..Len(script') : script'[i].kind = kind /\ script'[i].name = n
    BY <1>2, NamedMember
  <2> QED
    BY <1>3, <1>4, <2>1, <2>2
<1>6. ASSUME SetsComeLast(script)
      PROVE  SetsComeLast(script')
  <2> SUFFICES ASSUME NEW i \in 1..Len(script'), NEW j \in 1..Len(script'), i < j,
                      script'[i].kind = "set"
               PROVE  script'[j].kind # "unset"
    BY DEF SetsComeLast
  <2>1. /\ i + 1 \in 1..Len(script) /\ j + 1 \in 1..Len(script) /\ i + 1 < j + 1
        /\ script'[i] = script[i + 1] /\ script'[j] = script[j + 1]
    BY <1>4
  <2> QED
    BY <1>6, <2>1 DEF SetsComeLast
<1>7. ASSUME SetsComeLast(script), Head(script).kind = "set"
      PROVE  NamedIn(script', "unset") = {}
  <2>1. ASSUME NEW i \in 1..Len(script')
        PROVE  script'[i].kind # "unset"
    <3>1. /\ i + 1 \in 1..Len(script) /\ 1 \in 1..Len(script) /\ 1 < i + 1
          /\ script'[i] = script[i + 1]
      BY <1>4
    <3> QED
      BY <1>3, <1>7, <3>1 DEF SetsComeLast
  <2> QED
    BY <1>2, <2>1, NamedMember
<1> QED
  BY <1>5, <1>6, <1>7

LEMMA LosslessInit == Init => LosslessInv
  BY NothingNamed DEF Init, LosslessInv

LEMMA LosslessNext ==
  ASSUME Lossless, TypeInv, ScriptInv, LosslessInv, [Next]_vars
  PROVE  LosslessInv'
<1>1. ASSUME \/ \E d \in Scopes \cup {None} : Cd(d)
             \/ \E n \in Names, v \in UserVals \cup {Absent} : Assign(n, v)
             \/ \E s \in Scopes : EditSource(s) \/ ChangeHealth(s)
             \/ UNCHANGED vars
      PROVE  LosslessInv'
  BY <1>1 DEF Cd, Assign, EditSource, ChangeHealth, hook, history, vars, LosslessInv
<1>2. ASSUME Prompt \/ ActivateDies \/ EvalEnds
      PROVE  LosslessInv'
  BY <1>2 DEF Prompt, ActivateDies, EvalEnds, history, LosslessInv
<1>3. ASSUME ActivateAnswers
      PROVE  LosslessInv'
  <2>1. stage' = "evaluating" /\ UNCHANGED <<orphans, forgot>>
    BY <1>3 DEF ActivateAnswers, history
  <2>2. SetsComeLast(script')
    <3>1. CASE script' = ClearScript
      <4>1. Len(ClearScript) = 2 /\ ClearScript[1].kind = "clear"
            /\ ClearScript[2].kind = "nomarker"
        BY DEF ClearScript, Plain
      <4> QED
        BY <3>1, <4>1 DEF SetsComeLast
    <3>2. CASE script' = <<>>
      BY <3>2, NothingNamed
    <3>3. CASE cwd \in Scopes /\ script' = Transition(cwd)
      BY <3>3, TransitionNames DEF TypeInv
    <3> QED
      BY <1>3, <3>1, <3>2, <3>3, AnswerCases
  <2> QED
    BY <2>1, <2>2 DEF LosslessInv
<1>4. ASSUME Eval
      PROVE  LosslessInv'
  <2>1. NextLine
    BY <1>4 DEF Eval, EvalClear, EvalUnset, EvalSet, EvalSetFails, EvalMarker
  <2>2. ~forgot'
    BY <1>4 DEF Eval, EvalClear, EvalUnset, EvalSet, EvalSetFails, EvalMarker, LosslessInv
  <2> QED
    BY <2>1, <2>2, NamedInRest DEF NextLine, LosslessInv
<1>5. ASSUME Resource
      PROVE  LosslessInv'
  BY <1>5 DEF Resource, Lossless, LosslessInv
<1>6. ~Interrupt /\ ~ChildShell
  BY DEF Interrupt, ChildShell, Lossless
<1> QED
  BY <1>1, <1>2, <1>3, <1>4, <1>5, <1>6 DEF Next

-----------------------------------------------------------------------------

(* Without a script what is seen is what is there.                         *)
LEMMA SeenAtRest ==
  ASSUME TypeInv, script = <<>>
  PROVE  Seen = env /\ Layer = marker
  BY NothingNamed DEF Seen, Layer, TypeInv, TypeOK

(* The hook's own variables, with the arrays it kept.                      *)
LEMMA OwnIsKept ==
  ASSUME AmbientKept, LosslessInv
  PROVE  /\ \A n \in Names : own[n] = IF n \in DOMAIN saved THEN saved[n] ELSE env[n]
  BY DEF AmbientKept, LosslessInv

(* While a transition is evaluated, each line changes what is there and    *)
(* not what will have been there.                                          *)
LEMMA LineStutters ==
  ASSUME TypeInv, AmbientKept, LosslessInv, ScriptInv, AtomicInv,
         EvalClear \/ EvalUnset \/ EvalSet
  PROVE  UNCHANGED <<Seen, own, Layer>>
<1> DEFINE l == Head(script)
<1>1. /\ NextLine /\ script # <<>> /\ script' = Tail(script) /\ UNCHANGED own
      /\ l.kind \in {"clear", "unset", "set"} /\ l \in GoodLine
  BY HeadTyped DEF EvalClear, EvalUnset, EvalSet, NextLine
<1>2. \A kind, n : n \in NamedIn(script, kind) <=>
         n \in NamedIn(script', kind) \/ (l.kind = kind /\ l.name = n)
  BY <1>1, NamedInRest
<1>3. l.kind = "set" => NamedIn(script', "unset") = {}
  BY <1>1, NamedInRest DEF LosslessInv
<1>4. ASSUME EvalClear, NEW n \in Names
      PROVE  env'[n] = own[n]
  BY <1>4, OwnIsKept DEF EvalClear, Clear, Restored
<1>5. CASE EndsWithMarker(script)
  <2> PICK m : m = script[Len(script)].val
    OBVIOUS
  <2>1. UnderWay(m) /\ Shape(script, m)
    BY <1>1, <1>5 DEF AtomicInv, UnderWay
  <2>2. script' # <<>>
    BY <1>1, <1>5, TailEnds
  <2>3. /\ script'[Len(script')].val = m /\ Head(script').kind # "clear"
        /\ l.kind = "set" => l.val = m
    BY <1>1, <2>1, <2>2, RestOfScript
  <2>4. ASSUME NEW n \in Names
        PROVE  Seen'[n] = Seen[n]
    <3> DEFINE S == NamedIn(script, "set")
               U == NamedIn(script, "unset")
    <3>1. Seen[n] = IF n \in S THEN m ELSE IF n \in U THEN Absent
                    ELSE IF l.kind = "clear" THEN own[n] ELSE env[n]
      BY <1>1 DEF Seen
    <3>2. Seen'[n] = IF n \in S' THEN m ELSE IF n \in U' THEN Absent ELSE env'[n]
      BY <2>3 DEF Seen
    <3>3. /\ n \in S <=> n \in S' \/ (l.kind = "set" /\ l.name = n)
          /\ n \in U <=> n \in U' \/ (l.kind = "unset" /\ l.name = n)
          /\ l.kind = "set" => n \notin U'
      BY <1>2, <1>3
    <3> HIDE DEF S, U
    <3>4. CASE EvalClear
      BY <1>4, <3>1, <3>2, <3>3, <3>4 DEF EvalClear
    <3>5. CASE EvalUnset
      <4>1. l.kind = "unset" /\ env'[n] = IF l.name = n THEN Absent ELSE env[n]
        BY <3>5 DEF EvalUnset, TypeInv, TypeOK
      <4> QED
        BY <3>1, <3>2, <3>3, <4>1
    <3>6. CASE EvalSet
      <4>1. l.kind = "set" /\ env'[n] = IF l.name = n THEN m ELSE env[n]
        BY <2>3, <3>6 DEF EvalSet, TypeInv, TypeOK
      <4> QED
        BY <3>1, <3>2, <3>3, <4>1
    <3> QED
      BY <3>4, <3>5, <3>6
  <2>5. Seen' = Seen
    BY <2>4 DEF Seen
  <2>6. Layer' = Layer
    BY <1>1, <2>2, <2>3 DEF Layer
  <2> QED
    BY <1>1, <2>5, <2>6
<1>6. CASE ~EndsWithMarker(script)
  <2>1. script = ClearScript
    BY <1>1, <1>6 DEF ScriptInv, Plain
  <2>2. script' = <<Plain("nomarker")>> /\ EvalClear /\ l.kind = "clear"
    BY <1>1, <2>1 DEF ClearScript, Plain, EvalUnset, EvalSet
  <2>3. /\ Len(script) = 2 /\ script[1].kind = "clear" /\ script[2].kind = "nomarker"
        /\ script[2].val = None
        /\ Len(script') = 1 /\ script'[1].kind = "nomarker" /\ script'[1].val = None
        /\ Head(script') = script'[1] /\ script' # <<>>
    BY <2>1, <2>2 DEF ClearScript, Plain
  <2>4. ASSUME NEW kind \in {"set", "unset"}
        PROVE  NamedIn(script, kind) = {} /\ NamedIn(script', kind) = {}
    <3>1. script \in Seq(GoodLine) /\ script' \in Seq(GoodLine)
      BY <1>1, HeadTyped DEF TypeInv
    <3> QED
      BY <2>3, <3>1, NamedMember
  <2>5. ASSUME NEW n \in Names
        PROVE  Seen'[n] = Seen[n]
    <3>1. Seen[n] = own[n]
      BY <1>1, <2>2, <2>4 DEF Seen
    <3>2. Seen'[n] = env'[n]
      BY <2>3, <2>4 DEF Seen
    <3> QED
      BY <1>4, <2>2, <3>1, <3>2
  <2>6. Seen' = Seen
    BY <2>5 DEF Seen
  <2>7. Layer' = Layer
    BY <1>1, <2>3 DEF Layer
  <2> QED
    BY <1>1, <2>6, <2>7
<1> QED
  BY <1>5, <1>6

(* The last line: the marker becomes what the layer was already.           *)
LEMMA MarkerStutters ==
  ASSUME TypeInv, ScriptInv, AtomicInv, EvalMarker
  PROVE  UNCHANGED <<Seen, own, Layer>>
<1>1. /\ NextLine /\ script # <<>> /\ script' = Tail(script)
      /\ Head(script).kind \in {"marker", "nomarker"}
      /\ marker' = Head(script).val /\ UNCHANGED <<env, own>>
  BY DEF EvalMarker, NextLine
<1>2. script' = <<>>
  <2>1. CASE EndsWithMarker(script)
    <3> DEFINE m == script[Len(script)].val
    <3>1. Shape(script, m)
      BY <1>1, <2>1 DEF AtomicInv, UnderWay
    <3> HIDE DEF m
    <3> QED
      BY <1>1, <3>1, RestOfScript
  <2>2. CASE ~EndsWithMarker(script)
    <3>1. script = <<Plain("nomarker")>>
      BY <1>1, <2>2 DEF ScriptInv, ClearScript, Plain
    <3> QED
      BY <1>1, <3>1
  <2> QED
    BY <2>1, <2>2
<1>3. /\ script \in Seq(GoodLine) /\ Len(script) = 1 /\ Head(script) = script[1]
  <2>1. script \in Seq(GoodLine)
    BY DEF TypeInv
  <2>2. Len(script') = Len(script) - 1 /\ Head(script) = script[1] /\ Len(script) \in Nat
    BY <1>1, <2>1, HeadTailProperties, EmptySeq, LenProperties
  <2>3. Len(script') = 0
    BY <1>2
  <2> QED
    BY <2>1, <2>2, <2>3
<1>4. \A kind \in {"set", "unset"} : NamedIn(script, kind) = {}
  BY <1>1, <1>3, NamedMember
<1>5. Seen = env
  BY <1>1, <1>4 DEF Seen, TypeInv, TypeOK
<1>6. Seen' = env'
  BY <1>1, <1>2, NothingNamed DEF Seen, TypeInv, TypeOK
<1>7. Layer' = Layer
  BY <1>1, <1>2, <1>3 DEF Layer
<1> QED
  BY <1>1, <1>5, <1>6, <1>7

(* What activate prints is a step to another layer, to none, or nothing.   *)
LEMMA AnswerSimulated ==
  ASSUME TypeInv, AmbientKept, LosslessInv, ScriptInv, ActivateAnswers
  PROVE  [Promise!Next]_Promise!vars
<1>1. /\ stage = "activating" /\ script = <<>> /\ Seen = env /\ Layer = marker
      /\ UNCHANGED <<env, saved, marker, own>>
  BY SeenAtRest DEF ActivateAnswers, ScriptInv, history
<1>2. CASE script' = ClearScript
  <2>1. script' = ClearScript
    BY <1>2
  <2>2. /\ script' # <<>> /\ Len(script') = 2 /\ Head(script').kind = "clear"
        /\ script'[1].kind = "clear" /\ script'[2].kind = "nomarker"
        /\ script'[2].val = None
    BY <2>1 DEF ClearScript, Plain
  <2>3. \A kind \in {"set", "unset"} : NamedIn(script', kind) = {}
    <3>1. script' \in Seq(GoodLine)
      BY AnswerTyped
    <3> QED
      BY <2>2, <3>1, NamedMember
  <2>4. Seen' = own /\ Layer' = None
    BY <1>1, <2>2, <2>3 DEF Seen, Layer, TypeInv, TypeOK
  <2>5. CASE marker # None
    BY <1>1, <2>4, <2>5 DEF Promise!Next, Promise!Leave
  <2>6. CASE marker = None
    <3>1. DOMAIN saved = {}
      BY <1>1, <2>6 DEF ScriptInv, Quiet, NothingManaged
    <3>2. own = env
      BY <3>1, OwnIsKept DEF TypeInv, TypeOK
    <3> QED
      BY <1>1, <2>4, <2>6, <3>2 DEF Promise!vars
  <2> QED
    BY <2>5, <2>6
<1>3. CASE script' = <<>>
  <2>1. script' = <<>>
    BY <1>3
  <2>2. Seen' = env' /\ Layer' = marker'
    BY <1>1, <2>1, NothingNamed DEF Seen, Layer, TypeInv, TypeOK
  <2> QED
    BY <1>1, <2>2 DEF Promise!vars
<1>4. CASE cwd \in Scopes /\ ~SameMarker /\ script' = Transition(cwd)
  <2>1. cwd \in Scopes
    BY <1>4
  <2>2. script' = Transition(cwd)
    BY <1>4
  <2> DEFINE m == Mark(cwd)
  <2>3. /\ NamedIn(script', "set") = ElementsOf(SetNames[cwd])
        /\ NamedIn(script', "unset") = ElementsOf(UnsetNames[cwd])
        /\ script' # <<>> /\ script'[Len(script')].val = m
        /\ Head(script').kind = "clear"
    BY <2>1, <2>2, TransitionNames, TransitionShape DEF TypeInv
  <2>4. m \in Promise!Layers /\ m[1] = cwd /\ Layer # m
    BY <1>1, <1>4, <2>1, MarksAreMarkers
       DEF TypeInv, Markers, Promise!Layers, Mark, SameMarker
  <2> HIDE DEF m
  <2>5. Layer' = m
    BY <2>3 DEF Layer
  <2>6. ElementsOf(SetNames[cwd]) = Promise!SetBy(m)
        /\ ElementsOf(UnsetNames[cwd]) = Promise!UnsetBy(m)
    BY <2>4 DEF ElementsOf, Promise!SetBy, Promise!UnsetBy
  <2>7. Seen' = Promise!Under(m)
    BY <1>1, <2>3, <2>6 DEF Seen, Promise!Under
  <2> QED
    BY <1>1, <2>4, <2>5, <2>7 DEF Promise!Next, Promise!Enter
<1> QED
  BY <1>2, <1>3, <1>4, AnswerCases

(* What is managed at a prompt is what the layer covers.                   *)
LEMMA AssignSimulated ==
  ASSUME TypeInv, LosslessInv, ScriptInv, AtomicInv,
         NEW n \in Names, NEW v \in UserVals \cup {Absent}, Assign(n, v)
  PROVE  Promise!Next
<1>1. /\ script = <<>> /\ script' = <<>> /\ Quiet /\ ~forgot
      /\ UNCHANGED marker /\ Seen = env /\ Layer = marker
  BY SeenAtRest DEF Assign, hook, ScriptInv, LosslessInv, Quiet
<1>2. env' = [env EXCEPT ![n] = v] /\ DOMAIN env' = Names
  BY DEF Assign, TypeInv, TypeOK
<1>3. Seen' = env' /\ Layer' = marker'
  BY <1>1, <1>2, NothingNamed DEF Seen, Layer, TypeInv, TypeOK
<1>4. DOMAIN saved = Promise!Covered
  <2>1. CASE marker = None
    BY <1>1, <2>1 DEF ScriptInv, NothingManaged, Promise!Covered
  <2>2. CASE marker # None
    BY <1>1, <2>2 DEF AtomicInv, ManagedBy, ElementsOf, Promise!Covered, Promise!SetBy,
       Promise!UnsetBy
  <2> QED
    BY <2>1, <2>2
<1>5. own' = IF n \in Promise!Covered THEN own ELSE [own EXCEPT ![n] = v]
  BY <1>4 DEF Assign
<1>6. Promise!Assign(n, v)
  BY <1>1, <1>2, <1>3, <1>5 DEF Promise!Assign
<1> QED
  BY <1>6 DEF Promise!Next

LEMMA LayerSimulated ==
  ASSUME Lossless, TypeInv, AmbientKept, ScriptInv, AtomicInv, LosslessInv, [Next]_vars
  PROVE  [Promise!Next]_Promise!vars
<1>1. ASSUME UNCHANGED <<env, script, marker, own>>
      PROVE  UNCHANGED Promise!vars
  BY <1>1 DEF Promise!vars, Seen, Layer
<1>2. ASSUME \/ \E d \in Scopes \cup {None} : Cd(d)
             \/ \E s \in Scopes : EditSource(s) \/ ChangeHealth(s)
             \/ Prompt \/ ActivateDies \/ EvalEnds \/ Resource
             \/ UNCHANGED vars
      PROVE  UNCHANGED <<env, script, marker, own>>
  BY <1>2 DEF Cd, EditSource, ChangeHealth, Prompt, ActivateDies, EvalEnds, Resource, hook,
     history, vars
<1>3. ASSUME EvalClear \/ EvalUnset \/ EvalSet \/ EvalMarker
      PROVE  UNCHANGED Promise!vars
  BY <1>3, LineStutters, MarkerStutters DEF Promise!vars
<1>4. ~Interrupt /\ ~ChildShell /\ ~EvalSetFails
  BY DEF Interrupt, ChildShell, EvalSetFails, Lossless
<1> QED
  BY <1>1, <1>2, <1>3, <1>4, AnswerSimulated, AssignSimulated DEF Next, Eval

(* Where no line of a transition fails or is cut off, no child inherits    *)
(* half of it and sourcing the hook again keeps its arrays (zsh), the user *)
(* sees an environment with one layer at most, exchanged whole: dying      *)
(* activates, edits and changes of directory in the middle of it included. *)
THEOREM HookKeepsItsPromise ==
  ASSUME Lossless
  PROVE  Spec => ImplementsLayer
<1> DEFINE I == TypeInv /\ AmbientKept /\ ScriptInv /\ AtomicInv /\ LosslessInv
<1>1. Init => I
  BY TypeInit, AmbientInit, ScriptInit, AtomicInit, LosslessInit
<1>2. I /\ [Next]_vars => I'
  <2>1. "decode" \notin Hazards
    BY DEF Lossless
  <2> QED
    BY <2>1, TypeNext, AmbientNext, ScriptNext, AtomicNext, LosslessNext
<1>3. Init => Promise!Init
  <2> SUFFICES ASSUME Init PROVE Promise!Init
    OBVIOUS
  <2>1. Seen = env /\ Layer = None
    BY TypeInit, SeenAtRest DEF Init
  <2> QED
    BY <2>1 DEF Init, Promise!Init
<1>4. I /\ [Next]_vars => [Promise!Next]_Promise!vars
  BY LayerSimulated
<1> QED
  BY <1>1, <1>2, <1>3, <1>4, PTL DEF Spec, ImplementsLayer, Promise!Spec
=============================================================================
