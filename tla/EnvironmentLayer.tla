-------------------------- MODULE EnvironmentLayer --------------------------
(***************************************************************************)
(* What the shell hook promises the user, without saying how it keeps it:  *)
(* the variables are the user's own with at most one layer over them, all  *)
(* of one version of one scope's source.  The layer is exchanged whole,    *)
(* and only for another one; whatever it covered comes back when it goes.  *)
(* In between the user assigns as in any shell: to a variable under the    *)
(* layer until the layer goes, to any other one for good.                  *)
(***************************************************************************)
EXTENDS Naturals, Sequences

CONSTANTS
    Names,      \* environment variables
    UserVals,   \* values the user gives them
    Scopes,     \* directories that carry a scope
    SetNames,   \* scope -> the variables it sets
    UnsetNames, \* scope -> the variables it unsets
    MaxVersion, \* versions of a scope's source
    Absent,     \* an unset variable
    None        \* no layer

VARIABLES
    env,    \* what the user's commands see
    own,    \* what they would see without any layer
    layer   \* the scope and version that lies over it

vars == <<env, own, layer>>

Layers == Scopes \X (0..MaxVersion)

SetBy(m) == {SetNames[m[1]][i] : i \in DOMAIN SetNames[m[1]]}
UnsetBy(m) == {UnsetNames[m[1]][i] : i \in DOMAIN UnsetNames[m[1]]}
Covered == IF layer = None THEN {} ELSE SetBy(layer) \cup UnsetBy(layer)

(* A layer over the user's own variables.                                  *)
Under(m) == [n \in Names |-> IF n \in SetBy(m) THEN m
                             ELSE IF n \in UnsetBy(m) THEN Absent
                             ELSE own[n]]

Init ==
    /\ env \in [Names -> UserVals \cup {Absent}]
    /\ own = env
    /\ layer = None

Assign(n, v) ==
    /\ env' = [env EXCEPT ![n] = v]
    /\ own' = IF n \in Covered THEN own ELSE [own EXCEPT ![n] = v]
    /\ UNCHANGED layer

Enter(m) ==
    /\ layer # m
    /\ layer' = m
    /\ env' = Under(m)
    /\ UNCHANGED own

Leave ==
    /\ layer # None
    /\ layer' = None
    /\ env' = own
    /\ UNCHANGED own

Next ==
    \/ \E n \in Names, v \in UserVals \cup {Absent} : Assign(n, v)
    \/ \E m \in Layers : Enter(m)
    \/ Leave

Spec == Init /\ [][Next]_vars
=============================================================================
