-------------------------- MODULE ScopeResolution ---------------------------
(***************************************************************************)
(* Which scope a directory belongs to (internal/scope/scope.go and the     *)
(* reading half of gitlocal.go).                                           *)
(*                                                                         *)
(* There are three directory trees: the main worktree of a repository, a   *)
(* linked worktree of it, and one outside Git.  All have the same relative *)
(* directories, given as the sequence of the names that lead there.        *)
(***************************************************************************)
EXTENDS Naturals, FiniteSets, SequencesExt

CONSTANTS
    Dirs,         \* the relative directories, the root <<>> among them
    None          \* no config, no registry file, no place

ASSUME DirsAreSequences == Dirs \subseteq Seq(STRING)

VARIABLES
    scope,        \* scope[w][d]: which scope files are there, the config's mode
    registry,     \* $GIT_COMMON_DIR/dotenvsec/registry.yaml
    home          \* where the main worktree is now

Places == {"main", "linked", "plain"}
GitPlaces == {"main", "linked"}
Modes == {"repository", "local", "git-local"}

RelativeContains(parent, child) == IsPrefix(parent, child)
Above == [d \in Dirs |-> {p \in Dirs : RelativeContains(p, d)}]

Nearest(S) == {d \in S : \A e \in S : Len(e) <= Len(d)}

(* The nearest .dotenv-sec.yaml above d: none, or one.                     *)
NearestConfig(w, d) ==
    Nearest({p \in Above[d] : scope[w][p].mode # None})

Found(w, d) == [kind |-> "found", place |-> w, dir |-> d]
NotConfigured == [kind |-> "absent", place |-> None, dir |-> <<>>]
Error == [kind |-> "error", place |-> None, dir |-> <<>>]

InheritedAnyMode(p) ==
    IF scope["main"][p].mode = None THEN NotConfigured ELSE Found("main", p)

(* The config of the selected scope in the owner.  The error of a config   *)
(* that is not there wraps os.ErrNotExist, which is also how the caller is *)
(* told that nothing is inherited.                                         *)
InheritedConfig(p) ==
    CASE scope["main"][p].mode = None -> NotConfigured
      [] scope["main"][p].mode = "git-local" -> Found("main", p)
      [] OTHER -> Error

ResolveInheritedStrictly(w, d) ==
    IF w # "linked" \/ registry = None THEN NotConfigured
    ELSE LET selected == Nearest(registry.scopes \cap Above[d])
         IN IF registry.owner # home \/ selected = {} THEN Error
            ELSE InheritedConfig(CHOOSE p \in selected : TRUE)

ResolveInherited(w, d) ==
    IF w # "linked" \/ registry = None THEN NotConfigured
    ELSE IF registry.owner # home THEN Error
    ELSE LET selected == Nearest(registry.scopes \cap Above[d])
         IN IF selected = {} THEN NotConfigured
            ELSE InheritedConfig(CHOOSE p \in selected : TRUE)

GitLocalScopeRegistered(p) ==
    registry # None /\ registry.owner = home /\ p \in registry.scopes

IdentityForFilesystemScope(w, p) ==
    IF scope[w][p].mode = "git-local" /\ ~(w = "main" /\ GitLocalScopeRegistered(p))
    THEN Error ELSE Found(w, p)

ResolveFilesystemLocal(d) ==
    LET nearest == NearestConfig("plain", d)
    IN IF nearest = {} THEN NotConfigured
       ELSE LET p == CHOOSE p \in nearest : TRUE
            IN IF scope["plain"][p].mode = "local" THEN Found("plain", p) ELSE Error

PhysicalWinsDeeper(p, inherited) ==
    inherited.kind = "absent" \/ Len(p) > Len(inherited.dir)
PhysicalWins(p, inherited) ==
    inherited.kind = "absent" \/ Len(p) >= Len(inherited.dir)

Resolve(w, d) ==
    LET physical == NearestConfig(w, d)
        inherited == ResolveInherited(w, d)
    IN CASE w = "plain" -> ResolveFilesystemLocal(d)
         [] w # "plain" /\ inherited.kind = "error" -> Error
         [] w # "plain" /\ inherited.kind # "error" ->
              LET nearer == {p \in physical : PhysicalWins(p, inherited)}
              IN IF nearer = {} THEN inherited
                 ELSE IdentityForFilesystemScope(w, CHOOSE p \in nearer : TRUE)
=============================================================================
