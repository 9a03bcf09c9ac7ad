# dotenvsec in TLA+

dotenvsec loads the environment of the nearest *scope* (a directory with a
`.dotenv-sec.yaml`, a recipient manifest, generated SOPS rules and an encrypted
source) into an interactive shell, after checking that the user approved the
scope's policy on this machine. These modules model the parts of it that run
concurrently or that must survive failures: the shell hook, the activation
that the hook starts before every prompt, the optional cache agent with its
socket, the provider's process, the user's settings and identity files that
every process rewrites, the commands that create scopes and rewrite their
sources, and the resolution of a directory to its scope.

## 1. The system

| Component | State it keeps | Operations | Talks to |
|---|---|---|---|
| Shell hook (`internal/environment/shell.go`) | the shell's variables, `_DOTENV_SEC_MANAGED/_AMBIENT/_PRESENT`, `DOTENV_SEC_SCOPE`, `_DOTENV_SEC_BUSY` | refresh, clear, remember, set, unset | starts `activate` before each prompt and evaluates its output |
| Activation (`internal/cli/root.go` `activate`, `internal/app/load.go`) | none between runs; the shell's marker comes in, a script goes out | `Prepare`, `Load`, `Marker`, `Transition` | scope files, git, settings, agent, provider |
| Approval (`internal/app/approval.go`) | `Approvals`, `DangerousApprovals` in the settings | `allow` | settings file |
| Cache agent (`internal/agent/agent.go`) | entries, a running byte total, the locked flag, under one mutex; the path of its socket | serve, get, put, flush, lock; expiry and eviction inside them | a Unix socket, one request per connection |
| Settings file (`internal/config/paths.go`, `internal/app/provider_registry.go`) | provider entries with tool bindings, approvals, identity path, editor | load, save by rename; refresh of the bundled provider at every invocation | every command |
| Provider execution (`internal/provider`, `cmd/dotenvsec-provider-sops`, `pkg/provider`) | none | verify checksum, run once with a time limit, validate the answer | SOPS, age plugins |
| Trust hash (`internal/trust`) | none | hash of policy, manifest and provider checksum | settings (approvals) |
| Scope resolution, Git-local registry (`internal/scope`) | a registry file and `info/exclude` in the common Git directory | resolve, register, unregister, repair | git |
| init, migrate, edit, rekey (`internal/cli/lifecycle.go`) | the four scope files | create all, rewrite one | SOPS, registry, settings |
| YubiKey identities (`internal/identity`) | one consolidated identity file | enumerate, merge, replace | plugin, settings |
| Strict YAML, dangerous names, recipients, redaction | none | parse, validate, format | |

What is hard here:

* **No locks on files.** `activate` reads the configuration, the manifest, the
  settings and the source one after the other, up to three times, and the
  provider reads the source again, while the user edits them, git checks out
  and `allow` runs elsewhere. The settings, the identity file, the Git-local
  registry, `info/exclude` and the source itself are loaded, changed and
  renamed over whole by any number of terminals; an edit holds what it opened
  for as long as the editor is open.
* **The shell is the last link.** A script is evaluated line by line in a
  shell the user also types into, can interrupt, can source the hook in again,
  and starts children from.
* **The agent answers clients that may be gone.** A client waits a second; the
  agent carries the request out all the same.
* **Approval binds three things**, policy, manifest and provider executable,
  that all change independently.
* **Other processes keep this one waiting**: an agent blocked by a client that
  does not read, a provider that hangs, a terminal that is suspended.
* **Commands of several steps**: init creates four files and two shared
  entries, and may fail or be killed after each.

What makes each part correct:

* hook: the user's own values come back; nothing of a scope survives it; a
  transition is all or nothing; the shell ends up where its directory says;
* activation: only what was approved together is loaded; the marker does not
  claim more than was loaded; failures of a load remove what was there;
* agent: a lossy cache with absolute expiry, within its bounds, empty once
  locked;
* settings: nothing the user was told is done disappears; nothing runs that
  was not reviewed; the bundled provider follows upgrades;
* scopes: created whole or not at all, private ones never visible to git, the
  registry as it was reported, and every directory its nearest scope;
* the source: the text last saved for the recipients last rekeyed to, which
  always include one of the user's own; no identity lost;
* the agent's socket and the provider's process: a call gets its own answer, a
  prompt always comes back, a lock takes effect at the agent it reached.

`PROJECT.json` lists the hazards behind these with their source lines.

## 2. The modules

| Module | Models | Notes |
|---|---|---|
| `LossyCache` | what the agent promises, abstractly | a store that may forget, never serves the wrong or an expired value, and is empty once locked |
| `AgentCache` | `agent.go`, with the clients' protocol of `app.Load` | implements `LossyCache` (refinement mapping: drop sizes, mutex, connections) |
| `AgentCacheProofs` | theorems about `AgentCache` | |
| `AgentCacheRefinementProofs` | that `AgentCache` implements `LossyCache` | extends `AgentCacheProofs` |
| `EnvironmentLayer` | what the hook promises the user, abstractly | the user's own variables with at most one scope's layer over them, exchanged whole |
| `ShellHook` | `shell.go`: one interactive shell, bash or zsh | `activate` is one step here; implements `EnvironmentLayer` where scripts run to their end |
| `ShellHookProofs` | theorems about `ShellHook` | |
| `Activation` | `activate`, `Prepare`, `Load`, `allow`, for one scope and several shells | the agent is a lossy store here, as `AgentCache` shows it may be; the shell is its marker and what it received |
| `ActivationProofs` | theorems about `Activation` | |
| `SettingsFile` | every command that rewrites the settings | one provider id, one scope |
| `SettingsFileProofs` | theorems about `SettingsFile` | |
| `ScopeResolution` | `Resolve` over the main worktree, a linked one and a directory outside Git | operators on its state; no actions |
| `GitLocalRegistry` | `init`, `scope git-local register/unregister/repair-owner` | extends `ScopeResolution` with the commands that change what it reads |
| `GitLocalRegistryProofs` | theorems about `GitLocalRegistry` and `Resolve` | |
| `EncryptedSource` | loads, `edit`, `rekey` and the identity file | one scope; SOPS is what it may decrypt with |
| `EncryptedSourceProofs` | theorems about `EncryptedSource` | |
| `AgentSocket` | `Serve`, `Client` and the handlers of `agent.go` around the socket | component: actions without a specification of its own |
| `ProviderRun` | `provider.Run` and the process it starts | component |
| `PromptLoad` | `Load` between the two, and `agent lock` | composes `AgentSocket` and `ProviderRun` |
| `PromptLoadProofs` | theorems about `PromptLoad` | |
| `MC...` | the small instances TLC checks | |

### AgentCache

`entries`, `bytes`, `locked` are the fields of `cache`. `mutex`, `phase` and
`now` are the handler that holds the mutex: where it stands and the time
`expire()` read. `conn` holds the request of each connection, `client` each
process. A handler is several steps because its duration matters: time passes,
clients give up and new requests arrive between `Acquire`, one `ExpireOne` per
expired entry, and either a reply or, for a put, `BeginPut`, one `EvictOldest`
per turn of the loop, and `InsertPut`. Ties in "oldest" and Go's map order are
nondeterministic. A client that gives up (`GiveUp`) leaves its request with
the agent. `doubled` is a history variable: the eviction loop took the entry
whose bytes the put had subtracted already. Writing the reply and releasing
the mutex are one step here; `AgentSocket` takes them apart.

### ShellHook

`env` is the shell's variables; `saved` is `_PRESENT` and `_AMBIENT` over the
names in `_MANAGED`; `script` is what `eval` has not run yet. A secret is
written as the `<<scope, version>>` of the source it came from. `Hazards`
switches what may go wrong (see the module's header). `own` says what each
variable would hold had the hook never been installed: an assignment the user
makes to a managed variable does not change it, because the hook's contract is
to put back what was there before. `orphans` are names the hook managed and
was made to forget, by a bash hook sourced again or by a child shell; the
properties say what they say of the other names. bash and zsh differ where the
hook is sourced again: bash's `declare ... =()` empties the arrays, zsh's
`typeset` keeps them. `health` is how far activate gets in a scope: `Prepare`
refuses, only `Load` does (no provider, no key), or all is well. The marker is
compared between the two (root.go:177-181), so a shell keeps the values of a
scope that no longer decrypts for as long as the marker is equal;
`LeavingClears` says so. Restoring exports a variable even if it was not exported
before; the model does not tell exported from unexported variables.

`ImplementsLayer` maps `env` to `Seen`, what the lines still to be evaluated
lead to, and the layer to the marker they end with: the step of
`EnvironmentLayer` that exchanges the layer is `activate` printing its script,
and the evaluation of each line is a stutter. A line that fails, Ctrl-C, a child
shell and a bash hook sourced again leave half a script or forget the arrays,
and then there is no such layer. `AmbientKept` holds there too, of the names
that are not `orphans`.

### Activation

`proc[s]` is the `activate` process of shell `s`: `attempt` tells the Prepare
it is in (the first, Load's own, or the third one for the marker), `read` what
it has read so far, one file per step. A marker and a cache key are the triple
of configuration, manifest and source version; the provider's checksum, the
identity path and the scope's identity, which they also contain, do not change
here. `disk.intact` stands for all the checks that can only refuse: Git
tracking, permissions, `.sops.yaml` drift, provider checksum. `bundle` is the
installed provider: absent, sound, or refused, which stands for whatever makes
`RefreshBundledProvider` return an error but the settings themselves
(`DiscoverBundled`, `SaveSettings`). `Refreshes` is when `PersistentPreRunE`
lets a command go on; otherwise `PreRun` ends with nothing printed. `OthersPut` is
any other process that runs `Load`. Sources only move forward: a revert to an
earlier ciphertext, at which a marker written before compares equal again, is
left out. `again` is a history variable: the shells whose marker came from the
third Prepare.

### SettingsFile

A process is `discover`, `refresh`, `refreshSave` (every invocation) followed
for commands by `load` and `save`; its `copy` is what it loaded. `retool` also
stands for the bindings made by `init` and `migrate`, which share `bindTool`;
`enrol` for the settings saved by a load that met a new YubiKey. History:
`given` (what the user asked for and was told is done), `reviewed` (hashes
ever approved), `stale` (processes whose copy another save overtook) and
`overlapped` (one of those has saved).

A `provider revoke sops` is undone by the next invocation, which registers the
bundled provider again. That is what docs/getting-started.md says ("creates or
refreshes the local `sops` provider entry automatically"), so it is modelled
and not a finding.

### ScopeResolution and GitLocalRegistry

`scope[w][d]` says which of the scope files are in directory `d` of worktree
`w`, and the mode its config declares; directories are sequences of names,
relative to the worktree. `registry` is `registry.yaml` with the worktree it
calls its owner, `home` where the main worktree is now (`MoveMain` counts it
up), `exclude` the directories with lines in `info/exclude`. `Resolve` and its
helpers have the functions' names and case distinctions, the errors that end
in "not configured" included.

A command is `proc[p]`. init goes `check`, `ignore`/`ignoreSave`
(`EnsureLocalIgnored`, reading and renaming apart), `mkdir`, `install` (one
file per step), `load`/`save` (`RegisterGitLocal`); register shares the second
and the last pair, unregister and repair-owner have the last one only. A
failing step takes back what init installed, one by one as `removeInitFiles`
does; a kill takes back nothing. `os.Mkdir` of `.dotenv-sec` is what keeps two
inits in one directory apart: the second one fails there and takes nothing
back. `writeTemp` does not remove a file it could not finish; the one of the
first file keeps `.dotenv-sec` from being removed, with the same result as a
kill, so `Killed` stands for it too. The binding of SOPS that init makes first
is in `SettingsFile`. History: `told` (what the commands reported), `ours`
(private scopes init made), `torn`, `stale` and `overlapped`.

### EncryptedSource

A recipient and its identity are one value; `source` is a text and the
recipients it is encrypted for. A command reads the manifest and the settings
at `Start` (`Prepare`), then `Enumerate` (the plugin), `ReadIdentities`,
`WriteIdentities` if anything is new, `MakeTemporary`, `NameIdentities` if the
settings must change; a manifest without a YubiKey skips all of it. Then a load
decrypts once; an edit holds what it opened until `SaveEdit` or `QuitEditor`;
a rekey decrypts, tries its replacement (`Verify`) and renames it (`Replace`).
What SOPS writes on saving an edit is external: the recipients the file had
when it was opened. `overlapped` names files over which an overtaken copy was
written.

### AgentSocket, ProviderRun, PromptLoad

`path` is whose socket the path names. An agent goes `off`, `dial`, `remove`,
`bind`, `bound`, `listening`, `serving`, `failed`, `closing`, `gone`. `DialOther`
may go to `remove` however alive the other agent is: Serve takes any error, the
100 ms timeout included, for a dead socket (agent.go:75). `net.Listen` is two
steps, `Bind` and `Listen`, because a dial in between is refused. At its end an
agent removes the path twice, as its deferred calls do: `RemoveOwn`
(`os.Remove`) and `CloseListener`, which unlinks the path again; each takes
whatever is there by then. Nothing is assumed of how many agents serve. A request in
`requests` is being handled; `writing` is the reply that does not fit the
socket's buffer and holds the mutex. The client's deadline also closes its
connection, which ends that write; a client that is suspended (Ctrl-Z) cannot
close anything. `run[t]` is `provider.Run`: `reading` until end of file or one
byte too many, then `waiting`; `kept` says that a descendant of the provider
holds its standard output. The timeout kills the provider and not the descendant.
The YubiKey plugin that a load may run before the provider is left out here (it
is in `EncryptedSource`), and what becomes of a provider after Ctrl-C is not
followed.

## 3. The runs

Passing:

* **agent_cache**: two clients, two connections, three keys for two entries,
  environments of one and two units for three units of memory. Enough for a put
  to evict another key's entry, its own, or both; for a request to wait while
  another is handled; and for an entry to expire. `MaxTime = 1` lets one tick
  fall anywhere. The total may be pushed below what is held without end, so new
  puts stop when it is under `-MaxDrift`.
* **hook**: bash, every hazard, two scopes sharing `y`, the second one also
  unsetting `z`. `MaxVersion = 0`: the safety properties do not need an edited source;
  `hook_live` has one.
* **hook_live**: zsh, where activate may die and the hook be sourced again,
  under fairness; two versions of each source. Here the whole hook is checked
  against `EnvironmentLayer` too.
* **activation**: one shell, two configurations with different names, two
  versions of the source, each with the names of one of them, one cache slot so
  that entries compete, one kill or provider failure, and every state of the
  installed provider. One shell is enough for the races: the other processes are
  `OthersPut` and the edits. With the second configuration approved before the
  source follows, a version may change between the hash and the decryption; with
  the first one approved again, a wrong cache key would give a shell that has the
  second version the first one back.
* **settings**: two terminals, two upgrades, two typed commands besides the
  prompts, one kill. Two processes are the least that overlap; with two commands
  one can undo what another did.

* **registry**: two terminals, a root and one directory in it, each of three
  modes; two commands and one event (an edit by hand, a move of the repository,
  a kill or a failure). Every initial state with at most one scope.
  Two commands are the least that overlap; two nested directories the least
  that compete, in the same and in different worktrees. The edit can remove a
  config whose scope is registered, and the move makes the owner wrong.
* **secrets**: two terminals, two YubiKeys, an age identity and a colleague;
  three manifests (both YubiKeys; one and the age identity; the colleague
  only). Two edits or rekeys, one event (a changed manifest, a key plugged or
  removed, a failure, a kill; two where `secrets_revoked` looks for its
  violation). Loads are unbounded, so that the enrolment can be lost in a race
  and made again.
* **prompt**: two terminals and two agents, the first of them serving with the
  values cached or a dead agent's socket; three events, each a command typed
  (`agent serve` is one) or a fault (a suspended terminal, a descendant, Ctrl-C,
  an agent that ends). Two terminals, so that one can block the other; two agents
  are the least that replace each other.

Violations, each of a sentence the repository states:

* **agent_bytes** (`ByteCap`): a put over an existing key whose entry is then
  evicted subtracts its bytes twice; afterwards more than `maxBytes` is held.
  `ByteCapUnlessDoubled` in agent_cache shows this is the only way.
* **settings_lost** (`BindingSurvives`): an upgrade, a `provider retool` in one
  terminal and a prompt in another; the prompt saves its older copy.
  `KeptUnlessOverlapped` shows that only overtaken copies lose anything.
* **registry_missing** (`NearestScopeWins`): a registered scope's config goes
  away in the main worktree; the linked worktree gets a scope farther up.
  `NearestScopeWinsUnlessMissing` shows it is the only way.
* **secrets_revoked** (`RevokedStaysOut`): an edit opened before a rekey is
  saved after it; the revoked recipient is back. `SourceAsTold` shows that only
  overlapping writes do this.

Known limits of the code that no run shows as a violation. The models have the
steps of all but the last two; the passing properties except the states they
lead to, as the table below says:

* Ctrl-C during a refresh leaves `_DOTENV_SEC_BUSY` at 1 (shell.go:85-90); the
  shell never refreshes again, although docs/getting-started.md:299 says that
  entering an unconfigured directory clears the managed values. `hook_live` runs
  without the hazard `interrupt`.
* A value that does not decode clears the shell, and `eval` runs the rest of
  the script all the same, marker included (shell.go:73): not the "atomic
  environment transition" of README.md:7. `hook_live` runs without `decode`.
* A bash hook sourced again inside a scope (shell.go:81), and a child shell
  (shell.go:88), do not know what is managed: on leaving the scope the marker goes
  and its secrets stay, contrary to docs/threat-model.md:35.
* An error of the provider's refresh (root.go:31: a refused executable, settings
  that do not load or cannot be saved) ends `activate` before it prints, and the
  shell keeps what it had, although README.md:18 says "failed transitions remove
  previously managed secrets". `FailsClosed` covers the shells whose commands get
  past that point, and only them.
* An agent that starts and whose test dial fails removes the socket of an agent
  that serves (agent.go:75-79), and so may an agent that ends (87-88). Two serve
  then; `agent lock` reaches one, and the other keeps what it has decrypted
  (root.go:381 says "Flush and reject caching until restart").
* A scope that no longer decrypts (a key unplugged) keeps its values while its
  source and policy are unchanged: the marker is equal, and nothing is loaded.
* The third Prepare (root.go:191) can see a newer source than the one the
  variables came from, and the marker keeps the shell from loading it
  (docs/scope-modes.md:79). `MarkerNotAheadUnlessAgain` shows it is the only way.
* Ctrl-C leaves a temporary identity file (docs/getting-started.md:93), and so
  does a write that fails half-way (yubikey.go:238). `leftover` records it.
* init that cannot finish its first file leaves `.dotenv-sec` behind, and the
  next init refuses to overwrite it. In `AllOrNone` this is `torn`.
* After an enrolment the cache key is built again without the mode
  (identities.go:45); the put goes under a key no get asks for, which costs
  one more decryption.
* A name that is allowed as dangerous may not also be declared: one set of seen
  names serves both lists (yaml.go:280).

What the exceptions in the passing properties stand for, and where the property
without them is checked:

| Exception | In | Stands for | What is shown without it |
|---|---|---|---|
| `orphans`, `forgot` | `AmbientKept`, `AtomicTransition` | the hook's arrays lost | does not hold; `NothingIsOrphaned` proves where there are none |
| `busy` | `NoMarkerNothingManaged`, `AtomicTransition` | a refresh cut off by Ctrl-C | does not hold; `PromptsAreWhole` proves where there is none |
| `doubled` | `ByteCapUnlessDoubled` | bytes subtracted twice | violated: agent_bytes |
| `again` | `MarkerNotAheadUnlessAgain`, `Settles` | the third Prepare | does not hold |
| `Refreshes` | `FailsClosed` | a command that ends in its PreRun | does not hold |
| `overlapped` | `KeptUnlessOverlapped` | settings saved over newer ones | violated for tool bindings: settings_lost; approvals, registrations and the editor are in no run |
| `overlapped` | `SourceAsTold` | the source written over a newer one | violated for recipients: secrets_revoked; an edit lost to a rekey is in no run |
| `overlapped` | `IdentitiesKept` | an identity lost to a concurrent merge | does not hold; `Enrols` shows it is enrolled again |
| `overlapped` | `RegisteredAsTold`, `PrivateIsIgnored` | a registration, or lines of info/exclude, lost to a concurrent command | does not hold |
| `torn`, `leftover` | `AllOrNone`, `TemporaryDeletedUnlessKilled` | a kill between two steps, a file that cannot be finished | does not hold |
| missing | `NearestScopeWinsUnlessMissing` | a registered config that is gone | violated: registry_missing |
| `suspended`, `kept` | `PromptReturns`, `LockTakesEffect` | Ctrl-Z; a descendant that keeps the output open | does not hold: nothing ends such a wait |

What one of these lines describes is therefore not found by the passing property
that it names.

Bounds are constants with names (`MaxTime`, `MaxDrift`, `MaxVersion`,
`MaxSource`, `MaxDeaths`, `MaxUpgrades`, `MaxCommands`, `MaxKills`,
`MaxEvents`); they cap counters the environment drives and no loop
of the code. Where all of them are used up and every process is idle the
registry and prompt runs have nothing left to do, so they do not check for
deadlock.

### Fairness

* `ShellHook`: a started refresh runs to its end, a prompt is due again after
  the user's commands, and `activate`, started at every prompt, does not die
  every time (`SF` on its answer). `Interrupt`, `Resource`, `Cd` and edits have
  none.
* `Activation`: each shell comes to a prompt again and a process that can run
  runs. Kills and provider failures are bounded instead of fair.
* `SettingsFile`: the same.
* `EncryptedSource`: in every terminal a load that neither marker nor cache
  answers comes again, processes run, and the user leaves the editor some time.
* `PromptLoad`: terminals that are not suspended run, deadlines and timeouts
  fire, handlers and agents that were started run. `SF` on the handler of a lock: Go's `sync.Mutex` passes
  itself on to a waiter of more than a millisecond, so nobody starves. There is
  none for the user, for `fg`, for the provider and its descendants, or for
  starting an agent.
* `AgentCache` and `GitLocalRegistry` are checked for safety only: their
  commands end by themselves.

Liveness properties have the form "if the world stays like this from some point
on, the shell ends up like that": nothing is promised while files keep changing.

## 4. The proofs

All by TLAPS, for every value of the constants that satisfies the modules'
assumptions: sizes and bounds are natural numbers, `None` is none of the values
it is compared with, `Own` is no version, a secret is none of the user's own
values (`SecretsAreFresh`: the properties tell whose a value is by looking at
it), and what a scope sets and unsets are lists of names. Every safety property
of a passing run, every action property and both refinements are proved.

* **AgentCacheProofs**. `TypeInv` is `TypeOK` with three facts about requests
  in flight: a connection's handler knows its key, a put carries a value, and
  a handler in the eviction loop is a put's. From it `TypeCorrect`.
  `LockHolds`: the only step that inserts is `InsertPut`, whose put was
  accepted, so unlocked, under the same mutex; `TypeInv` carries
  "a handler that evicts found the agent unlocked" to the insertion. `CapHolds` needs the
  domain to be finite, for `Cardinality`: an insertion is guarded by
  `~MustEvict`, which says there is room or the cache is empty.
  `NeverOverstated` and `BytesBounded` are one induction, `CountInv`. What is
  held is counted as a set of pairs, one per byte of each entry, so that adding
  or removing an entry is a fact about the cardinality of disjoint sets and no
  induction over a sum is needed. In the middle of a put the counter is short of
  one entry, which `InHand` names: the one `BeginPut` subtracted and which is
  still in the map until `InsertPut` overwrites it. Taking that entry out is the
  step that makes `doubled` true; it lowers the counter twice, so the counter
  still never overstates.
* **AgentCacheRefinementProofs**. `AgentKeepsItsPromise`: the steps of
  `AgentCache` one by one. `Acquire` and `BeginPut` stutter, expiry and eviction
  are `Forget`, `InsertPut` is the put, a get's answer is `AnswerFound` or a
  client's move. `ServeInv` says what an answer needs: a request that has a
  waiting client is the one that client asked, and it asked no later than the
  handler read the clock (`since <= now`), so an entry that survived `expire()`
  had not expired when it was asked for.
* **ShellHookProofs**. `TypeInv` strengthens the type of the script to lines
  of the right shape. `AmbientKept` is inductive together with it: no line
  touches a name it has not remembered. It says nothing of `orphans`;
  `NothingIsOrphaned` is the same where the hook keeps its arrays
  (`NeverForgets`: no child shell, no bash hook sourced again) and there are
  none, so of every variable. `NoMarkerNothingManaged` is not: in the
  middle of a transition names are managed before the marker is there.
  `ScriptInv` says why that ends well: a script that manages something ends
  with its marker line, the one that takes the marker away clears first, and
  whatever cuts a script short leaves the flag set.
  `TransitionsAreAtomic`, for hazards without `decode` (with it the property is
  false: see the known limits): by `AtomicInv` what
  a script has managed and what its remaining lines touch are together the names
  of the marker at its end, and only its secrets are in them. Interruptions,
  child shells and re-sourcing may happen, but the prompts after them, where the
  flag or `forgot` is set, are excepted. `PromptsAreWhole` has no exception:
  without `decode`, `interrupt` and under `NeverForgets`, every prompt shows
  every variable of a whole transition or of none.
  `HookKeepsItsPromise`, that the hook implements `EnvironmentLayer`, is for
  `Lossless` constants: no `decode`, `interrupt` or `child`, and no `resource`
  in bash; **hook_live** checks such an instance. It needs that the lines that
  set come after those that unset (`SetsComeLast`), so that a line evaluated is
  never undone by a later one, and `AmbientKept`, for what the first line of a
  script brings back.
* **ActivationProofs**. One inductive invariant, `IInv`, says by its program
  counter what a process knows: past the settings, that what it read of the
  policy was approved as a pair; past the hash, that the marker in its hands
  names a source no newer than the one it hashed, that one no newer than the
  document it puts. With `CacheNotBehind` for a document from the cache,
  `MarkerStaysBehind`, `LoadsOnlyApproved` and `BothOrNeither` are read off it.
  `NeverTakenBack` proves the action property `NeverBack` with a second
  invariant over the first, `Forward`: nothing loaded or cached is newer than
  the source, and what a shell has is no newer than what its process has hashed
  since, so every document between the two is no older than it.
* **SettingsFileProofs**. `TypeInv` adds that a process about to save has a
  whole copy, which passed the checks of its command. `OnlyReviewed` rests on: every approval, in the file and in every
  copy, was given. `Kept` rests on `FreshCopies`: a copy that was not overtaken
  is the file, which makes the save of a fresh copy a change of the file itself.

* **GitLocalRegistryProofs**. `TypeInv` adds the shape of a process: which
  command is at which step, and that whoever is past `mkdir` has installed
  exactly the first `n` files. For `WholeOrNothing`, `InstallInv`: at most one
  init is at work in a directory, and what is there is what it installed; that
  holds because `.dotenv-sec` is made by one only, and a scope without it is
  nothing or was cut off. `RegistryIsAsTold` is `FreshRegistry`: a copy nobody
  has overtaken is the registry with the command's change. `PrivateStaysIgnored`
  is `LinesReady`: past the ignore steps the lines are there. `NearestWins` is
  about `Resolve` in any state of type: the nearest of a set exists
  by well-foundedness of the depths, prefixes of one directory of equal length
  are equal, and the case distinction of the code picks the nearer one.
* **EncryptedSourceProofs**. `SourceIsAsTold` rests on `FreshSource`: what a
  process opened is the source, or the process is stale. `NeverLockedOut`
  rests on `Decryptable`: whatever a process holds to write back was opened,
  or verified, with an identity of the user's. `IdentitiesAreKept`: a merge
  keeps what it read, and the identities that are not YubiKeys are never
  dropped by anyone, so a stale copy has them too.
* **PromptLoadProofs**. `TypeCorrect`, and `AnswersBelong`, which is inductive
  with it: a terminal has at most one open request, its connection's, because
  every way out of a call, the answer, the deadline, Ctrl-C and the agent's end,
  closes the connection or takes the request away.

Constants: `Dirs` is any set of sequences of strings, all other sets are
arbitrary unless a module's ASSUME restricts them.

Only model-checked: liveness under fairness (`LeavingClears`,
`EnteringActivates`, `Settles`, `FailsClosed`, `BundledFollows`, `Enrols`,
`PromptReturns`, `LockTakesEffect`), which is out of the prover's reach. Only
proved, and in no run: `TypeOK` and `MarkerWithVariables` of `Activation`,
`TypeOK` of `PromptLoad`, and `WholePrompt` of `ShellHookProofs`. That the
bounds of the runs are no part of what is proved is the point of the theorems:
`MaxTime`, `MaxVersion` and the others are any natural number there.

## 5. Not modelled

* Parsing and formatting: YAML, JSON framing, base64, quoting, hashing. A hash
  is the tuple of what is hashed (no collisions).
* Peer credentials of the agent socket, file permissions and ownership beyond
  "the check passes or not".
* Several scopes in `Activation`; symbolic links, nested repositories and
  submodules in `ScopeResolution`.
* migrate's rewriting of an old configuration: it is one atomic rename of one
  file; its tool binding is in `SettingsFile`.
* The policy for dangerous names: a predicate on one parsed file.
* status, doctor, list, hook: they change nothing. Redaction, packaging.

## 6. Plan

What is left: two scopes in `Activation`, with `Resolve` in place of the bit that
says whether the directory is in the scope, and its theorems with it.
