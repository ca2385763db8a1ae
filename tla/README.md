# Verification of capi-shell-mcp

capi-shell-mcp is a daemon that gives an MCP client access to the workload
clusters of Cluster API management clusters: it discovers clusters, hands out
their kubeconfigs, opens sshuttle tunnels to API servers that are not routable,
mints read-only tokens, runs commands against clusters and mounts the tools of
kubernetes-mcp-server. This directory holds TLA+ models of the parts of it that
have state, concurrency or selection logic, the TLC configurations that check
them, and TLAPS proofs of the properties that matter most.

Run a check with `tlc -config <run>.cfg <module>` (the pairs are in
`PROJECT.json`) and the proofs with `tlapm <module>.tla`.

## Inventory

| Part | State | Operations | Hard part | What makes it correct |
|---|---|---|---|---|
| `proxy.Manager`, processes | `processEntries`, timers, children, singleflight group | `EnsureProxy`, `killProcessEntry`, exit watcher, `KillAllProcessProxies` | goroutines, timers and process exits interleave; state is used after the unlock | one tunnel per API server, none forgotten, all end |
| `proxy.Manager`, systemd | the singleflight group; the transient unit | `is-active`, `set-property`, `systemd-run` | the unit ends, fails or restarts between two commands; a flight shares its leader's context; units outlive the daemon | success means the unit was up, calls do not race to start it, all return |
| `main.run`, `httpserver` | phase of the shutdown | `Start`, `Close`, deferred kill | calls that outlive the ten seconds of `Shutdown` | no child outlives the daemon |
| `cache.TTLCache`, `capi.Store` | entries with expiry | `Get`, `Set` (`Delete` and `Clear` are unused) | check, fetch and fill are not atomic | bounded staleness |
| `ToolServer.cachedKubeconfig` | the kubeconfig cache | hit with tunnel refresh, miss with fetch | slow fetches racing with rotations and with each other | fresh kubeconfig, tunnel ensured by this call |
| `embed.capiProvider` | `managers`, `cfg` | `managerForTarget` (`ReloadConfig`, `PublishKubernetesConfig` and `Close` are never called) | managers are built outside the lock and never renewed | same pipeline as our own tools |
| `allResolvedClusters`, `ListClustersForContext` | the cache of cluster lists | contexts per kubeconfig, cached or fresh list per context, custom fields | files and clusters change on the way, calls share the cache, keys collide, fields are assigned by position | complete or an error, from the right place, fresh |
| `capi` targets, `ResolveClusterPatterns` | none | parse, match, expand, dedupe | prefixes, overlaps, empty levels, slashes in names | selects what was asked for, in order |
| selection of the tools, `embed.wrapFanOut` | none | patterns to targets | an absent against an empty argument; unset hints | destructive tools never widen |
| fan-out of the tools, `runFanOut` | results by index, WaitGroup | resolve, mint or fetch credentials, run, collect | goroutines that fail at different steps, a client that goes away | failures are isolated, nothing outlives the answer, read-only stays read-only |
| `capi.EnsureReadOnlyRBAC` | objects in the workload cluster | create, update, delete and recreate, token | calls interleave request by request, requests fail | a token is read-only, a loss is reported |
| `exec.WithKubeconfig`, `shell.OSExecer` | temporary file, child, output counter | write, run, copy, remove | two copying goroutines, one that feeds stdin, failures between the steps | cap, no silent truncation, no leftovers |
| `config`, `transform`, rest of `openstack` and `mount` | read once | parsing, extraction, registration | none | not modelled |

Tool calls arrive concurrently over HTTP. A call selects targets, and for each
target a goroutine asks `cachedKubeconfig`, which asks the cache, the management
cluster and `EnsureProxy`; a read-only call goes on to `EnsureReadOnlyRBAC` on
the workload cluster, and `exec_in_cluster` to `WithKubeconfig`. The embedded
tools reach the same pipeline through `capiProvider`. The hazards, each at its
line, are listed in `PROJECT.json`.

## Modules

- **TunnelLifecycle** is the abstract specification of `proxy.Manager`: a tunnel
  is started for a server that has none starting or up, becomes up, is doomed
  and is gone. It knows nothing of maps, locks or timers.
- **ProcessProxy** is `proxy.Manager` without systemd and the shutdown in
  `main.run`. A call of `EnsureProxy` makes at most one process, one
  `processEntry` and one timer, so the call's name stands for all three.
  `entries` is `processEntries`, `timerOf` the field `timer`, `flight` the
  singleflight group, `held` the variable `existing`, `victim` the variable `e`
  of a running `killProcessEntry`. Each critical section of `mu` is one action,
  and so is each statement outside it that another goroutine can observe.
  `existing.timer` is read and written without the lock; the interface value
  always has the same dynamic type, so a racing read sees the old or the new
  timer, which the interleaving of the actions covers.
  **MCProcessProxy** adds symmetry, **ProcessProxyProofs** holds the proofs.
- **ReadOnlyRBAC** (with **MCReadOnlyRBAC**, **ReadOnlyRBACProofs**) is
  `CreateReadOnlyKubeconfig`. One action per request; the initial states are all
  that an earlier version may have left; a request may fail, or take effect and
  lose its answer.
- **SystemdProxy** is `proxy.Manager` under systemd. Each `systemctl` or
  `systemd-run` command is one step of the call that leads a flight; in between,
  systemd does what the unit's properties tell it to (restart after a failure,
  give up after `StartLimitBurst` starts within an interval, end it after
  `RuntimeMaxSec`), a leader's client goes away, or the daemon is restarted. A unit
  that ends is deactivating for a while (`stopping`, `failing`) before it is
  unloaded or waits for its restart; `is-active` says no and its name is taken. A
  cancelled context fails the leader's commands and no one else's. `saw` is what
  `is-active` reported, and `upIn` only watches. Time is not modelled.
  **SystemdProxyProofs** holds the proofs.
- **KubeconfigPipeline** (with **MCKubeconfigPipeline**,
  **KubeconfigPipelineProofs**) is the cache,
  `cachedKubeconfig` and `managerForTarget`. Kubeconfigs are version numbers of
  the Secret, time is a clock in ticks, and of the proxy manager there is only when
  `EnsureProxy` last succeeded (`ensured`): the tunnel may end at any time after
  that, as ProcessProxy and SystemdProxy show. `hosted` are the clusters for which
  an sshuttle host is configured; without one nobody asks for a tunnel.
  `FetchAPIServerInfo` sees a
  cluster as it is at that moment: one that is being provisioned is not
  restricted yet and becomes so later (`Restrict`). `CallTime` bounds how long a
  call takes; the code has no such bound, and staleness is stated relative to it.
- **ClusterDiscovery** (with **MCClusterDiscovery**, **ClusterDiscoveryProofs**) is
  `allResolvedClusters` with the cache of cluster lists, `resolveContexts`, `parseContexts` and
  `ListClustersForContext`. Names are sequences of their parts between colons, so
  that `ClusterListKey` joins as the code does. A cluster of a list comes with
  the objects the configured jq expressions have for it, none, one or several.
  The file of a kubeconfig is read twice, for its contexts and for each client. An
  empty string among the configured contexts (`EmptyName`) is a context like any
  other to `parseContexts` and the cache, and a client for it uses the file's
  current-context.
- **FanOut** is one call of `get_cluster_kubeconfig`, `exec_in_cluster` (read-only
  or not) or an embedded tool, with a goroutine per target. What is wrong with a
  target is part of the initial state (`fault`); the steps of a goroutine are
  those at which others can come in between. The client may go away at any
  moment. **FanOutProofs** holds the proofs.
- **ExecWithKubeconfig** (with **ExecWithKubeconfigProofs**) is `WithKubeconfig` and
  `ExecFile`, with the two streams `stdout` and `stderr`. Output comes in chunks. `limit.written += len(p)` is a load and a
  store, and the comparison after it may see either what the goroutine stored or
  what the other one has made of it. `held` are the streams that processes
  started by the command keep open after it has ended, and `feeder` is the goroutine
  that writes the Input to stdin if there is any: `cmd.Run` waits for it, too.
- **Targets** has the pure functions of package `capi` on targets and patterns.
  A string is the sequence of its slash-separated segments, so that joining and
  splitting are what they are in the code, also for names with slashes.
  Loops that append some of what they meet are `KeepAt`, written with `FlattenSeq`,
  which unlike `SelectSeq` is a recursive function that the proofs can unfold.
  **TargetSelection** (with **MCTargetSelection**, **TargetSelectionProofs**) has the
  ways in which tools use them, and how `MountTools` chooses between them for an embedded tool. A
  behaviour is one call, since selection keeps no state.

`PROJECT.json` maps every definition to the lines it models. Operators whose
comment begins with "Mutant" are plausible bugs; none of them is used by a
specification.

## Runs

Passing:

| Run | Bounds | Shows |
|---|---|---|
| ProcessProxy | 3 calls, 1 API server | `IInv`, `NoOrphan`, `OneTunnelPerTarget`, `TunnelExpires`, `DrainedExitTearsDown`; that `ProcessProxy` implements `TunnelLifecycle`; every call returns, every tunnel is ended |
| SystemdProxy | 3 calls, 1 unit | success means that the unit was up during the flight; `systemd-run` finds the name taken only if `is-active` failed or saw a unit on its way down or waiting for its restart; all calls return |
| RBACSafety | 3 calls, failing requests and lost answers | `RBACInv`, tokens are read-only, the calls together leave the binding in place or one reports a failed request |
| PipelineOwn | 3 calls, 1 cluster, TTL 1, clock up to 4, 1 rotation | bounded staleness of answers and of managers when they are built; a kubeconfig that needs a tunnel is answered only after `EnsureProxy` has succeeded during the call |
| ExecOutput | 2 streams of 3 chunks, cap 2 | no silent truncation, no truncation of what fits, the file lives as long as the command and what the call waits for, the call returns when nothing keeps a stream open that it waits for |
| FanOut | up to 3 targets, any faults, all tools | failures are isolated, the error flag is exact, a read-only call uses no admin rights, nothing runs after the answer, the call is answered if its requests and commands end |
| Selection | 3 lists of clusters, 588 arguments and the absent one, 6 kinds of tools | what is selected, in which order, when clusters are listed, and where the embedded tools and the daemon's own agree |
| ClusterDiscovery | 2 calls, 2 kubeconfigs, TTL 1, clock up to 4, 1 change of the clusters, 1 edit of a file | an answer is complete or an error, lists come from their own place unless keys collide, configured contexts restrict, lists are fresh, fields belong to their cluster when expressions have one output |

Three calls are what the interesting cases of the manager take: one that
launches a tunnel, one that refreshes it and one that follows after it has been
killed, with the timer of the first still running. Keys interact only through
the shutdown, and the proofs cover any number of them. Under systemd three calls
are a leader, one that waits for it and one that comes after both, past a restart
of the daemon. The same three are enough for
a deleting, a recreating and a finished call of the RBAC protocol. In the
pipeline two calls race and a third one is answered from what they left; the
clock covers a fetch, the expiry of what it stored and a second fetch.
ClusterDiscovery's two calls race for the cache on one place while each goes on to
others, and its second kubeconfig has a name that makes one of its keys equal to
one of the first. The first has a list of contexts without a string, which
restricts nothing, and the second one with two, of which one is empty. `DiscoveryFields` has a scalar
for the first. In FanOut one target may be through, one under way and one not
started. The arguments of the selection are all one- and two-element sequences of
strings with up to two segments, and strings of three to five segments around the
known clusters, and sequences of three patterns that overlap each other and the
known clusters: it takes three to tell the order of first occurrences from others.

The calls of RBACSafety, of the pipeline and of ClusterDiscovery are
interchangeable in the model and in the properties, so those runs use symmetry;
their temporal properties are step-by-step properties without fairness. Runs with
liveness properties do not use it.

Deadlock is not checked: every model has a finite number of calls and may stop
when they are through (the daemon when it has exited).

Runs in which the code departs from what its comments, tool descriptions or
tests say. Each is a finding in `PROJECT.json` with the line it quotes:

| Run | What TLC shows |
|---|---|
| ProcessProxyLateTimer | a timer that fired just before a refresh stopped it kills the refreshed tunnel, since `Stop`'s result is ignored |
| PipelineEmbedded | an embedded tool's manager is reused when `EnsureProxy` has not been called for longer than a tunnel is kept |
| ExecSharedCap | a lost update lets both streams together exceed the cap |
| DiscoveryFields | an expression without an output for one cluster shifts the custom fields of the clusters after it |

Other places where the models reach what the code's comments do not say, without
a run of their own:

- `KillAllProcessProxies` takes one snapshot (`manager.go:230`): a tunnel in its
  startup window outlives the daemon when `Shutdown` has given up, although
  `manager.go:223` says "tears down every directly-spawned (non-systemd) tunnel".
  `DrainedExitTearsDown` is what holds.
- A call that saw the immutable roleRef may delete the binding that another call
  has just recreated and reported as ensured (`readonly.go:75`), against
  `readonly.go:42` ("exist and are up to date"). `LossIsReported` is what holds.
- `get_cluster_kubeconfig` without an argument selects nothing (`tools.go:83`),
  while `types.go:8` says "Omit entirely to select every known cluster" and the
  embedded tools do select every one (`EmbeddedAgrees` states both).
- systemd counts the end of `RuntimeMaxSec` as a failure and `Restart=on-failure`
  then starts sshuttle again, so a healthy unit never ends by its TTL
  (`RuntimeMaxElapses`, `Restart`), although `manager.go:226-228` relies on the
  units' bounded lifetime.
- While a unit is being ended or waits for its restart, `EnsureProxy` fails with the error of
  `systemd-run`, which finds the name taken (`manager.go:124`).
- A kubeconfig `a` with a context `b:c` and a kubeconfig `a:b` with a context `c`
  share a cache entry (`store.go:41`), and one is answered with the clusters of
  the other, named as the other's. `OwnLists` excludes exactly this case;
  `KubeconfigKey` joins its four names in the same way.
- `contexts: dev` (a string instead of a list) is no restriction at all
  (`config.go:186`), a list without a string such as `contexts: [7]` is none either, and one unreachable context fails every listing
  (`resolve.go:25`).
- A restricted cluster that was cached before its endpoint existed is answered
  without a tunnel until the entry expires (`openstack.go:121`).
- A process that a command leaves behind with an inherited output stream, or with
  stdin and without reading a large Input, keeps the call, and the fan-out with it,
  waiting for as long as it likes, also after the request was cancelled
  (`shell.go:69`; `CallReturns` of ExecWithKubeconfig and of FanOut have it as their
  premise).
- When systemd has given up on a unit that fails at once, the next call starts it
  anew with a fresh start count (`manager.go:124`), and a unit that fails less often
  than `StartLimitBurst` times in an interval is restarted for ever: nothing bounds
  the starts of a tunnel that does not work.
- `EnsureProxy` (`manager.go:158`) refreshes the entry it found after the unlock;
  a `killProcessEntry` in between has taken it, and the call succeeds for a
  tunnel that is being terminated (the step `Rearm` with a `held` entry that is
  some runner's `victim`).
- `kubeconfig_ttl: 0` is accepted. With `TTLPositive = FALSE` a timer can fire
  between its creation and the insertion of its entry (`manager.go:190`), the
  entry then has no armed timer, and `TunnelExpires` fails.
- `os.WriteFile` may fail after it has created the file (`exec.go:72`), before the
  deferred removal is installed, and the daemon's exit skips it (`WriteFails`,
  `DaemonExits`); the package comment says the file is always cleaned up.
- `list_clusters` lists everything for an empty array (`tools.go:43`), which
  `types.go:8` says selects none.
- A context or kubeconfig entry with a slash in its name is listed with a target
  that no tool accepts (`target.go:12`), and a strict tool accepts a path with an
  empty level such as `kc//ns/name` (`target.go:19`).

### Fairness

`FairSpec` of ProcessProxy assumes weak fairness of each call's own steps, of
each timer (an armed one fires, a fired one runs `killProcessEntry`) and of the
steps of `main.run` after a signal: goroutines are scheduled and the runtime's
timers fire. The startup window is such a timer and always elapses. Nothing is
assumed of the exit watchers, of clients (a request may never come), of signals, or of sshuttle, which may ignore SIGTERM or exit at any time. All of it
stops when the daemon has exited. Each call is one refresh, so a tunnel that is
refreshed for ever, which rightly never ends, is not among the behaviours.

SystemdProxy assumes that a call that has been made goes on (`systemctl` and
`systemd-run` end); nothing of systemd's own steps, of sshuttle, clients or restarts
of the daemon. FanOut assumes that the handler goes on from its loop and that a
goroutine which has its outcome stores it and is done; it assumes nothing of
requests, commands and embedded handlers, which have no deadline. Its `CallReturns`
has it as a premise that the clusters get listed and that no goroutine waits for
ever. ExecWithKubeconfig, one of these waits in detail, assumes fairness of the
goroutines of the call and not of the command or what it has started.

## Proofs

`ProcessProxyProofs` proves, for any sets of calls and API servers:

- `Invariance`: `Spec => []IInv`. None of the properties is inductive. `IInv`
  says what every goroutine may rely on: the leader of a key is alone in its
  flight and no entry appears under its key while it spawns (`LeaderInv`);
  whoever holds an entry (map, killer, watcher) holds one of a launched process
  of that key, and what a killer holds has left the map (`EntryInv`); a timer
  is created once, belongs to one entry and to the entry's key (`TimerInv`);
  after a clean drain what is left in the map is what the exit hook still has to
  kill (`ExitInv`). One lemma per action shows that it is preserved.
- `NoOrphanHolds`, by a second induction on top of `IInv`, and from it
  `OneTunnelHolds` (two running tunnels for one key would both be in the map, or
  one would be starting while its key is taken) and `DrainedExitHolds`.
- `TunnelExpiresHolds`, under the assumption that the TTL is positive, which is
  needed (see above).
- `Refinement`: `Spec => Implements`. `StageOf` maps a process to its abstract
  stage; a running process that is neither starting nor in the map nor in a
  killer's hands would be mapped to a stage that TunnelLifecycle does not have,
  and `NoOrphan` excludes it. Spawning, inserting, taking an entry and exiting
  are the four visible steps, all others stutter.

`ReadOnlyRBACProofs` proves `RBACInv` and from it `TokenIsReadOnly` and
`LossIsReported` for any number of calls. The invariant
says what the place a call has reached implies about the cluster's objects, and
that a binding that is missing although some call ensured it will be recreated
by the call that deleted it, or that a request failed.

`FanOutProofs` proves `FailuresAreIsolated`, `ErrorFlagIsExact`, `ReadOnlyHolds` and
`QuietAfterAnswer` for any number of targets. `FanOutInv` adds to the types that
the WaitGroup counts exactly the goroutines under way and the loop has started
exactly those before `next` (`CountInv`), which credentials a goroutine has at each
of its places (`CredentialInv`), that `results[i]` is goroutine `i`'s outcome once
it is stored and nothing before (`ResultInv`), which places a tool and a fault lead
to (`PathInv`), and where the answer's flag comes from (`FlagInv`). It has one lemma
per action.

`SystemdProxyProofs` proves `TypeOK`, `OkMeansUp` and `NoStartRace` for any
calls and units, restarts of the daemon included. What a call reports rests on what
`is-active` said one or two commands earlier. `SystemdInv` therefore says that the
recorded call of a flight and the leading call of its key are the same
(`FlightInv`), so that nobody else starts the unit in between, and what the leader
may still rely on before `set-property` (`UpInv`) and before `systemd-run`
(`ReportInv`). That a waiting call always has a leader on its way is proved as a
theorem of its own (`WaitersHaveLeaderTheorem`); it is the safety half of
`CallsReturn`.

`ExecWithKubeconfigProofs` proves `TypeOK`, `NoSilentTruncation`, `CutOnlyAboveCap`
and `FileLivesWithCommand` for any amount of output and any cap. `ExecInv` accounts
for every chunk (captured, in the pipe, or lost by a goroutine that failed,
`OutputInv`), bounds the racy counter from above by what both goroutines have added
(`CounterInv`: updates get lost, none is made up, so nothing within the cap is cut
off), and ties the file to the stages of the call (`StageInv`).
`SingleStreamCapHoldsTheorem` complements the finding of ExecSharedCap: a command
that writes to one stream only stays within the cap, so the race alone breaks it.

`KubeconfigPipelineProofs` proves `TypeOK` and the action properties
`KubeconfigsAreFresh` and `AnswersAreTunneled` for any calls, clusters, TTL,
`CallTime` and rotations. `PipelineInv` carries each bound from where it arises to
the answer: what a call has fetched was current during the call (`GotInv`), what it
stores expires before it is too old by one call (`StoreInv`), what another call
gets from there is too old by at most one call more. `TunnelInv` says at which steps
a call for a cluster that needs a tunnel has had its success of `EnsureProxy`, and
`StoreInv` that an entry without a tunnel to refresh is of a cluster that did not
need one when it was cached.

`TargetSelectionProofs` proves all properties of the Selection run for strings of
any number of segments, any number of patterns and any known clusters. What an
argument selects is a `FlattenSeq` of what its patterns select. The first lemmas say
where in a flattened sequence an element comes from, then what `KeepAt` and
`DedupePreserveOrder` keep and in which order, then what the two resolvers select;
`SelectionInv` says it of the last call. `EmbeddedAgreesTheorem` includes the omitted
argument, for which the tools part.

`ClusterDiscoveryProofs` proves `TypeOK`, `AllOrNothing`, `OwnLists` and the action
property `ListsAreFresh` for any calls, kubeconfigs, configured contexts, files,
lists and changes. `DiscoveryInv` says how the places a call has met, the lists it
has and the contexts it has still to list fit together at each of its steps
(`ProgressInv`), that kubeconfigs behind it are in its plan (`CoverInv`) with allowed
contexts only (`RestrictInv`), that cached lists belong to their key (`KeyInv`), and
bounds the age of lists as in the pipeline (`CallInv`, `FreshInv`).

TLC finds every inductive invariant to hold at the bounds of its component's run
too. Two properties turned out to be wrong in the attempt to prove them and were
corrected: an earlier form of `FirstSeenOrder` failed for some arguments of three
patterns, and `AllOrNothing` took a configured list without a string for a
restriction. The runs now include such arguments and such a list.

Induction over data is done with sets: `Induction` shows that a set of numbers that
has 0 and is closed under successor is `Nat` (from `WFMin` of
WellFoundedInduction), and the formula to be proved defines the set. The lemmas on
`FlattenSeq` are in both modules that need them.

The proofs assume of the constants only what the modules' `ASSUME`s say, and TLC
evaluates these on the runs: that names are distinct and differ from what stands
for their absence, that the switch for the TTL is Boolean, that bounds, durations
and the cap are natural numbers, that arguments and lists are sequences of what the
code has in them, and that there is a kubeconfig (`config.Load` refuses a
configuration without one).

Only model-checked: the liveness properties (`CallsReturn`, `TunnelsEnd`,
`CallReturns`), since liveness under fairness is out of the
prover's reach. Every other property of a passing run is also a theorem. The runs
that expect a violation have nothing to prove.

## Not modelled

- Most of the configuration (everything but `parseContexts`), the host check and
  the systemd notifications: parsing, a string comparison and output.
- jq transforms of kubeconfigs, which `OS_` variables are set, the JSON of the
  answers: data that no property tells apart. Kubeconfigs and outputs are
  versions and chunks.
- `capiProvider.ReloadConfig`, `PublishKubernetesConfig` and `Close`: `MountTools`
  drops the handle that would call them and `WatchTargets` never reports a change.
- Registration of the tools, which happens once before the first request, and
  deployment files.
- How `set-property RuntimeMaxSec` counts (from the activation of the unit): a
  matter of systemd, of which SystemdProxy takes only that the time passes.

## Plan

1. Theorems that relate the models: that what FanOut takes one step for
   (`cachedKubeconfig`, `WithKubeconfig`) is what KubeconfigPipeline and
   ExecWithKubeconfig provide.
2. *Daemon*: start-up, shutdown and the HTTP server as one life cycle, composed
   with ProcessProxy and ExecWithKubeconfig.
