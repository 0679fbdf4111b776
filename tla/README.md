# NexQuake in TLA+

NexQuake runs Quake dedicated servers behind one Go program, *Nexus*, and lets
browsers play on them. Nexus starts and scales the server processes, tunnels each
browser's datagrams to them from a virtual loopback address, serves game assets
under content hashes, streams the state of the server list to every open page,
and answers administrators. This directory holds models of the parts of Nexus
that keep state and run concurrently (`nexus/`), the TLC configurations that
check them on small instances, and proofs, checked with TLAPS, of what matters
most.

`PROJECT.json` is the index: the components, the runs with their properties, the
code lines behind every definition (`map`), one mutation of the code's behaviour
that each property detects (`mutants`), the hazards the properties are for, and
the theorems.

    tlc -workers 2 -config Trunk.cfg MCTrunk      # a run
    tlapm TrunkProof.tla                          # the proofs of a module

## The system

| Part | State it keeps | Operations | Who acts at the same time |
|---|---|---|---|
| State channel, `sse.go`, `assets/generation.go` | last snapshot, subscribers with one-slot signals, memoised manifest generation | poll and publish, subscribe, wake, write, unsubscribe | the hub's loop, one handler per browser |
| Trunk, `trunk/` | pool of virtual IPs, session registry, per session a socket, a transport, a bounded queue | allocate, listen, run three loops, send a control frame, end | the loops of every session, administrators |
| Client registry and bans, `internal/clients`, `internal/access/gate.go`, `internal/admin/client.go`, `connect.go` | identities by virtual IP, blocked sources | gate, attach, detach, ban | request handlers, administrators |
| Access policy and admin requests, `internal/access`, `internal/admin/rpc.go`, `connect.go` | the configured policy, the browser's session cookie | log in, resolve the caller, authorise, dispatch | administrators, token expiry |
| Autoscaling, `orch/autoscale.go`, `registry.go`, `state.go` | lifecycles, zero-player streaks, in-flight mark, cooldown | reconcile, launch a replica, despawn | poll loop, read loop, processes |
| Routing and server list, `orch/autoscale.go`, `slist.go` | round-robin cursor, cached figures | pick, list, refresh | whoever builds a list |
| Servers and their processes, `orch/ops.go`, `launcher.go`, `registry.go` | servers by line, instance records, port index, running processes | launch, start, stop, restart, remove, StartAll, StopAll, replicas | administrators, main, autoscaling, processes |
| Startup of a server, `orch/launcher.go`, `console.go`, `manager.go`, `state.go` | the port and search path a record has resolved, its start mark | start, monitor the console, ask for path and port, relay, time out, go online | the operator, four goroutines per process, the poller |
| Console, `orch/console.go`, `rcon.go` | PTY, log, tail history, subscribers, suppressed echoes | publish, subscribe with a filter, run a command and capture its output | reader goroutine, filters, requests, the process |
| Client asset trees, `assets/clientfs.go`, `clientfs_pak.go` | cache of PAK directories by path, time and size | scan the layers of a mod | HTTP requests, whoever edits the tree |
| Hashed manifests, `assets/manifest.go`, `manifest_asset.go` | manifests, inverted index of hashes | issue, expire, evict, look up | HTTP requests |
| Runtime overlay, `assets/serverfs.go` | tree of symlinks over two layers, watches | seed, handle an event, reconcile | the watcher and whoever edits the source tree |
| Launch plan, `orch/launch_plan.go` | none: `servers.ini` is read at each boot | split into groups and launch lines, merge, number | main |
| Quickstart, `assets/quickstart*.go` | `servers.ini` and the layers in `GAME_DIR` | write a missing `servers.ini`, install layers that have no files | main, at each boot; an operator in between |
| Process lifecycle, `main.go`, `cert.go`, `wt.go` | listeners, run context, shutdown deadline | boot, certificate gate, signal, drain, stop servers, exit | main, browsers, servers, the operator |

How they meet: `/connect` passes the gate, makes a trunk session and attaches an
identity to its address; a ban goes from identity to session by that address.
Autoscaling registers and removes instance records that administrators operate
on as well, and the port index leads server-info replies back to them. A server
list is built for every snapshot of the state channel. The startup monitor writes
to a record that operations replace, through the console that captured commands
share. Lifecycle opens and closes all of it; at each boot Quickstart and then the
launch plan read the same `servers.ini`.

What is hard: lock regions with a process start, a network call or a file-system
walk between them; addresses and indices that are used again after their owner
has changed; one-slot and bounded channels that drop; two goroutines that
reconcile the same server; callbacks of a process that has been replaced; a cache
filled from files that change; a boot that finds what an interrupted one left;
deadlines shared by two phases of the shutdown. The
`hazards` of `PROJECT.json` list these at their lines.

### Not modelled, and why

- *Logging* (`log.go`): sinks, levels and a ring buffer behind one mutex. It is
  output; no decision of the program reads it.
- *The shareware decoder* (`quake106/`), archive extraction, checksums and the
  parsing of PAK directories: sequential computations over bytes. What the rest
  sees of them is in the models: a source that unpacks to files, or fails
  half-way; a PAK with entries, or malformed.
- *The source address of a request* (`access/identity.go`): parsing of headers;
  a constant of the model. Verification of tokens is the OIDC library's.
- *Snapshots and formatting* (`state.go` 281-431, `rcon.go` 20-115, `connect.go`
  outside the handlers named): reads under the lock turned into JSON and text.
- *The certificate refresh* every 12 hours and the CLI subcommands of `main.go`.
- *CD tracks*: a directory walk without layers or overlaying beside the mods'.
- *The browser engine port* in C and *the browser shell* in JavaScript: separate
  programs; their reliable channel and their event-stream consumer are planned.
- *Engine patches, images and the site*: no program logic of NexQuake's own.

## The modules

Every module is one component: its state as variables, one action per lock region
or call between two of them, the handlers as sequences of such actions with a
program counter, its properties last. Data that no property tells apart is left
out: payload bytes, JSON, log texts, headers. A definition named
`Action_something` with a comment *Mutant* is a plausible mistake in the action
after it and no part of the specification.

### StateHub, StateHubProof (`sse.go`, `assets/generation.go`)

A snapshot is the pair of versions of its sources, the server list and the asset
tree, read one after the other (`SlistEntries`, `ManifestGeneration`) by the loop
or by a handler that finds no snapshot yet. `Publish` stores it and raises the
one-slot signals under the lock; `Subscribe`, `Snapshot`, `WriteEvent`, `Wake`
and `Unsubscribe` are the handler; `Receive` is the browser reading its stream.
`ViewNeverRegresses` is the promise to a page: what it shows on one connection
never goes back, neither the servers nor the generation. The code has one
exception. A handler that finds no snapshot in the hub builds its own; the loop,
whose build had begun before that, may publish an older one right after, which
the page then gets as its second event (`early`). The recomputation of the
generation, a walk over the asset trees (`generation.go:58-78`), is one read of
their version: files that change under the walk count as changed before or after
it.

### Trunk, SessionTable, TrunkProof, MCTrunk (`trunk/`)

`Alloc`, `Listen` and their failures are `newSession`; `Run`, `ReadError`,
`WriteFrame` and the `Udp` actions are the three loops; `SendControl` queues an
administrator's frame; `End` is `endOnce`'s body step by step: cancel, wait for
the drain, close, release the address, clear it. Frames are counted, not named.
`SessionTable` is what the rest of Nexus may rely on: an address nobody else
holds, kept until the teardown has closed the socket, given back once. The rigid
variable `load` picks one of the cases that a run considers (here: sessions
without traffic, one session with traffic); other modules have one too.

### Clients, Access, Rcon, RconProof, MCRcon (`internal/clients`, `internal/access`, `internal/admin`, `connect.go`)

`Clients` is composed with `SessionTable`: sessions move by the abstract table,
and the handlers of `/connect` and of `client.ban` act on them. The ban is its
lookup, the hydration of the `Connection`, the block, the second lookup by
address and the end it waits for. `Access` holds the decisions as operators: the
policy behind `AUTH_ADMIN_ID`, which credential of a request counts, who is an
administrator, whether a login is offered, what a refusal suggests. `Rcon` puts
the two behind the HTTP endpoints: `HandleRconSession` sets the cookie, `RpcGate`
resolves the caller once, `RpcAuthorize` and `Dispatch` follow with the rights of
that moment, while tokens expire and a ban may block the administrator's own
source.

### Autoscale, AutoscaleProof (`orch/autoscale.go`, `registry.go`, `state.go`)

One `-port 0` server. `Decide` is `decideServerActionsLocked` as a whole (`Sweep`,
a recursive function over the instances in the code's order); launch and despawn
are the steps after the unlock, with failing starts, stops that give up, crashes,
and replies that arrive for removed instances. `recordDemand` has no caller in the
program, so the needed headroom is its floor. Ids nobody refers to are used again.

### Routing, StateHubProof (`orch/autoscale.go`, `slist.go`, `registry.go`)

The pick over an arbitrary state of the instances: candidates, the tiers of
`Pool`, the scan by cross-multiplied fill ratios, the cursor, and the entry built
next to figures that `refreshServerSnapshotLocked` cached at the last change.
`LeastLoaded` is the definition the scan is compared with. `Filter`, `Best` and
`Sum` are the loops of the code, turn by turn. Its theorems are in `StateHubProof`.

### Orch, OrchProof, MCOrch (`orch/ops.go`, `launcher.go`, `registry.go`, `admin/server.go`)

Threads are main, administrators and the autoscaler; operations are sequences of
lock regions. A server object, its records and its processes are allotted in
order; the registry maps lines to objects as the code does. `overlapped` is a
history variable: some two operations were in progress at the same time. `Boot`
leaves out the locked reset of the maps with which StartAll begins
(`launcher.go:52-60`): they are empty then, unless a launch was admitted between
the first request served and that moment, which the reset would forget and whose id
would be used again.

### Startup, NexusProof, MCStartup (`orch/launcher.go`, `console.go`, `manager.go`, `state.go`)

One record through several runs of its process. `Clear`, `Spawn`, `Check` and
`Commit` are `startRecord`; beside them act the process, `ReaderEnds`, the
monitor (`monitorServerStartup`: it subscribes, asks for path and port when the
banner comes, collects, calls back), the relay, the timer and the poller, whose
first answer writes the marker. Of an earlier run only what can still reach the
record is kept: callbacks and timers. Echoes of the monitor's commands fall
anywhere into the output. The theorem about `StartSpec` is in `NexusProof`.

### Console, ConsoleProof, MCConsole (`orch/console.go`, `rcon.go`)

The process executes commands in order and prints an audit line, BEGIN, output
and END, or hangs, or dies; the PTY echoes. `ReadLine`, `Send`, `Sent` are `run`
and `publishLine`; the filter of a subscription is a goroutine of its own; a
request subscribes, announces its echo, writes, collects between its own
sentinels, cancels. History variables record what a full channel refused and how
much output the END that was read had before it.

Two things keep a reply from being the output as it was printed. The base filter
(`serverCommandNoiseFilter`, `shouldRelayServerConsoleLine`) drops blank lines and
those about packfiles and found files; they are the lines of kind "noise", which
`Keeps` holds back. And `stopServer` writes "quit" without `commandMu` and without
announcing the echo (`launcher.go:306`), so that the echo can stand in the reply of
a command that is under way (`Quit`, `QuitEcho`). Of the other writers beside a
capture, the monitor's "path" and "port" (`console.go:481-486`) have an echo of the
same kind, for as long as the port is not resolved, and the marker of
`state.go:251` announces its own; neither ends the process, and what they print
comes between two commands, outside of every pair of sentinels. Left out are the
lines that a game prints by itself while a command runs, which nothing in the
console tells from the command's output, and a write to the PTY that blocks for
ever (`console.go:162`): a request waits for room in it and is woken when the
process ends.

### ClientFS, Manifests, AssetsProof, MCManifests (`assets/clientfs.go`, `clientfs_pak.go`, `manifest.go`, `manifest_asset.go`)

`ClientFS` is the scan behind a manifest: layer by layer the PAKs in the order of
`pakSortKey`, each through `PakIndexCache.get` (look, compare with the cache,
read, store: four steps), then the loose files. A version of a PAK stands for its
time, size and contents. `VFS` is the definition it is compared with, by
precedence instead of by overwriting. `Manifests` goes on where the scan ends:
every file is looked at once more, the clock is read, and `Register` prunes,
evicts and stores under the lock. Lookups have the fast path under the read lock
and the slow one that prunes.

### Overlay, AssetsProof, MCOverlay (`assets/serverfs.go`)

The file system and fsnotify are external: files and directories come and go at
any moment, the roots of the layers too (`MakeRoot`, `RemoveRoot`), and an entry of
a watched directory is an event. The watcher's goroutine walks (`ScanWatch` watches
a directory, `ScanRead` then reads it), and reconciles a path in two steps, look-up
and replacement. `seed()` passes over a layer whose root is missing when it looks,
and nothing ever leads to a root that is made later; a watch may be refused, whose
error is ignored (`Watch`): both are remembered in `deaf`. History variables name
the paths for which an exception applies. The specification is `TreeSpec`. An
overflow of the kernel's event queue, which `run` ignores as well
(`serverfs.go:161`), is not modelled: the queue of the model has no end.

### LaunchPlan, Quickstart, Lifecycle, Nexus, NexusProof, MCNexus (`orch/launch_plan.go`, `assets/quickstart*.go`, `main.go`, `cert.go`, `wt.go`)

`LaunchPlan` is the reading of `servers.ini` over fields: groups, templates, the
merge of a launch line with its groups (`MergeField` for a field of the line,
`InsertField` for a field of a group), refused arguments, line numbers, and the
second reader, Quickstart's, which only looks for games. `Quickstart` is the
installation, step by step down to the directory made for a file and a file that
is open and incomplete; all it keeps between boots is `GAME_DIR`. `Lifecycle` is
boot in main's order with every fatal exit, the certificate gate with its retry
schedule, the signal, the shutdown under one deadline, `StopAll`, with event
streams that close when their browser leaves and servers that may ignore signals.
`Nexus` composes the three over several boots, with an operator who edits
`GAME_DIR` while Nexus is down; it also has the definition a merge is compared
with: which turns of a line and its groups are `Kept`. The default server of
`planLaunches` (`launch_plan.go:39-50`) is left out: Quickstart has just made sure
that there is a `servers.ini`, so it takes one that vanishes during the boot.

## The runs

| Run | Checks | Bounds |
|---|---|---|
| `state_hub` | no lost wake-up, neither the published state nor what a page shows goes back, convergence | one stream beside the loop, two changes of each source, a stream that holds one event |
| `trunk` | types, exclusive addresses, exact pool, the drain delivers, refinement of `SessionTable`, the teardown completes | two sessions that compete for one address, one of which meets the server's first; and one session with three frames and a queue of one |
| `rcon` | no leaked identity, a ban ends its target, every request is answered, a confirmed login holds | three requests of two sources, two addresses; and every policy of up to two rules, with two tokens |
| `autoscale` | cap, marks have owners, the last instance stays | cap of two, three ids, one crash, one empty poll to despawn |
| `orch` | the registry's maps and port index agree; without overlap no orphan, everything reachable, complete shutdown, restart brings back the same | one planned server, one administrator beside autoscaling, two operations, two processes, two ports |
| `startup` | what is resolved is the process's own, a started server is heard of, every start settles, listeners end | one run with two search-path entries and room for all lines; two runs on different ports with a channel of two |
| `console` | replies are the request's own and complete and the log is clean, channels safe, a capture returns | two requests with one line of output, noise or stop; and one request with three; channels and PTY of one |
| `routing` | scan equals its definition, ties take turns, figures fit | three instances, capacities 2 and 3, one change, two listings before and after it |
| `manifests` | index in step and within the cap, a manifest lists the tree | every tree of two layers with up to two of three PAKs, one of them malformed, and two spellings of a loose file; two changes under two scans; three issues, a cap of two, TTL 1, three ticks |
| `overlay` | the tree mirrors the layers, the watcher catches up | layers with or without a root, one directory, three paths, two of them spellings of one; three changes or refused watches during and after the seeding |
| `nexus` | launched servers have their data, the operator's files are kept, the merge is right, a shutdown ends | two boots, one edit, a catalogue of three entries and two files; two servers, two browsers, two retries; every `servers.ini` of two groups and a line of three fields |
| `lifecycle_stops` | *refuted*: a shutdown tells every server to stop | one server, one browser |

Why these bounds: each run has the smallest set in which the conflict it is about
exists, and one actor more where the actors differ. Two sessions are enough for
one to take what another released; three clients, for an address to change hands
during a ban of a third; capacities 2 and 3 make fill ratios that only
cross-multiplication orders; queues of one are full and empty within a few steps;
three manifests exceed a cap of two; PAKs named pak2, pak10 and xtra sort
differently by number and by name; two changes let a PAK be replaced between the
look and the read of one scan and again before another; a second boot is the first
to find what an interrupted one left; of three lines behind a channel of one the
first, the middle or the last may be lost, or be noise. Bounds of counters are in
the guards and named in the modules (`MaxChange`, `MaxCrashes`, `MaxOps`,
`MaxPicks`, `MaxChanges`, and the fields of `Loads` and `Worlds`). Deadlock is
checked where the system runs for ever (`state_hub`, `autoscale`); the others use
up their bounds, or end.

### Fairness

Weak fairness of what the Go runtime schedules and of timers, never of clients,
administrators or processes.

- `StateHub`: the ticker, the loop, the handlers, the expiry of the memoised
  generation. `Receive` is fair because `Converges` is about a browser that keeps
  reading; it holds for connections that stay open.
- `Trunk`: creation, the loops, `End`, and the errors that blocked reads return
  once their socket or transport is closed. A read on an open socket owes
  nothing.
- `Rcon`: handlers, admin requests and bans proceed, a teardown that has begun
  goes on (which `TeardownCompletes` says of `Trunk`). Nobody has to ask.
- `Console`: the reader, the requests with their timer, and the closing of the PTY
  once the process is dead. The process may hang for ever, filters may lag.
- `Startup`: the goroutines of Nexus, the timer, the poller's request, and the
  process as long as it lives: it executes what it read and answers a poll.
  Killing and starting it owe nothing; `ComesOnline` and `StartSettles` have its
  end as a way out.
- `Nexus`: main's own steps after the signal and the deadline. Browsers, servers
  and the operator owe nothing.
- `Overlay`: the watcher's goroutine. Nothing is assumed of the file system.

## What is proved

TLAPS checks the following for every value of the constants that meets the
assumptions named (they are `ASSUME`s of the modules, which TLC evaluates on every
run). Theorems are stated of the specification without its fairness.

Two ways of arguing come back. *Induction over steps*: a property that is not
inductive is the consequence of an invariant that is; each such invariant was
checked by TLC before it was proved. *Induction over data*: the library's induction
theorems take an operator, which no prover here can instantiate, so what a loop
computes is shown by contradiction at the least turn for which it would fail
(`Least`, from the well-foundedness of `<` on the naturals; `Upward` puts it as
induction over a set), and a recursive function is first shown to exist, turn by
turn (`CourseExists`, `LoopExists`). Loops that
theorems are about are therefore recursive functions or community folds over
functions, never `RECURSIVE` operators.

`StateHubProof`, from: the loop is not a connection, the absent value is not a
snapshot, the bounds are naturals.

- `TypeCorrect`: types and program points.
- `WakeupIsNeverLost`: `NoLostWakeup`. It is not inductive by itself: nothing in it
  says that a handler that waits is subscribed. `WakeInv` adds that a handler is
  subscribed from before its first read until it returns, and that, from the
  moment it has read, the hub cannot move on without leaving a signal, at the
  points between the read and the wait too.
- `HubNeverRegresses`: `LastNeverRegresses`. `AgeInv`: the memoised generation only
  grows and is never ahead of the tree, so what the loop has read since its tick is
  at least as new as what it will replace, although the handlers refill the same
  memo between its two reads.
- `ViewsNeverRegress`: `ViewNeverRegresses`. `ViewInv`: what the page shows, what is
  in its stream, what the handler holds and the hub's snapshot are, in this order,
  each nowhere older than the one before, a first build of the handler's own aside,
  which there is only before anything was written. That the hub's snapshot does not
  go back is `AgeInv` again.
- `ScanIsExact`, `TiesAreShared`, `FiguresAreTakenTogether`, of `RouteSpec` and from
  at least one instance and capacities that are not zero: `ScanFindsLeastLoaded`,
  `TiesTakeTurns`, `FiguresBelongTogether`, for any number of instances and picks.
  Comparing cross products orders the instances by fill ratio, transitively
  (`LoadOrder`, `Ratios`), so the scan has the least of what it has passed
  (`ScanFacts`, over the turns of the loop). The ties stand in a ring: picks give
  each of them q or q + 1 turns, and those with one more are the stretch that ends
  where the cursor stands (`InTurn`); `TiesTakeTurns` alone does not say where the
  next one falls. The cached figures are sums over one state (`Taken`).

`TrunkProof`, from: each session has a source, each source a finite probe
sequence over the pool and the server's address, the server's address and the
zero address are not in the pool, the queue has room for one frame.

- `TypeCorrect`: `TypeOK`, with the extra conjunct that frames queued before the
  cancellation are a part of those queued.
- `PoolIsExact`: an address is out of the pool exactly while a session holds it.
  The induction (`PoolInv`) needs where the goroutines can be in each phase of the
  teardown (`Placed`, `Ordered`), that two holders never have the same address
  (`Owned`) and that a session not created yet has none (`Unheld`): without
  `Owned`, releasing one session's address would take it from the pool for
  another's.
- `VIPIsExclusive`: no two open sockets or registered sessions share an address;
  a consequence of `PoolInv`, as a socket is open and a session registered only
  while the address is held.
- `DrainIsComplete`: `DrainDelivers`. `DrainInv`: a writer that has left saw the
  context cancelled, after which nothing more is owed, and left the queue empty or
  had an excuse; `End` goes on only without a writer or with an excuse of its own.
- `TrunkImplementsTable`: every step of the trunk is a step of `SessionTable` or
  leaves it unchanged, under the mapping `State`. `Take` of the table needs the
  address to be unheld, which is `PoolExact`.

`RconProof`, from: the zero address is not in the pool; the policies are ones that
`InitAuth` accepts; for every claim that a policy names some token carries it.

- `IdentityNeverLeaks`, `BanIsEffective`: `NoLeakedIdentity` and `BanEndsTarget`.
  `ClientInv` adds that no address is held twice (`HoldInv`), and what a ban knows
  (`BanInv`): until it has ended somebody, the session it was asked to end is
  found under the address it was known by, or is no longer in the table; so what
  is ended under that address is that session, although the lookup is repeated.
- `LoginAlwaysHolds`: `LoginHolds`. `LoginInv`: the cookie is a live token, got
  where logins are offered, and the answer was about that token. The rest is about
  the decisions of `Access` alone: what the login checks and what the gate checks
  agree, and a hint names just what can help.

`AutoscaleProof`, from: limits of at least one, ids that are numbers.

- `CapHolds`, `MarksHaveOwners`, `LastIsKept`: `CapRespected`, `MarksOwned`,
  `LastNeverDespawned`, from one invariant. `LaunchInv`: the in-flight mark is set
  exactly while one reconciler launches, whose record is the last of the list and
  not running; `OwnInv`: an instance is terminating exactly while one reconciler
  has it to despawn; `CapInv`: there is room for the replica under way;
  `AliveInv`: without a crash some instance runs that nobody is going to stop. What
  the sweep over the instances leaves (one victim at most, and not the last
  that nobody was going to stop: `SweepInv`) is shown by induction over the instances it has visited.

`OrchProof`, from: finitely many administrators, ports that are not zero. It has
two invariants, because the code keeps its registry under the lock and its promises
about processes only by not being interrupted.

- `RegistryIsConsistent`: `IndexesAgree`, whatever interleaves. `SafeInv` has the
  types with what is known of a thread at each of its points, that ids and lines
  are allotted in order and used once (`FreshInv`), and that only started processes
  are recorded, waited for or about to be recorded (`ProcInv`, `CommitInv`).
- `NoProcessIsOrphaned`, `InstancesAreReachable`, `StopAllLeavesNothing`,
  `RestartKeepsItsServer`: `NoOrphan`, `Reachable`, `NothingLeftRunning` and
  `RestartsTheSame`. They follow from `AloneInv`, which speaks of executions in
  which no two operations have overlapped: at most one thread is at work, and what
  it has read is still true (`Local`, point by point). Where operations do overlap
  these four are false in the code, as listed below.

`ConsoleProof`, from: capacities of at least one.

- `ChannelsAreSafe`: `ChannelsSafe`. `ChanInv`: whoever takes a channel out of the
  map, under the lock, is the one that closes it, so no channel of the map is
  closed; and the map does not change while a line is published.
- `RepliesAreOwn`: `ReplyIsOwn`, for any number of requests, any output and any
  capacities. `AnswerInv` adds what is still under way: everything between a
  request and its command, from what it has collected back to what the process has
  yet to execute, is one row of eight stages (`Way`), in which the lines of a
  collecting request stand in order with only echoes behind them (`Flows`); in which
  every line that counts the output before it, END and noise included, has the last
  of that output still ahead of it unless its channel refused a line (`Unbroken`);
  and in which a request that has not written has nothing (`Foreign`). Every step
  moves a line one stage on, drops one, cuts the row off or prints the next line;
  four lemmas say what each of these keeps, and one lemma per action which of them
  it is. `EchoInv`: an echo is announced before it is in the PTY, so it is swallowed
  and gets no further. `ReplyInv`: a reply has its output from the first line on, so
  that at END it has all of it.

`AssetsProof`, from: a cap of at least one; finitely many PAKs with different sort
keys, whose directories do not have one path in two spellings; a first tree whose
PAKs are of the versions that exist; finitely many files, each in a directory, with
its lower-cased name among them.

- `StoreStaysInSync`: `InSync`. `SyncInv`: the addresses of two manifests never
  meet, and a manifest is live only once its request has registered it.
- `ManifestsListTheTree`: `ListsTheTree`, for any PAKs, names and number of scans,
  with files replaced under them. `ListInv`: an index, in the cache or about to be
  stored, was read from the version it is filed under if that version is still
  there (`CacheInv`); versions to come are new, so a stale index is never taken for
  a fresh one. A scan of a tree that has not changed since it began shows the
  layers and PAKs visited so far as `VFS` does, and those to come are in order and
  above them (`SteadyInv`).
- `TreeMirrors`: `Mirrors`, of `TreeSpec`, for any files, directories and changes.
  `Mirrors` speaks of an idle watcher only. `TreeInv` says what is still owed
  otherwise: a directory is watched, about to be walked, or deaf, by itself or with
  its layer (`WatchInv`), a dead link
  is about to be reconciled (`DeadInv`), a path shows the right file, or is about
  to be reconciled, or a scan will still come across it (`LinkInv`), where between
  its two halves a reconcile counts as done (`Now`).

`NexusProof`, from: a catalogue of entries with three layers; a `GAME_DIR` whose
layers hold only the operator's files before Nexus has ever run; files that are
lines of fields; ports, search paths and channels that are not empty.

- `LaunchedHasItsData`: `LaunchedIsInstalled`. `Inv` says that nothing runs before
  the installation is done (`Phases`); that every layer is untouched, complete,
  known to be cut or being installed (`Settled`), over all boots and edits; that a
  file of the layer being installed is on disk or still to come (`Work`); and that
  a layer of the plan is settled or still in the list (`Plan`). The list has every
  layer planned (`PlanFacts`, over `FlattenSeq`), and what a line's server needs is
  planned (`NeededIsPlanned`).
- `OperatorFilesStay`: `OperatorFilesKept`, from the same `Inv`: a layer that is
  being installed without force had no file when it was begun (`Work`), and
  Quickstart is never about to write a `servers.ini` that the operator provided
  (`IniKept`).
- `MergesAreRight`: `MergeIsRight`, for every `servers.ini`: the closed form of a
  merged line is what the nested loops of `mergeLaunchGroups` compute. After each
  field of the line, and each field of a group, what is made so far is the fields
  of the turns that are kept, each in its place, and the keys inserted are those
  that groups have had and the line has not (`Made`); within a group, words are
  being skipped exactly when the last key was not free (`Skips`). `GroupTurn` and
  `LineTurn` are one turn of each loop; `GroupsRead` and `IniHolds` say that the
  lines and groups a merge meets are of fields.
- `RecordResolvesItsOwn`: `ResolvedIsOwn`, of `StartSpec`, for any number of runs.
  `StartInv`: every line under way is true by itself (`LinesInv`); the lines that
  the monitor has yet to hear continue, one after the other, what it has collected,
  so that a search path is a prefix of the real one wherever it is cut off
  (`StreamInv`, over `Chained` sequences); and the record is cleared, or has what
  its process said (`RecordInv`).

Every invariant and every action property of the runs is proved. Only
model-checked is liveness, which is out of the prover's reach: `Converges`,
`TeardownCompletes`, `RpcReturns`, `SignalEndsNexus`, `CatchesUp`,
`CaptureReturns`, `ComesOnline`, `StartSettles`, `ListenersEnd`.

## Where the code disagrees with its own documentation

`lifecycle_stops` is checked as a run: `handleEvents` ends with its own request
only, so one open page keeps `server.Shutdown` busy until the 15 s context
expires; `fatalf` then leaves before `StopAll`, and no game server is told to
stop, although `main.go:249` announces "Shutting down gracefully...".

Modelling met these as well. They are reasons for the exceptions in the properties
named, and for hazards without a property.

- `trunk/session.go:151` "No more drops can land after cancel() above, so the count
  is final here": `udpReadLoop` may be inside `sendFrame` and count one more.
- `clients.go:112`: the detach of an ended session deletes by address, and so can
  delete the identity of the session that has taken the address over.
  `NoLeakedIdentity` holds, its converse does not.
- `clients.go:74` "a freshly-stale Connection just returns nil": when the address
  was taken over it returns the new session, which the ban then ends.
- `autoscale.go:240`: draining one of two instances leaves one active, so the next
  sweep makes the drained one active again with its streak at zero; the six polls
  of `docs/SETUP.md:124` never complete with two empty instances.
- `autoscale.go:395`: after a crash, both reconcilers can pass the last-instance
  guard before either stops its instance (`LastNeverDespawned` is stated for runs
  without a crash; the documentation makes no exception).
- `ops.go:93`: a server launched before StartAll has registered the plan takes a
  line that StartAll registers again (`Reachable`).
- `launcher.go:87`: two starts of one server both pass the running check; the
  first process is forgotten. `ops.go:268`: a remove passes while a start is under
  way (`NoOrphan`).
- `launcher.go:246`: a replica that starts while StopAll works through its list
  survives it (`NothingLeftRunning`).
- `ops.go:254`: a remove between the stop and the start of a restart shifts the
  index, and another server is started (`RestartsTheSame`).
- `manifest.go:115` "Returns 404 for unknown or expired hashes": the fast path does
  not look at the expiry, so a hash is served until something prunes.
- `console.go:376` "safetyTimeout only fires if the server hangs and never emits
  END": a full subscriber channel drops END like any line.
- `launcher.go:92`: a callback of the previous run that comes after the record was
  cleared sets the old port, and the real one is then refused (`stale`, in
  `ResolvedIsOwn` and `ComesOnline`).
- `console.go:445`: a banner printed before the monitor subscribes is never seen;
  the port stays unresolved and only the 10 s warning tells. A monitor or a relay
  that subscribes after the reader has ended is never closed (`ListenersEnd` is
  about the ones that came before). The echo of "port" within the listing of
  "path" ends the listing: the search path is a prefix, or, right after the
  heading, not resolved at all.
- `quickstart.go:295`: a layer with any entry counts as installed, so one that a
  boot left half-way stays so (`cut`, in `LaunchedIsInstalled`). A process that
  ends inside `os.WriteFile` leaves an empty `servers.ini`, which is "never
  modified" and with which StartAll fails at every later boot.
- `quickstart.go:170`: a `-game` that a launch line gets from a group is launched
  but not installed; a line that cannot be split is skipped here and fatal in
  `launch_plan.go`. `launch_plan.go:189`: a key repeated within one group is
  dropped.
- `auth.go:373`: keys of `AUTH_ADMIN_ID` are lower-cased and the claims of a token
  are not, so a claim whose name has a capital never matches.
- `clientfs_pak.go:117`: an index is stored under the time and size from before the
  read. This corrects itself at the next scan, unless an old time and size come
  back (a restored backup); the model gives every replacement a new version.
- `manifest.go:24` "content-addressed": the hash is of ref and path, and the offset
  of a PAK entry is applied to the PAK as it is when the address is fetched, so
  after a replacement it serves other bytes until the page asks for a new
  manifest.
- `slist.go:136` "a pure read ... no side effects": it advances the round-robin
  cursor, so with tied instances successive snapshots of an idle system differ.
- `serverfs.go:71`: two spellings of one path overwrite and remove each other's
  link; `serverfs.go:81`: an event that names a directory and is not a creation
  removes the directory's links (`Plain`, in `Mirrors`); `serverfs.go:134`: a file
  linked on behalf of one layer and deleted from another before that one is
  watched leaves a dead link (`blind`).
- `serverfs.go:133`: a layer whose directory is missing is passed over, and the
  directory of the mod is not watched. `docs/SETUP.md:25-26` shows a mod with
  `common/` alone; a `server/` made for it later is never watched, and nothing in it
  is linked until the next start of Nexus, although `serverfs.go:17-19` says
  that the watcher "incrementally reconciles symlinks as files are added, removed,
  or renamed in the source tree". `serverfs.go:103` ignores that a watch was
  refused, with the same effect for one directory (`deaf` and `blind`, in
  `Mirrors`).
- `console.go:369` "returns the lines emitted between the BEGIN and END markers":
  the echo of a "quit" written by `launcher.go:306` meanwhile is among them
  (`QuitEcho`, in `ReplyIsOwn`).
- `sse.go:51`: the second event of a connection can be older than its first
  (`early`, in `ViewNeverRegresses`).

## The plan

Done, in this order, because most depends on the first: the tunnel and its table,
the state channel, the processes and their registry, autoscaling; what surrounds
them: console, manifests, routing, lifecycle, overlay; then the startup of a
server, the boots with installer and launch plan, access and admin requests
around the clients, and the client asset trees under the manifests.

Left to model: `NQChan`, the reliable channel of `client/net_nqchan.c` over a
lossy link, implementing a FIFO; `SSEClient`, the reconnecting consumer of
`client/shell/56-sse.js` behind `StateHub`; that a launch always clears the
in-flight mark.

Proved: all that is listed above. Worth proving next: that `Autoscale` and `Orch`,
which both start and stop instances, implement one abstract pool of processes.
