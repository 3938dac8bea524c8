# A TLA+ model of zfw

zfw is a host firewall for ZimaOS: a Go daemon (`zfwd`) that keeps a rule set,
compiles it into shell scripts and serves a web interface, and a privileged
shell engine (`engine/zfw`) that runs those scripts under a dead-man timer and
persists what the operator confirmed. This directory models it in TLA+, checks
the models with TLC and proves theorems about them with TLAPS.

## Inventory

| Part | State it keeps | Operations | What makes it correct |
|---|---|---|---|
| **Engine** `engine/zfw` | `compiled.sh`, `compiled.restore.sh` (read), `applied.sh`, `committed.sh`, `zfw.service`, the iptables chains, `zfw-deadman.timer` | `apply [--safe]`, `commit`, `revert`, `boot`, `_autorevert`, `_migrate-persist`, `apps`, `status` | unconfirmed rules are never live without a rollback net; only a confirmed ruleset is replayed at boot; a rollback leaves nothing behind |
| **Server** `internal/handlers` | `mu`, `appsMu`, `lastCompiled`, `lastApplied`, `appsScript`, `appsForce`, `appsOpen`, `appsKick` | save rules, defaults, peers/receive, recompile, apply, commit, revert, apps | no lost update of `rules.json`; what is compiled is the saved rule set against a current inventory; a connection to a newly denied port is flushed as best it can |
| **New-app prompt** `internal/apps`, `handlers/apps.go` | `apps.json`, `apps.sh`, the app chains | Detect, Withdraw, Active, decide, mode, sync loop | an answer is in force until the next apply takes over, and never beyond what was answered; the chains eventually hold the current content |
| **Compiler** `internal/compiler` | none (pure) | Compile, CompileRestoreScript, CompileApps, LiveSnapshot, AuditV6 | both scripts decide alike and as the rules read; no half-written state loses or opens anything; a validated rule set never aborts an apply |
| **Rules** `internal/rules` | `rules.json`, `rules.json.bak.v<N>` | Load (with migration), Save, Validate, Disposition, ReachOf, Decides, NewlyBlocked, Defaults, FromTiers, Templates | the queries agree with the compiled chains; a migration loses nothing |
| **Start-up** `cmd/zfwd` | none | seed, first recompile, listen | a seed knows every port; a restart resumes |
| **dockerwatch** | event signal, debounce timer | Run, consume, fire | every burst of events the stream delivers is followed by a recompile |
| **Feeds**, **Geo** | cached lists, ipset files, live and temporary ipsets, `lastKept`, `protected`; the country index | Ensure, Refresh, swapLive, Protect; LookupBatch | a set in use is never partial and never blocks the operator; a bad download leaves the old content; a lookup is current |
| **Limiter** `handlers/middleware.go` | token buckets per client and one aggregate | allow, evict | a noisy client costs the others nothing |
| **Auth** | key cache | currentKeys, refreshKeys, Verify | a withdrawn key ends in time, outages and concurrent refreshes included |
| **Audit history**, **events**, **peers**, **gateway**, **watchdog**, **notify**, **update**, **conntrack**, **system** | small files, sockets | - | read-only probes or one-shot I/O |

How they interact. A browser calls the daemon's handlers. A save, the default
rule set, a peer's push and a container event (dockerwatch) rewrite
`rules.json` and the compiled scripts under `Server.mu`; `apply`, `commit` and
`revert` call the engine while holding `mu`. The engine is a separate process
per call. The root shell and `install.sh`, the dead-man service and
`zfw.service` (at boot and, through `PartOf=docker.service`, at every dockerd
restart) run the same script with no lock shared between them and the daemon.
The app loop runs every minute and when kicked, under `appsMu`, which is taken
before `mu` and never inside it.

Hard to test in this code: the order of steps of engine processes that overlap;
the timer firing inside another command; a crash, SIGKILL (`runEngine` after
90 s) or reboot between two steps; one of several file or systemd operations
failing; state read before a lock and used under it; flags consumed before the
work they ask for succeeds. `PROJECT.json` lists each hazard at its line, with
the properties that would catch it.

## Modules

| Module | What it is |
|---|---|
| `ConfirmedBoot` | what the engine promises about boot: only a ruleset that ran to its end becomes the one boot replays, and only by being confirmed |
| `ZfwEngine` | the engine, its files, the chains, the timer, systemd and the processes that run it |
| `MCZfwEngine` | `ZfwEngine` with rulesets for TLC |
| `ZfwEngineProofs` | type correctness, complete teardown, refinement of `ConfirmedBoot`, saves never reach boot, the confirmed copy, the rollback net |
| `ZfwApps` | the new-app prompt: questions, answers, the app chains, and the applies and edits beside them |
| `MCZfwApps` | `ZfwApps` with ports for TLC |
| `ZfwAppsProofs` | type correctness |
| `ZfwAppsSafetyProofs` | no port open wider than its answer, no connection outlives a narrowing, answers do not stack |
| `RuleRegister` | what the daemon promises about its rule set: an apply puts in force what is saved, and nothing else does but a replay of what was confirmed |
| `ZfwServer` | the daemon around `rules.json`: requests, `Server.mu`, the scripts, start-up, migration, the watcher |
| `MCZfwServer` | `ZfwServer` with rule sets for TLC |
| `ZfwServerProofs` | types, refinement of `RuleRegister`, deny knows its ports, blocked connections are cut, old rules are kept |
| `ZfwRules` | rules, Validate, the sources of rule sets, the questions answered from a rule set |
| `ZfwCompiler` | the chains a rule set becomes, and what the kernel decides with them |
| `ZfwLive` | applies, a command at a time, over the chains of `ZfwCompiler` |
| `MCZfwLive` | `ZfwLive` with addresses, rule sets and a container |
| `ZfwLiveProofs` | what the compiler emits for every valid rule set, and the safety of both scripts |
| `ZfwDecisionsProofs` | the chains decide as the rules read; what the IPv6 audit and Exposure say is true |
| `ZfwLists`, `MCZfwLists` | the lists behind feed and country sources, from the publisher to the kernel's sets |
| `ZfwListsProofs` | types, and the three safety properties of the lists |
| `ZfwGate`, `MCZfwGate` | the session check, the rate limiter and the country lookup a request passes |
| `ZfwGateProofs` | types, lookups, withdrawn keys, rotations, the limiter |

`ZfwLive` composes the compiler with the rule queries and the kernel;
`ZfwServer`, `ZfwApps` and `ZfwEngine` each contain an apply, at the granularity
their properties need: a record, a set of openings, the steps of a process.

### ZfwEngine

A process is an invocation of the script: by the daemon, the root shell or
`install.sh` (`Clients`), by the dead-man service or by `zfw.service`. `pc`, `op`, `path`
and `script` are its place, its verb, the file `SCRIPT` names and what its bash
read from it. One action is one externally visible effect:

| Code | Actions |
|---|---|
| `apply [--safe]` 251-289 | `StartApply`, `Run4`, `Run6` (the script fills the IPv4 chains, then the IPv6 ones), `Record`, `ConfirmPlain` |
| `arm_deadman` 228-248 | `Rearm` (the old timer stops), `Arm` (systemd-run) |
| `revert`, `disable_persistence` 134-189 | `StartRevert`, `Undo4`, `Undo6`, `Unpersist`, `Forget`, `Disarm` |
| `commit` 340-371 | `StartCommit`, `StopTimer`, `Promote`, `Install`, `Enable` |
| `boot` 290-314 | `BootStart`, then the steps of an apply |
| `_autorevert` 387-391 | `Fire`, then the steps of a revert |
| `_migrate-persist` 315-339 | `StartMigrate`, `Seed`, `Rewrite` |
| `recompileLocked` (handlers.go) | `Recompile` |
| `runEngine` (firewall.go) | `Kill`, and `ArmedByDaemon`: the 90 s deadline ends a daemon's Safe-Apply before its 120 s timer elapses |
| systemd, dockerd, the host | `BootStart`, `DockerRestart`, `Reboot` |

`accepted` and `tried` are history variables: the rulesets the operator has
accepted (a Confirm accepts what the chains hold when it is asked for, a plain
apply what it runs) and those that ran to their end since the last teardown.
`Env` says which faults and overlaps a run allows, so that each run and each
theorem names exactly the assumptions under which its property holds.

Abstractions: a script is a model value; the chains are grouped by address
family, the outbound and the app chains are left out; `secure_file` always
accepts; `systemctl` calls whose failure the script ignores always succeed.

### ZfwApps

One thread at a time works under `appsMu`: the loop or one of the two handlers,
which end in the same sync. `pc` is its place, `draft` the `apps.json` in its
hands, `loaded` the rules it loaded; each action is the code between two
effects others can see.

| Code | Actions |
|---|---|
| `RunApps`, `KickApps` (handlers/apps.go 46-82) | `Wake` |
| `syncAppsLocked` 92-192 | `ReadInventory`, `SyncWithdraw`, `SyncDetect`, `SyncWrite`, `FillDocker`, `FillHost`, `SyncFlush` |
| `apps.Withdraw`, `Detect`, `Reach`, `Active` | the operators of the same names (`CompileApps` for `Active` and `AppLines`) |
| `flushNarrowedApps` 202-239 | `Narrowed`, `Flush` |
| `POST /api/apps` | `SetMode` |
| `POST /api/apps/decide` 346-439 | `DecideLoad`, `DecideSave`, `DecideRecord`, then a sync |
| `POST /api/apply`, `zfw apply` | `Apply`, `ApplyRecord`, `ApplyReply` |
| `POST /api/commit`, `/api/revert`, the dead-man | `Commit`, `Revert`, `Deadman` |
| `POST /api/rules` | `SaveRules` |
| containers, clients, a restart of the daemon | `AppStarts`, `AppStops`, `Connect`, `Restart` |

`admits` is how far the app chains open each port, `conns` the connections that
came in through them. A flush of connections is best-effort, as in the code: under
`"flushfail"` it drops some or none of them, the sync returns nil all the same, and
the record `appsOpen` has moved on. `appsScript`, `force`, `appsOpen` and `lastApplied` are
the daemon's memory and die with it; `file`, `saved` and `applied` are files.

Abstractions: a port is TCP and belongs to one container, so it is the key of
its entry; a rule names one port, and ids grow as `Order` does; the policy is
deny and the LAN is configured; the IPv6 chains follow the IPv4 ones, so a
rewrite has two halves, docker and host; the inventory is read whole or not at
all; an apply compiles the saved rules and the running containers of the moment
it runs (dockerwatch and every save keep the scripts current). A dead-man in
the middle of another command is the subject of `ZfwEngine`.

### ZfwServer

A process is a request, start-up (`"main"`) or the watcher (`"watch"`). `pc` is
its place, `job` what it was asked, `got` the docker inventory it read before
it took `mu`.

| Code | Actions |
|---|---|
| `seedRulesIfMissing` (main.go 170-231) | `MainSeed`, `MainReseed` (the second read of the inventory) |
| `main`, systemd | `Boot`, `Listen`, `Crash` |
| the handlers up to their prefetch | `PostRules` (and a peer's push), `PostDefaults`, `PostApply`, `PostCommit`, `PostRevert` |
| `prefetchForCompile` (handlers.go 260-333) | `Prefetch`, `ListFails` |
| `rules.Load` with migration (rules.go 278-317) | `Backup`, `Rewrite`, `MigrationFails` |
| `s.mu.Lock` and the rest of the handlers | `Lock`, `Save`, `Compile`, `Refuse`, `EngineApply` with its `Flush`, `EngineFails`, `EngineCommit`, `EngineRevert` |
| `Watcher.Run`, `consume`, `fire` | `Connect`, `Seen`, `Arm`, `Fire`, `Ended` |
| docker, `zfw.service`, the dead-man, clients | `ContainerEvent`, `DockerStops`, `DockerStarts` with `Replay`, `DeadMan`, `ClientConnects` |

A rule set is a model value, a script the rule set and the inventory it was
compiled from, an inventory its version. `migrateMu` is "nobody else is between
backup and rewrite". The record of `applied.sh` is `live`; the confirmed copy, while
`zfw.service` is enabled, is `boot`, and a restart of dockerd may replay it. Clients
use one port, which the rule sets of `Open` leave open; `clients` says whether those
connected came in under the rules this daemon applied last ("known") or not
("other"). An engine call is one step here; its own steps, and the root shell, are
in `ZfwEngine`. Left out: the prompt with its own load and save (`ZfwApps`), the
lists (`ZfwLists`).

### ZfwRules, ZfwCompiler, ZfwLive

`ZfwRules` holds the pure operators of `internal/rules` under the names of the
code. A source is the set of addresses it matches; ports and orders are the
code's numbers. `ZfwCompiler` builds each chain from the same pieces as the code
(`hostLines`, `portsForZone`, `dnatGuardLines`, ...). A line is the set of
packets its match names and a target; `Sifted` runs the packets of a chain
through its lines. The two builders of the code (one writes bash, one the
restore document) emit the same lines, so the model has one; what differs is
the order in which a script writes them. Packets differ in flow (to the host, to
a published port, from a container, from the host), peer, protocol, port,
conntrack state and hour; a peer over the rate limit is the hour "burst".

`ZfwLive` turns a compiled rule set into a program: flush, append and hook for
each chain in bash mode, a swap of each table in restore mode, then hooks and
teardowns of what this rule set does not use. `Apply` starts one, `Step` executes
a command, `Revert` is the engine's after a failed command, the dead-man or the
operator. `Rejected` is what iptables itself refuses. `Resolved` is the binding
of a rule to its container. The rules read as a specification
(`SpeaksAbout`, `Denied`) are independent of the compiler: zone, direction,
family, protocol, port, source, hour, and the lowest order first. `Exempt` is the
traffic the scripts pass without asking a rule: the host's own, containers and
mesh, ping, DHCP, the transport of the mesh, mDNS on the link.

Left out: LOG lines, the app chains (they add ACCEPTs after all rules, see
`ZfwApps`), the probing for an iptables backend, extra bypass interfaces (one
"mesh" interface stands for all).

### ZfwLists

A process is a request (`PostRules`, `PostApply`) or a refresh (the ticker, the
button). `at` is the list it works on, `kept` what it read and has not written.

| Code | Actions |
|---|---|
| `Manager.Protect` | `Protect` |
| `feeds.Ensure`, `geo.Ensure`, `fetch` | `Fetch`, `FetchOver` |
| `filtered`, `render`, `renderIpset`, `writeAtomic` | `Render`, `Write`, `Keep` |
| `swapLive` (feeds.go 468-513) | `ListLive`, `Load`, `Add`, `LoadFails`, `Swap`, `Destroy` |
| the end of a save, an apply | `Lock`, `Flush`, `Fill`, `FillFails` (the restore fails, or `runEngine` kills the engine) |
| publishers, time, the daemon | `Publisher`, `Ages`, `Restart` |

A list is a set of entries in successive versions; a publisher may also serve
something the bounds of a feed refuse. An entry can be special use, or overlap a
LAN. Countries are not filtered and not refreshed, as in the code. When the filter
leaves nothing of a list its render fails: a request ends there, a refresh goes on.
An apply loads a list into the very set the chains match; `loading`, a history
variable, names the lists an apply has begun to load and nobody has loaded or
swapped in since. `Restart` may come at any moment and takes a running engine with
it. A download and the rename that publishes it are one step, so of two fetches
the later one to finish is the newer; no property depends on it.

### ZfwGate

A request passes the session check, then the limiter, then the lookup. Each step
is the code between two lock operations.

| Code | Actions |
|---|---|
| `currentKeys`, `refreshKeys`, `Verify` (auth.go) | `Session`, `Fetch`, `Store`, `Reread`, `FetchFails`, `Check` |
| `keyedLimiter.allow`, `rateBucket.allow` (middleware.go) | `Track`, `Allow`, `Refill` |
| `LookupBatch`, `ensureIndex` (geo.go) | `Ask`, `Compare`, `Build`, `Publish`, `Answer` |
| the user-service, downloads, time | `UserService`, `ZoneChanges`, `Tick` |

Durations are ages that stop at the bound they are compared with. An evicted
client's bucket may still be in the hands of a request, so a client has more
than one.

## Runs

Rulesets are interchangeable model values: three are enough for one confirmed,
one under test and one only saved; two where only two roles occur. Symmetry is
used except where liveness is checked. No counter of the engine needs a
bound: its state space is finite. Deadlock is checked everywhere but in
`ZfwServer`.

| Run | What it asks | Result |
|---|---|---|
| `engine_serial` | non-overlapping invocations under every fault: types, refinement of `ConfirmedBoot`, complete teardown, saves never reach boot | holds |
| `engine_deadman` | the dead-man fires inside any other command; failing copies, units and scripts: the net, and that unaccepted rules go away | holds |
| `engine_confirm` | restore mode, dockerd restarts, unwritable restore script, failing copies of the confirmed script: what is confirmed was accepted while it was live, and the net under boots | holds |
| `engine_migrate` | a host from v1.0.26, with the daemon, the root shell and `install.sh`: after `_migrate-persist` saves do not reach boot | holds |

Fairness (`FairSpec`): a process that runs takes its next step, an elapsed timer
fires, a queued start of `zfw.service` happens. Nothing makes the operator start
or finish anything: `UnacceptedGoesAway` speaks of behaviours in which the
clients stop. Runs with `kill` make no liveness claim.

Entries, chains and rules of different ports meet only in the two halves of a
rewrite, in an answer and in a save: `apps_answers` and `apps_block_ignored`
have a docker port and a host port, the others one. `MaxOps` bounds the moves
of the environment (containers, answers, edits, applies, failures): three with
two ports, four with one, suffice for app, apply, answer and a change of mind,
which every mutant needs; theorems 7-10 lift both bounds for what they prove. The steps of a sync, the dead-man, Confirm and the
clients are not bounded.

| Run | What it asks | Result |
|---|---|---|
| `apps_answers` | two ports, clients, edits, teardowns and failures: types; a port has one rule of the prompt; after a sync that returns nil no app chain opens a port wider than its answer or the mode; a connection does not outlive the narrowing of its port (conntrack can be flushed in this run) | holds |
| `apps_catch_up` | once nothing happens any more, entries and chains get in step | holds |

Fairness of `ZfwApps`: the loop's ticker never stops and a sync goes on (`Sync`
as a whole: the steps of one sync follow each other); a handler between its two
files, and an apply between the engine and its reply, continue. Confirms,
answers and containers need never come. A failing step spends from `MaxOps`, so
failures end.

| Run | What it asks | Result |
|---|---|---|
| `live_apply` | every packet is decided as the rules read; no packet is dropped on the way that neither rule set drops, nor let in (restore mode) that both drop; established connections survive; scripts parse; Exposure claims no less reach than there is; the IPv6 audit warns of nothing that works | holds |
| `server_register` | two requests, start-up, the watcher, all failures but those of the migration and of conntrack, an outage with a replay, a crash: `RuleRegister`, deny knows its ports, an apply cuts what it blocks | holds |
| `server_watch` | every failure: container events are followed by a recompile that has seen them; `mu` is released; a migration rewrites only what it has kept | holds |
| `lists_refresh` | one request and the ticker: live sets are whole, spare special use and the LAN, catch up; what was there outlasts a payload or a list that cannot be used | holds |
| `lists_two_refreshes` | "loads it under a temporary name and swaps, because a flush+add on the live set is not atomic" (feeds.go:393) | violated: the ticker and the button share the temporary set |
| `gate_requests` | withdrawn keys end, a rotation is followed, a noisy client pays alone, a lookup is current | holds |

Bounds. `live_apply`: rule sets are chosen, not enumerated: the defaults, a
legacy file, templates, and one for each mechanism whose lines meet in a chain
(narrow denies over wide allows, rules out of order, schedules and limits,
country and feed sources, IPv6 sources, outbound, container-bound, disabled), and
one Validate refuses. Any of them follows any other, in both modes, with the
container running or not. Eight addresses have every interface and family the
chains ask for; ports 22, 80, 5353 and 68 are on the host, published, mDNS and DHCP;
`MaxMultiport` 2 instead of 15 makes lists of three split. There are no bounds
on steps: the state space is finite.

`server_register`: two requests suffice for what one can do between the
prefetch and the lock of another; three operations for a save under an apply
and a second apply that compares with the first, or a confirm and a replay in
between. One inventory change makes
"older" and "unreadable" differ, one crash reaches every place. Theorems 11-15
lift all of these. `server_watch` has two changes, so that an event may arrive
at every place of the recompile for the one before, and every failure: with
`diskfail` a migration is left to requests, which then meet saves and each other.

`lists_refresh`: one feed in three versions, old, new, and one the filter leaves
nothing of; an operation each for a save and an apply; the cached list may grow too
old once; two crashes, killed applies or failing ipset commands, so that one may follow
another. A feed beside a country is in the two disagreements, which have two LANs or
two refreshes, and in the proofs.

`gate_requests`: readRL is 60/5 per client and 180/15 together, mutateRL 10/1
and 30/3, so the aggregate is three clients' worth; the instance has two
clients' worth and three clients. `MaxTracked` 2 makes the third evict. A key
rotation, an outage and a fetch that lasts a tick may fall anywhere. `ZfwServer`, unlike the others, really stops once its operations, events
and crashes are used up.

Fairness. `ZfwServer`: a request runs on, `mu` is handed over in turn (Go's
mutex does not starve a waiter), the watcher and start-up are goroutines of their
own, systemd restarts the daemon. `ZfwLists`: goroutines run on and the ticker of
`RunFeedRefresh` ticks; nothing makes a publisher recover, `LiveCatchesUp` speaks
of behaviours in which it does. Failing steps are bounded or spend from a bound.

Each property of a passing run has a mutant in `PROJECT.json`, a plausible bug
(several are bugs the code once had) under which TLC finds it violated. The
mutants stand beside the definitions they change.

### Known disagreements

Configurations that are not among the runs: each checks one sentence of a comment or
document, and TLC finds it violated (`tlc -config X.cfg M`).

| Configuration, module, property | The sentence | What the code does |
|---|---|---|
| `engine_failed_record`, MCZfwEngine, `CommittedWasAccepted` | "Confirm will refuse until the next apply" (engine/zfw:281) | an older `applied.sh` stays and is promoted |
| `engine_plain_timer`, MCZfwEngine, `PlainApplyHasNoDeadman` | "No dead-man: the operator made this live on purpose" (283) | an earlier Safe-Apply's timer stays armed |
| `apps_lost_rewrite`, MCZfwApps, `ChainsCatchUp` | "Rewrite when the content changed, and after every apply/confirm/revert" (apps.go:146) | the flag is consumed before `zfw apps` succeeds |
| `apps_block_ignored`, MCZfwApps, `NoWiderThanAnswered` | an answer "works immediately" (BEST-PRACTICES.md:153) | after half a rewrite the way back is taken for done |
| `apps_answer_stacks`, MCZfwApps, `AnswersDoNotStack` | "replaced, not stacked" (apps.go:391) | the rule is saved, its id is not |
| `live_narrowed`, MCZfwLive, `FlushCovers` | "Ignoring `-s` can only ever flush MORE than strictly necessary, never less" (newlyblocked.go:14) | an allow narrowed from any to one address still reads as allow, and the others' connections stay |
| `live_fetching`, MCZfwLive, `NothingReachesClosed` | "closed: nothing reaches it" (reach.go:23) | an outbound allow of zone docker is an ACCEPT in `ZFW-FWD-OUT`, hooked in front of `DOCKER-USER`, and matches inbound forwarded packets too |
| `live_mirrored`, MCZfwLive, `MirroredIsWritten` | "Mirrored is false when the rule contributes no line at all to ZFW-IN6 / ZFW-OUT6" (v6audit.go:6) | an outbound rule of zone docker counts as mirrored: `AuditV6` asks `outboundLines6`, which ignores the zone that `zfwOut6Rules` then filters by |
| `server_off_window`, MCZfwServer, `EveryBlockedIsCut` | "tear down conntrack for the ports this apply switched from allowed to denied" (handlers.go:856) | `lastApplied` outlives reverts, dead-men and replays: a connection made while the firewall was off, or under replayed rules, is compared with rules that already denied it, and stays |
| `server_in_sync`, MCZfwServer, `InSync` | the watcher "keeps the compiled ruleset in sync" (dockerwatch.go:1) | an inventory read before the lock is compiled after a newer one; events during the backoff are not seen |
| `server_seed`, MCZfwServer, `SeedIsWhole` | "a rule set seeded now would permanently miss published ports" (main.go:185) | the inventory is read a second time and that error is dropped |
| `lists_protect`, MCZfwLists, `RefreshSparesLAN` | "Safe for concurrent use: the periodic refresh and a rules POST may render at the same time" (feeds.go:158) | the ranges protected are the ones of whoever called Protect last |

### Also seen

TLC showed these while the models were written. No run repeats them; each
hazard they belong to is listed in `PROJECT.json`.

- A save while `zfw apply` of the root shell (or the start of a unit from
  v1.0.26) runs: `applied.sh`, and with a plain apply `committed.sh`, become a
  ruleset that never ran (engine/zfw:281, 285). The daemon's own applies hold
  `mu` and are safe.
- Confirm while the dead-man service is at work enables the unit and loses
  `committed.sh`; boot then falls back to `compiled.sh` (356, 301).
- A second Safe-Apply stops the timer of the first; when systemd-run then fails,
  the first one's rules stay without a net (229-236).
- `applied.sh` survives a reboot that clears the chains, and Confirm promotes it
  (40); a plain apply installs no unit, so nothing replays it (285).
- An apply of the root shell after a dead-man creates the app chains empty, and
  nothing tells the daemon to fill them (apps.go:149).
- A save of the rules between the load and the save of an answer is overwritten
  (apps.go:380, 417); answering again after an apply leaves the applied rule in
  force in front of the app chain (392).
- In restore mode, when `compiled.restore.sh` cannot be written, the next apply
  runs the older one and reports success (handlers.go:440); this is why
  theorem 12 assumes the write succeeds in that mode. A failed migration at
  start-up leaves it to a later request, whose rewrite is outside `mu` and may
  overwrite a save (rules.go:313), of which no copy is kept.
- A flush that fails is logged and never repeated: after a sync `appsOpen`, after an
  apply `lastApplied` has moved on (handlers/apps.go:212, 234; handlers.go:865).
  Theorems 9 and 14 assume that conntrack can be flushed.
- An engine killed in the middle of an apply's `ipset restore` leaves a part of the
  list in the set that the chains of an earlier apply match, until the next load or
  refresh (compiler_restore.go:103).
- `Disposition` and `ReachOf` take the rules as stored, the compiler sorts them
  by `order` (a peer's push may differ): with a deny from anywhere stored before an
  allow of a lower order, Exposure calls a port closed that is open (reach.go).
  Theorem 32 assumes `Ordered`. `ReachOf` decides on IPv4 only.
- A deny from anywhere of zone auto that lists a published port closes it in the
  docker chain only. Once the container has stopped, the port is the host's: a
  later allow of zone host lets everyone in while Exposure still calls it closed
  (compiler.go:41, reach.go:72). Theorem 32 assumes `Settled`.
- In the IPv6 DOCKER-USER the rules are asked before container traffic returns,
  in the IPv4 one after it (compiler_restore.go:448).
- The ports of a list in zone auto go to the docker chain when they are published
  under any protocol, the rule's or not (compiler.go:41, reach.go:72).
- An outbound deny of zone docker also stops inbound packets to a published
  port, for the same reason as `live_fetching`. When such a rule set replaces one
  that allows the port, or the reverse, a restore apply opens for a moment what
  is closed before and after: this is why theorems 28 and 29 assume that
  outbound rules of containers name their peers.
- A feed whose entries are all filtered passes the bounds of `fetch` and replaces
  the cache; every render then fails, and so do the saves and applies of rule sets
  that use it, until the publisher changes (feeds.go:359). The ipset file and
  the live set stay as they were.
- With more than three busy clients the aggregate bucket refuses quiet ones, and
  a client that was evicted comes back with a full bucket (middleware.go:111).

## Theorems

The engine's proofs are for every set of rulesets and both apply modes.

1. `TypeCorrect`: `Spec => []TypeOK`, for any clients, host and faults. The
   inductive invariant `TypeInv` adds `PathOK`: a process that will read its
   script has one, otherwise `Read` has no type.
2. `TeardownCorrect`: without overlapping invocations, a teardown that ends
   leaves nothing, under all other faults and for any clients. `TeardownInv`
   says that at most one process runs (`Alone`) and what a teardown has already
   emptied; a second process would refill it.
3. `EngineImplementsConfirmedBoot`: the daemon's engine refines `ConfirmedBoot`
   on hosts that did not come from v1.0.26, with non-overlapping invocations and
   all faults. `BootInv` adds that the files hold rulesets that ran, that a
   process' script is unchanged since it read it (this is where the daemon's `mu`
   matters: a root shell has no such guarantee, see "Also seen"), and that
   an enabled unit has its confirmed copy, so boot never falls back
   (`ReplayIsCommitted`). Each action then maps to `Run`, `Confirm`, `Withdraw`,
   `Forget` or a stutter.
4. `SavesNeverReachBootCorrect`: from the same invariant.
5. `CommittedWasAcceptedCorrect`: as 3, without SIGKILL, reboot or a failing
   record. `AcceptInv` says that `applied.sh` was accepted or is what the chains
   hold, except while a script runs or a teardown is under way, when nothing
   can confirm; each excluded fault leaves an older one beside newer or empty
   chains (`engine_failed_record` is one).
6. `NetCoversCorrect`: the net covers unaccepted rules although the dead-man may
   overlap every command, if the daemon is the only client and there is no
   SIGKILL, arming failure, reboot or dockerd restart; scripts, copies and units
   may fail. `NetInv` says that a Safe-Apply past `arm_deadman` has the timer
   armed and the dead-man idle, that a plain apply loads only what was accepted,
   and that a commit about to stop the timer, or a teardown about to end, has no
   unaccepted rules live.

The prompt's proofs are for every set of ports and every bound; `None` is
assumed to be no entry and no opening.

7. `TypeCorrect` of `ZfwAppsProofs`: `TypeInv` adds that a thread past a load
   has what it loaded, and that the entry an answer is for is there.
8. `NoWiderThanAnsweredCorrect`: for every environment without `enginefail`.
   `ChainInv` says what the chains hold in terms of the script remembered as
   done (`MemoryInv`: that script, or nothing since a teardown), how far a
   rewrite has come (`FillInv`), and that the script of a sync follows from the
   `apps.json` it saved (`ScriptInv`). `apps_block_ignored` shows that the
   hypothesis is needed.
9. `NarrowedIsCutCorrect`: for every environment in which conntrack can be flushed
   (no `flushfail`), without `enginefail` and without restarts of the daemon, which
   forgets what `appsOpen` remembers.
   `CutInv` adds that what the chains let in, now or when a connection came, is
   covered by `appsOpen` or by the script this sync has just written, so that the
   next flush knows about every connection.
10. `AnswersDoNotStackCorrect`: for every environment in which nothing fails or
   restarts between the two files of an answer and no entry expires.
   `OwnerInv`: every rule of the prompt is the one its port's entry names,
   except while an answer is between its files; `IdInv`: ids are unique, which
   a save that brings deleted rules back could break. `apps_answer_stacks`
   shows that the hypothesis is needed.

The daemon's proofs are for every set of requests and rule sets and every bound.
12-14 assume `SafeEnv`: the migration of `rules.json` does not fail, and in
restore mode `compiled.restore.sh` can be written ("Also seen" says what happens
otherwise). 11 and 15 assume nothing.

11. `ServerTypes`: `TypeInv` adds that a process past a place
   has the job of it, that `mu` is held exactly inside the critical section
   (`LockInv`), and that requests begin after start-up (`PhaseInv`).
12. `AppliesWhatIsSaved`: `ZfwServer` refines `RuleRegister`; the replay of the
   confirmed rules at a dockerd restart is a step of it. `ServerInv` adds
   `ApplyInv` (between compile and engine the script the engine will pick is that
   of `rules.json`, which only the holder of `mu` can change) and `FileInv` (only
   start-up, alone, meets a file of an older schema; without it a migration could
   change the file under a holder of `mu`).
13. `DenyKnowsItsPorts`: `ScopedInv`, which says the same of the scripts on disk,
   including the stale one an engine might pick and the confirmed copy.
14. `BlockedConnectionsAreCut`: where conntrack can be flushed. `KnownInv`: while a
   connection is "known", `lastApplied` is a rule set that leaves the port open.
   A revert, a dead-man or a replay does not disturb that, since none of them
   touches `lastApplied`; an apply compares with it before it replaces it. What
   connects while other rules, or none, are in force is not known, and is not cut
   (`server_off_window`).
15. `OldRulesAreKept`: `MigInv`: between a backup and its rewrite the bytes kept are
   the ones to be written, and the file is of the new schema or still holds them,
   whoever saves, migrates or crashes in between. It does not say that no save is
   lost there, which is false.

The proofs about the lists are for any number of requests and refreshes, every
order of feeds and countries and all versions of them, those the filter leaves
nothing of included. Assumed: feeds come first in the order, as in the code.

16. `ListsTypeCorrect`: `TypeInv` adds where a process may stand in its list.
17. `LastGoodListsAreKept`: by the same invariant (`BehindInv`) a list is cached
   whenever it is rendered, and a render writes only what has entries.
18. `ListsNeverBlockOwn`: `CleanInv` follows the entries of a feed through ipset
   file, `lastKept`, the hands of a process, temporary and live set: each has
   been filtered, and nothing is joined that was not.
19. `LiveSetsAreWhole`: `WholeInv` says that files, what a process carries and the
   temporary set of a refresh about to swap are whole; a set an apply has begun to
   load is in `loading` until it has been loaded or swapped, so that one whose
   load was killed is exempt until then. It assumes that refreshes do not overlap, which
   `lists_two_refreshes` shows to be needed.

The proofs about the gate are for any number of clients, requests, keys and
zones. `LimitAssumption` relates rate, capacity and aggregate as `readRL` and
`mutateRL` do: the aggregate holds no more than `MaxTracked` full buckets, so it
refuses before the map of clients is full.

20. `GateTypeCorrect`: `DataOK` adds that exactly the tracked clients have a
   bucket, and that `order` lists each of them once (`OrderInv`).
21. `LookupsAreCurrent`: `IndexInv`, the published index and every index being
   built are no older than the fingerprint they carry.
22. `WithdrawnKeysEnd` and 23. `RotationsAreFollowed`: `GoneInv` bounds the age of a
   withdrawn key by that of the fetch that brought it, in the cache and in the
   hands of every refresh; `CalmInv` says the same for a user-service that
   answers. The proof showed that a key published again must start afresh.
24. `NoisyPaysForItself`: by `LimitInv`, while so few clients have come that their
   capacities fit the aggregate, nobody has been evicted and the aggregate misses
   no more tokens than the clients' buckets do together. About more clients, or
   after an eviction, it says nothing: the aggregate then refuses quiet clients too.

The proofs about applies are for every set of rule sets and containers. A rule
set is any record of the types of rules.go, with rule lists of any length, ports,
addresses and orders; `Validate` alone stands between it and an apply. The
lemmas follow the compiler: `RuleLinesFit`, `HostPart`, `DockerPart`, `OutPart` and
`ChainsFit` say of what form the lines of each chain are, by induction over the
ports and the rules (`SetInduction` states induction as a property of one named
set, which needs no operator as parameter); `SiftedSteps` and `PassDecides` say what
packets such lines can decide; `ClosedJoin` and `ProgramIs` what the two scripts do
to a chain, from the first command to the last. `LiveInv` is inductive: between
applies the chains and their hooks are those of the record; during one, each
chain is empty, as before, or a beginning of the new one (`Begun`), and a
command that finishes it, and one that hooks or unhooks it, are still to come
(`ToCome`).

25. `LiveTypeCorrect`: from `LiveInv`.
26. `ScriptsAlwaysParse`: each line names addresses of one family and at most
   `MaxMultiport` ports, whatever the list (`MultiportIs`).
27. `EstablishedAlwaysSurvives`: every chain opens with the conntrack line
   (`Opens`), and so does every beginning of it that is not empty.
28. `NothingIsLostOnTheWay`: a beginning of a chain drops no more than the chain
   (`SiftedGrows`), and a packet passes one chain that may drop it (`OwnApart`).
   It assumes that outbound rules of containers name their peers (`NamesPeers`):
   the rules of `ZFW-FWD-OUT` then match only packets that leave, and its ACCEPTs
   open nothing that `DOCKER-USER` closes.
29. `RestoreIsAlwaysAtomic`: under the same hypothesis. In restore mode a chain
   goes from whole to whole, and one that both rule sets use stays hooked.

`ZfwDecisionsProofs` adds what the lines say. `Fate` is what a sequence of lines
does with a packet: stop it, pass it, or leave it to the next. `FateOfWrap` and its
like show that the lines of one rule, over all its ports, schedules and limits, leave
to it exactly the packets `SpeaksAbout` names, and give them its verdict; the first
rule in the order of `sorted` that speaks about a packet decides (`RulesFate`,
`ForemostIs`). Each chain then opens with lines only `Exempt` or established packets
meet, asks the rules and closes with the policy (`HostChainDecides`,
`DockerChainDecides`, their IPv6 counterparts and `OutChainsDecide`), and a packet
meets the chains of its flow only (`HomeOf`). `ConfigurationDecides` puts this
together, and between applies `LiveInv` says that the kernel holds a configuration
(`AtRest`). `PeerAssumption` is what the interfaces mean: an address has one family,
and only the host's own arrives on `lo`.

30. `DecisionsAlwaysFollowRules`: if outbound rules of containers name their peers
   (`NamesPeers`, as in 28), a new packet is dropped exactly if `Denied` says so, for
   every valid rule set, inventory, mode and history of applies and reverts.
31. `V6AuditIsAlwaysHonest`: without hypotheses. In a blind rule set no rule that
   reaches IPv6 allows anything, so `Denied` holds of every packet from outside
   (`BlindDenies`); a rule that is not mirrored writes no line into `ZFW-IN6` or
   `ZFW-OUT6`, and switching it off leaves the order of the others as it is
   (`SortedAlike`). That every rule called mirrored does write a line is false
   (`live_mirrored`).
32. `ExposureIsAlwaysHonest`: from 30. `ReachOf` reads the rules by code of its own;
   `ReachCovers` shows that its answer covers what the compiler's reading lets
   through, if a deny from anywhere does not come before an allow of a lower order
   (`Ordered`), and none of zone auto lists a published port (`Settled`). Both
   exceptions are real ("Also seen"). Containers may come and go after the apply.

`MCRuleSets` satisfies the hypotheses of 28-30 and 32; "Also seen" and
`live_fetching` show what breaks them without.

Model-checked only: the migration of old hosts; and liveness (`ChainsCatchUp`,
`UnacceptedGoesAway`, `BurstIsCompiled`, `LockIsReleased`, `LiveCatchesUp`), which is
beyond the prover under fairness.

## Not modelled, and what is left

Not modelled, because the firewall's behaviour does not depend on it: the web
interface, packaging, notifications, the update check, redirects, the gateway
registration and its watchdog, drop events, the bounded file of the audit
history, the push to peers, read-only probes. Left out of modelled parts: netlink
encoding, signature arithmetic, parsing of addresses and of zone files, LOG
lines, formatting.

Left, in this order:

1. the answer handler (`appsDecide`) together with the saves of `ZfwServer`: the
   two meet in `rules.json` without a lock, and the lost save above is the only
   hazard of it known so far;
2. a partial inventory in `ZfwApps` (`ss` fails, `docker ps` does not).
