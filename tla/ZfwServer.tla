------------------------------ MODULE ZfwServer ------------------------------
(***************************************************************************)
(* The daemon around its rule set: the requests that save, compile and     *)
(* apply it, the start-up that seeds and migrates it, and the watcher that *)
(* recompiles it after container events.                                   *)
(*                                                                         *)
(* Every request is a process.  It first does its slow IO without Server.mu*)
(* (prefetchForCompile), then takes mu and saves, compiles or runs the     *)
(* engine with what it read before.  Start-up ("main") and the watcher     *)
(* ("watch") run the same steps.  The daemon may crash at any point.       *)
(*                                                                         *)
(* Abstractions.  A rule set is a model value; a script is the rule set    *)
(* and the docker inventory it was compiled from, and an inventory (read   *)
(* in one step) is its version.  `live` is the record of applied.sh and    *)
(* `boot` the confirmed copy; clients use one port, open or not.           *)
(* The new-app prompt is in ZfwApps, the engine in ZfwEngine, the lists    *)
(* behind country and feed sources in ZfwLists.                            *)
(***************************************************************************)
EXTENDS Integers, FiniteSets

CONSTANTS
  Posted,       \* rule sets that pass Validate and that somebody posts
  Deny,         \* the rule sets with default_policy deny
  Open,         \* those that let clients reach the port
  Seed,         \* the starter rule set of a readable inventory
  PartialSeed,  \* the one of an inventory that could not be read
  None,         \* no file
  Request,      \* requests under way at the same time
  Mode,         \* ZFW_APPLY_MODE of the engine
  Env,          \* what the environment may do
  MaxInv,       \* bound: changes of the container inventory
  MaxOps,       \* bound: requests
  MaxCrash      \* bound: crashes of the daemon

RuleSet == Posted \cup {Seed, PartialSeed}

ASSUME RuleSetAssumption ==
  {Seed, PartialSeed} \subseteq Deny /\ Open \subseteq RuleSet /\ None \notin RuleSet
ASSUME ModeAssumption == Mode \in {"bash", "restore"}
ASSUME RequestAssumption ==
  /\ Request \cap {"main", "watch"} = {}
  /\ None \notin Request \cup {"main", "watch"}
ASSUME BoundsAssumption == MaxInv \in Nat /\ MaxOps \in Nat /\ MaxCrash \in Nat

Events == {"dockerd",      \* the docker daemon stops and starts
           "enginefail",   \* a command of the script fails: the engine reverts
           "writefail",    \* compiled.sh cannot be written
           "restorefail",  \* compiled.restore.sh cannot be written
           "listfail",     \* a feed or country list cannot be fetched
           "client",       \* clients connect
           "flushfail",    \* conntrack cannot be flushed
           "diskfail"}     \* the migration of rules.json fails
ASSUME EnvAssumption == Env \subseteq Events

Proc == Request \cup {"main", "watch"}
Unknown == -1                \* SourceErr: the inventory could not be read
Inventory == 0..MaxInv
Script == [rs : RuleSet, ports : Inventory \cup {Unknown}]
RulesFile == [rs : RuleSet, schema : {"old", "current"}]
ASSUME NoneAssumption == None \notin Script \cup RulesFile

\* The scripts the engine may read; compiled.restore.sh is left out where
\* it never does.
Variants == IF Mode = "restore" THEN {"bash", "restore"} ELSE {"bash"}

VARIABLES
  daemon,        \* "down", "starting" or "up"
  pc,            \* where each process is
  job,           \* what it was asked: [op, rs]
  got,           \* the inventory it read
  mu,            \* the holder of Server.mu, or None
  file,          \* rules.json: [rs, schema], or None
  bak,           \* rules.json.bak.v<N>: a rule set, or None
  compiled,      \* mode -> compiled.sh and compiled.restore.sh: a Script or None
  lastCompiled,  \* Server.lastCompiled
  lastApplied,   \* Server.lastApplied
  live,          \* what applied.sh records: a Script or None
  boot,          \* committed.sh, None while zfw.service is not enabled
  clients,       \* how the connections to the port came in
  docker,        \* [inv, up]: dockerd's containers and whether it answers
  watch,         \* [stream, queued, armed] of the watcher
  ops, crashes   \* bounds

work == <<pc, job, got>>
memory == <<lastCompiled, lastApplied>>
kernel == <<live, boot, clients>>
bounds == <<ops, crashes>>
vars == <<daemon, work, mu, file, bak, compiled, memory, kernel, docker, watch, bounds>>

Places == {"idle", "seed", "reseed", "prefetch", "migrate", "rewrite",
           "lock", "save", "compile", "engine"}
Ops == {"save", "apply", "commit", "revert", "recompile"}

TypeOK ==
  /\ daemon \in {"down", "starting", "up"}
  /\ pc \in [Proc -> Places]
  /\ job \in [Proc -> [op : Ops, rs : RuleSet \cup {None}]]
  /\ got \in [Proc -> Inventory \cup {Unknown}]
  /\ mu \in Proc \cup {None}
  /\ file \in RulesFile \cup {None}
  /\ bak \in RuleSet \cup {None}
  /\ compiled \in [Variants -> Script \cup {None}]
  /\ lastCompiled \in RuleSet \cup {None}
  /\ lastApplied \in RuleSet \cup {None}
  /\ live \in Script \cup {None}
  /\ boot \in Script \cup {None}
  /\ clients \subseteq {"known", "other"}
  /\ docker \in [inv : Inventory, up : BOOLEAN]
  /\ watch \in [stream : {"off", "on", "ended"}, queued : BOOLEAN, armed : BOOLEAN]
  /\ ops \in 0..MaxOps
  /\ crashes \in 0..MaxCrash

-----------------------------------------------------------------------------
(* Processes *)

Idle(p) == pc[p] = "idle"

Goto(p, place) ==
  /\ pc' = [pc EXCEPT ![p] = place]
  /\ UNCHANGED <<job, got>>

\* A process starts on a job; a job without a rule set reads rules.json.
Start(p, op, rs, place) ==
  /\ Idle(p)
  /\ pc' = [pc EXCEPT ![p] = place]
  /\ job' = [job EXCEPT ![p] = [op |-> op, rs |-> rs]]
  /\ UNCHANGED got

NoJob == [op |-> "recompile", rs |-> None]

\* The handler returns; a deferred unlock releases mu.
Finish(p) ==
  /\ pc' = [pc EXCEPT ![p] = "idle"]
  /\ job' = [job EXCEPT ![p] = NoJob]
  /\ got' = [got EXCEPT ![p] = Unknown]
  /\ mu' = IF mu = p THEN None ELSE mu

\* What a read of the docker inventory returns.
ReadDocker == IF docker.up THEN docker.inv ELSE Unknown

Current(rs) == [rs |-> rs, schema |-> "current"]

-----------------------------------------------------------------------------
(* Start-up *)

\* seedRulesIfMissing: only when there is no file, and docker can be read.
MainSeed ==
  /\ daemon = "starting" /\ pc["main"] = "seed"
  /\ Goto("main", IF file = None /\ docker.up THEN "reseed" ELSE "prefetch")
  /\ UNCHANGED <<daemon, mu, file, bak, compiled, memory, kernel, docker, watch, bounds>>

\* The inventory is read again for FromTiers or Defaults; this error is
\* dropped.  The seed is skipped when the LAN cannot be detected.
MainReseed ==
  /\ daemon = "starting" /\ pc["main"] = "reseed"
  /\ file' \in {None, Current(IF docker.up THEN Seed ELSE PartialSeed)}
  /\ Goto("main", "prefetch")
  /\ UNCHANGED <<daemon, mu, bak, compiled, memory, kernel, docker, watch, bounds>>

\* After the initial recompile, failed or not, the daemon listens and the
\* watcher opens its stream.
Listen ==
  /\ daemon = "starting" /\ Idle("main")
  /\ daemon' = "up"
  /\ UNCHANGED <<work, mu, file, bak, compiled, memory, kernel, docker, watch, bounds>>

\* The daemon dies: every request, the lock and its memory are gone.  A
\* running engine dies with it; its record is not written.  Connections from
\* before it are known to nobody.
Crash ==
  /\ daemon # "down" /\ crashes < MaxCrash
  /\ daemon' = "down"
  /\ pc' = [p \in Proc |-> "idle"]
  /\ job' = [p \in Proc |-> NoJob]
  /\ got' = [p \in Proc |-> Unknown]
  /\ mu' = None
  /\ lastCompiled' = None /\ lastApplied' = None
  /\ watch' = [stream |-> "off", queued |-> FALSE, armed |-> FALSE]
  /\ clients' = IF clients = {} THEN {} ELSE {"other"}
  /\ crashes' = crashes + 1
  /\ UNCHANGED <<file, bak, compiled, live, boot, docker, ops>>

\* systemd starts the daemon (Restart=always).
Boot ==
  /\ daemon = "down"
  /\ daemon' = "starting"
  /\ Start("main", "recompile", None, "seed")
  /\ UNCHANGED <<mu, file, bak, compiled, memory, kernel, docker, watch, bounds>>

-----------------------------------------------------------------------------
(* Requests *)

Begin(p, op, rs, place) ==
  /\ daemon = "up" /\ ops < MaxOps
  /\ Start(p, op, rs, place)
  /\ ops' = ops + 1
  /\ UNCHANGED <<daemon, mu, file, bak, compiled, memory, kernel, docker, watch, crashes>>

\* POST rules, and a leader's push to peers/receive.
PostRules(p, rs) == Begin(p, "save", rs, "prefetch")

\* POST rules/defaults: refused when the inventory cannot be read.
PostDefaults(p) == docker.up /\ Begin(p, "save", Seed, "prefetch")

PostApply(p) == Begin(p, "apply", None, "prefetch")
PostCommit(p) == Begin(p, "commit", None, "lock")
PostRevert(p) == Begin(p, "revert", None, "lock")

\* prefetchForCompile reads the inventory, then rules.json for its lists
\* unless the request brought a rule set.  Load migrates an older schema.
Prefetch(p) ==
  /\ pc[p] = "prefetch"
  /\ got' = [got EXCEPT ![p] = ReadDocker]
  /\ IF job[p].op # "save" /\ file # None /\ file.schema = "old"
     THEN /\ pc' = [pc EXCEPT ![p] = "migrate"]
          /\ job' = [job EXCEPT ![p].rs = file.rs]
     ELSE /\ pc' = [pc EXCEPT ![p] = "lock"]
          /\ UNCHANGED job
  /\ UNCHANGED <<daemon, mu, file, bak, compiled, memory, kernel, docker, watch, bounds>>

\* feeds.Ensure or geo.Ensure, the last of the prefetch, fails: 500.
ListFails(p) ==
  /\ "listfail" \in Env
  /\ pc[p] = "lock" /\ job[p].op \notin {"commit", "revert"}
  /\ Finish(p)
  /\ UNCHANGED <<daemon, file, bak, compiled, memory, kernel, docker, watch, bounds>>

\* A mutant of Backup: the old bytes are not kept.
BackupSkipped(p) ==
  /\ pc[p] = "migrate"
  /\ \A q \in Proc : pc[q] # "rewrite"
  /\ Goto(p, IF file.schema = "current" THEN "lock" ELSE "rewrite")
  /\ UNCHANGED <<daemon, mu, file, bak, compiled, memory, kernel, docker, watch, bounds>>

\* Load under migrateMu: look again, then keep the old bytes as .bak.v<N>.
Backup(p) ==
  /\ pc[p] = "migrate"
  /\ \A q \in Proc : pc[q] # "rewrite"
  /\ IF file.schema = "current" THEN Goto(p, "lock") /\ UNCHANGED bak
     ELSE Goto(p, "rewrite") /\ bak' = job[p].rs
  /\ UNCHANGED <<daemon, mu, file, compiled, memory, kernel, docker, watch, bounds>>

\* A mutant of Rewrite: a migration that stops one version short.
RewriteShort(p) ==
  /\ pc[p] = "rewrite"
  /\ file' = [rs |-> job[p].rs, schema |-> "next to last"]
  /\ Goto(p, "lock")
  /\ UNCHANGED <<daemon, mu, bak, compiled, memory, kernel, docker, watch, bounds>>

\* The migrated form is written back, still under migrateMu.
Rewrite(p) ==
  /\ pc[p] = "rewrite"
  /\ file' = Current(job[p].rs)
  /\ Goto(p, "lock")
  /\ UNCHANGED <<daemon, mu, bak, compiled, memory, kernel, docker, watch, bounds>>

\* The backup or the write fails: Load fails, and with it the request.
MigrationFails(p) ==
  /\ "diskfail" \in Env
  /\ pc[p] \in {"migrate", "rewrite"}
  /\ Finish(p)
  /\ UNCHANGED <<daemon, file, bak, compiled, memory, kernel, docker, watch, bounds>>

Lock(p) ==
  /\ pc[p] = "lock" /\ mu = None
  /\ mu' = p
  /\ Goto(p, CASE job[p].op = "save" -> "save"
               [] job[p].op \in {"commit", "revert"} -> "engine"
               [] OTHER -> "compile")
  /\ UNCHANGED <<daemon, file, bak, compiled, memory, kernel, docker, watch, bounds>>

\* rules.Save stamps the current schema.
Save(p) ==
  /\ pc[p] = "save"
  /\ file' = Current(job[p].rs)
  /\ Goto(p, "compile")
  /\ UNCHANGED <<daemon, mu, bak, compiled, memory, kernel, docker, watch, bounds>>

\* A mutant of CanCompile: the guard before v1.0.20.
CanCompileBlind(p) == file # None

\* recompileLocked refuses without a rules.json, and a deny policy over an
\* inventory that could not be read.
CanCompile(p) == file # None /\ ~(file.rs \in Deny /\ got[p] = Unknown)

\* A mutant of Refuse: an early return without the deferred unlock.
RefuseKeepsLock(p) ==
  /\ pc[p] = "compile"
  /\ ~CanCompile(p) \/ "writefail" \in Env
  /\ Goto(p, "idle")
  /\ UNCHANGED <<daemon, mu, file, bak, compiled, memory, kernel, docker, watch, bounds>>

\* The handler answers 500; what it saved stays saved.
Refuse(p) ==
  /\ pc[p] = "compile"
  /\ ~CanCompile(p) \/ "writefail" \in Env
  /\ Finish(p)
  /\ UNCHANGED <<daemon, file, bak, compiled, memory, kernel, docker, watch, bounds>>

Output(p) == [rs |-> file.rs, ports |-> got[p]]

\* A mutant of CompileThen: the scripts of an apply are taken as they are.
CompileThenSkipped(p) ==
  IF job[p].op = "apply" /\ compiled["bash"] # None
  THEN UNCHANGED <<compiled, lastCompiled>>
  ELSE /\ compiled' \in {[m \in Variants |-> Output(p)],
                         [compiled EXCEPT !["bash"] = Output(p)]}
       /\ lastCompiled' = file.rs

\* compiled.sh, then compiled.restore.sh, whose write may fail.
CompileThen(p) ==
  /\ \/ compiled' = [m \in Variants |-> Output(p)]
     \/ "restorefail" \in Env /\ compiled' = [compiled EXCEPT !["bash"] = Output(p)]
  /\ lastCompiled' = file.rs

Compile(p) ==
  /\ pc[p] = "compile"
  /\ CanCompile(p)
  /\ CompileThen(p)
  /\ IF job[p].op = "apply" THEN Goto(p, "engine") /\ UNCHANGED mu ELSE Finish(p)
  /\ UNCHANGED <<daemon, file, bak, lastApplied, kernel, docker, watch, bounds>>

\* pick_compiled of the engine.
Pick == IF Mode = "restore" /\ compiled["restore"] # None THEN "restore" ELSE "bash"

\* The flush: NewlyBlocked of the rules last applied and those just compiled,
\* whose ports lose their connections.  Best-effort: a failure is logged only.
Flush ==
  \/ clients' = IF lastApplied \in Open /\ lastCompiled \notin Open THEN {} ELSE clients
  \/ "flushfail" \in Env /\ UNCHANGED clients

\* A mutant of EngineApply: the record is moved on before the rules are compared.
EngineApplySwapped(p) ==
  /\ pc[p] = "engine" /\ job[p].op = "apply"
  /\ live' = compiled[Pick]
  /\ lastApplied' = lastCompiled
  /\ UNCHANGED <<boot, clients>>
  /\ Finish(p)
  /\ UNCHANGED <<daemon, file, bak, compiled, lastCompiled, docker, watch, bounds>>

\* fw.Apply succeeds; a plain apply is confirmed by itself, which matters once
\* zfw.service is enabled.  Then the flush, which has its new base ...
EngineApply(p) ==
  /\ pc[p] = "engine" /\ job[p].op = "apply"
  /\ live' = compiled[Pick]
  /\ boot' \in {boot, IF boot = None THEN None ELSE live'}
  /\ Flush
  /\ lastApplied' = lastCompiled
  /\ Finish(p)
  /\ UNCHANGED <<daemon, file, bak, compiled, lastCompiled, docker, watch, bounds>>

\* ... or the engine fails.  An apply: the dead-man could not be armed, which
\* changes nothing; a command failed and the engine reverted; or the rules are
\* live and only the confirmed copy could not be made.  A commit: it refuses
\* without a record, or stops before or after the copy.
EngineFails(p) ==
  /\ pc[p] = "engine"
  /\ "enginefail" \in Env \/ (job[p].op = "commit" /\ live = None)
  /\ \/ UNCHANGED <<live, boot>>
     \/ job[p].op = "apply" /\ live' = None /\ boot' = None
     \/ job[p].op = "apply" /\ live' = compiled[Pick] /\ UNCHANGED boot
     \/ job[p].op = "commit" /\ live # None /\ boot # None /\ boot' = live /\ UNCHANGED live
  /\ Finish(p)
  /\ UNCHANGED <<daemon, file, bak, compiled, memory, clients, docker, watch, bounds>>

\* The engine promotes what it recorded and enables zfw.service.
EngineCommit(p) ==
  /\ pc[p] = "engine" /\ job[p].op = "commit"
  /\ live # None
  /\ boot' = live
  /\ Finish(p)
  /\ UNCHANGED <<daemon, file, bak, compiled, memory, live, clients, docker, watch, bounds>>

\* The rules and zfw.service are gone; the memory of the daemon stays.
EngineRevert(p) ==
  /\ pc[p] = "engine" /\ job[p].op = "revert"
  /\ live' = None /\ boot' = None
  /\ Finish(p)
  /\ UNCHANGED <<daemon, file, bak, compiled, memory, clients, docker, watch, bounds>>

\* The dead-man timer of a safe apply reverts, whatever the daemon does.
DeadMan ==
  /\ live # None
  /\ live' = None /\ boot' = None
  /\ UNCHANGED <<daemon, work, mu, file, bak, compiled, memory, clients, docker, watch, bounds>>

\* A client connects: "known" if the rules in force are those of the last
\* apply of this daemon, "other" if they are not, or the firewall is off.
ClientConnects ==
  /\ "client" \in Env
  /\ live # None => live.rs \in Open
  /\ clients' = clients \cup
       {IF live # None /\ live.rs = lastApplied THEN "known" ELSE "other"}
  /\ UNCHANGED <<daemon, work, mu, file, bak, compiled, memory, live, boot, docker, watch, bounds>>

-----------------------------------------------------------------------------
(* Docker and its watcher *)

\* A mutant of Seen: the channel has no buffer.
SeenUnbuffered ==
  [watch EXCEPT !.queued = @ \/ (watch.stream = "on" /\ Idle("watch"))]

\* A line of `docker events` fills the channel, or finds it full.
Seen == [watch EXCEPT !.queued = @ \/ watch.stream = "on"]

ContainerEvent ==
  /\ docker.up /\ docker.inv < MaxInv
  /\ docker' = [docker EXCEPT !.inv = @ + 1]
  /\ watch' = Seen
  /\ UNCHANGED <<daemon, work, mu, file, bak, compiled, memory, kernel, bounds>>

DockerStops ==
  /\ "dockerd" \in Env
  /\ docker.up /\ docker.inv < MaxInv
  /\ docker' = [docker EXCEPT !.up = FALSE]
  /\ watch' = [watch EXCEPT !.stream = IF @ = "on" THEN "ended" ELSE @]
  /\ UNCHANGED <<daemon, work, mu, file, bak, compiled, memory, kernel, bounds>>

\* zfw.service is PartOf=docker.service: a restart of dockerd replays what was
\* confirmed, if the unit was ever started, or reverts what it cannot replay.
Replay ==
  \/ UNCHANGED <<live, boot>>
  \/ boot # None /\ live' = boot /\ UNCHANGED boot
  \/ boot # None /\ "enginefail" \in Env /\ live' = None /\ boot' = None

\* Its containers come up, which the watcher is not there to see.
DockerStarts ==
  /\ ~docker.up
  /\ docker' = [inv |-> docker.inv + 1, up |-> TRUE]
  /\ Replay
  /\ UNCHANGED <<daemon, work, mu, file, bak, compiled, memory, clients, watch, bounds>>

\* Run: the backoff is over, `docker events` streams from now on.
Connect ==
  /\ daemon = "up" /\ docker.up /\ Idle("watch")
  /\ watch.stream = "off"
  /\ watch' = [stream |-> "on", queued |-> FALSE, armed |-> FALSE]
  /\ UNCHANGED <<daemon, work, mu, file, bak, compiled, memory, kernel, docker, bounds>>

\* consume: an event (re)arms the debounce timer.
Arm ==
  /\ Idle("watch") /\ watch.queued
  /\ watch' = [watch EXCEPT !.queued = FALSE, !.armed = TRUE]
  /\ UNCHANGED <<daemon, work, mu, file, bak, compiled, memory, kernel, docker, bounds>>

\* The timer fires: one recompile.
Fire ==
  /\ watch.armed
  /\ Start("watch", "recompile", None, "prefetch")
  /\ watch' = [watch EXCEPT !.armed = FALSE]
  /\ UNCHANGED <<daemon, mu, file, bak, compiled, memory, kernel, docker, bounds>>

\* The stream has ended: an armed timer fires at once, a queued event is
\* dropped when select prefers done.
Ended ==
  /\ watch.stream = "ended" /\ Idle("watch")
  /\ watch' = [stream |-> "off", queued |-> FALSE, armed |-> FALSE]
  /\ IF watch.armed THEN Start("watch", "recompile", None, "prefetch") ELSE UNCHANGED work
  /\ UNCHANGED <<daemon, mu, file, bak, compiled, memory, kernel, docker, bounds>>

-----------------------------------------------------------------------------

Init ==
  /\ daemon = "down"
  /\ pc = [p \in Proc |-> "idle"]
  /\ job = [p \in Proc |-> NoJob]
  /\ got = [p \in Proc |-> Unknown]
  /\ mu = None
  /\ file \in [rs : Posted, schema : {"old"}] \cup {None}
  /\ bak = None
  /\ compiled = [m \in Variants |-> None]
  /\ lastCompiled = None /\ lastApplied = None
  /\ live = None /\ boot = None /\ clients = {}
  /\ docker = [inv |-> 0, up |-> TRUE]
  /\ watch = [stream |-> "off", queued |-> FALSE, armed |-> FALSE]
  /\ ops = 0 /\ crashes = 0

NewRequest(p) ==
  \/ \E rs \in Posted : PostRules(p, rs)
  \/ PostDefaults(p)
  \/ PostApply(p)
  \/ PostCommit(p)
  \/ PostRevert(p)

Step(p) ==
  \/ Prefetch(p) \/ ListFails(p)
  \/ Backup(p) \/ Rewrite(p) \/ MigrationFails(p)
  \/ Lock(p) \/ Save(p) \/ Refuse(p) \/ Compile(p)
  \/ EngineApply(p) \/ EngineFails(p) \/ EngineCommit(p) \/ EngineRevert(p)

Watcher == Connect \/ Arm \/ Fire \/ Ended
Main == Boot \/ MainSeed \/ MainReseed \/ Listen
Outside == Crash \/ DeadMan \/ ClientConnects \/ ContainerEvent \/ DockerStops \/ DockerStarts

Next ==
  \/ \E p \in Request : NewRequest(p)
  \/ \E p \in Proc : Step(p)
  \/ Watcher \/ Main \/ Outside

Spec == Init /\ [][Next]_vars

\* A request runs on by itself and Go's mutex is handed over in turn; the
\* watcher and start-up are goroutines of their own; systemd restarts the daemon.
Fairness ==
  /\ \A p \in Proc : WF_vars(Step(p)) /\ SF_vars(Lock(p))
  /\ WF_vars(Main)
  /\ WF_vars(Arm \/ Fire \/ Ended) /\ WF_vars(Connect)

FairSpec == Spec /\ Fairness

-----------------------------------------------------------------------------
(* Properties *)

Register == INSTANCE RuleRegister WITH
  saved <- IF file = None THEN None ELSE file.rs,
  live  <- IF live = None THEN None ELSE live.rs,
  confirmed <- IF boot = None THEN None ELSE boot.rs

\* However saves, applies, container events, crashes and the start-up
\* interleave, an apply puts in force exactly the rule set saved at that
\* moment, and nothing else changes what is in force except a teardown and the
\* replay of the rule set last confirmed.
ImplementsRegister == Register!Spec

\* A deny policy in force knows which ports it has to close, also when the
\* inventory became unreadable between the prefetch and the lock.
NeverUnscoped ==
  live # None /\ live.rs \in Deny => live.ports # Unknown

\* "Tear down conntrack for the ports this apply switched from allowed to
\* denied" (handlers.go:856): no connection made under the rules of the last
\* apply survives a later apply that blocks its port, whatever was reverted,
\* replayed or failed in between - lastApplied outlives all that on purpose.
\* It holds as long as conntrack can be flushed ("flushfail" is not in Env).
BlockedIsCut ==
  [][\A p \in Proc : EngineApply(p) /\ live'.rs \notin Open => "known" \notin clients']_vars

\* Load never rewrites rules.json but to the migrated form of the bytes it has
\* kept, and those are the file's if it is still of an older schema: in every
\* interleaving of loads and saves, after crashes and failed migrations.
MigrationKeepsBackup ==
  [][\A p \in Proc : Rewrite(p) =>
       bak = file'.rs /\ (file.schema = "old" => bak = file.rs)]_vars

\* A container event the watcher's stream delivers is followed by a recompile
\* that reads an inventory at least as new, unless dockerd or the daemon goes
\* down first.
BurstIsCompiled ==
  \A v \in 1..MaxInv :
    []( daemon = "up" /\ watch.stream = "on" /\ docker.inv = v - 1
        => <>( \/ got["watch"] >= v
               \/ ~docker.up \/ daemon # "up"
               \/ [](docker.inv = v - 1) ))

\* No path of a handler, start-up or the watcher leaves Server.mu locked.
LockIsReleased == []<>(mu = None)

-----------------------------------------------------------------------------
(* What the comments say and the code does not do *)

\* An apply tears down every connection to a port it blocks: not those made
\* while the firewall was off or a dockerd restart had replayed other rules.
EveryBlockedIsCut ==
  [][\A p \in Proc : EngineApply(p) /\ live'.rs \notin Open => clients' = {}]_vars

Quiet ==
  /\ daemon = "up" /\ docker.up
  /\ \A p \in Proc : Idle(p)
  /\ watch = [stream |-> "on", queued |-> FALSE, armed |-> FALSE]

\* dockerwatch "keeps the compiled ruleset in sync with the live Docker
\* container inventory": with nothing left to do, the scripts are current.
InSync ==
  Quiet /\ compiled["bash"] # None => compiled["bash"].ports = docker.inv

\* seedRulesIfMissing never bakes a half-read inventory into rules.json.
SeedIsWhole == file # None => file.rs # PartialSeed
=============================================================================
