------------------------------ MODULE ZfwApps ------------------------------
(***************************************************************************)
(* The new-app prompt (internal/handlers/apps.go, internal/apps): the      *)
(* ports running containers offer, the questions about them (apps.json),   *)
(* the answers (rules in rules.json), and the app chains that carry an     *)
(* answer until the next apply.                                            *)
(*                                                                         *)
(* One thread at a time works under appsMu: the loop RunApps, or one of    *)
(* the two handlers, which end in the same sync.  Beside it run applies    *)
(* and reverts (under mu), the root shell, the dead-man and the containers.*)
(*                                                                         *)
(* Abstractions.  A port is TCP and belongs to one container, so a key is  *)
(* a port; default_policy is deny and the LAN is configured.  A rule names *)
(* one port; ids grow with Order, so the rule that matches first is the    *)
(* one with the smallest id.  The loop may wake at any time (its ticker),  *)
(* which is why a queued kick needs no variable.  IPv6 follows IPv4: the   *)
(* chains are told apart by zone.  Cards and webhooks are left out.        *)
(***************************************************************************)
EXTENDS Naturals, FiniteSets

CONSTANTS
  Ports,      \* ports that apps may open
  HostPorts,  \* those of network_mode: host containers
  None,       \* no file, no entry, no record
  MaxOps,     \* how often the environment acts
  Env         \* what it may do besides running the prompt

Events ==
  { "deadman",      \* the dead-man of a Safe-Apply fires
    "revert",       \* the operator reverts
    "cli",          \* an apply from the root shell
    "edit",         \* the operator deletes and writes rules
    "mode",         \* the operator switches what unanswered ports do
    "client",       \* clients connect through the app chains
    "restart",      \* the daemon dies and starts again
    "expire",       \* an entry outlives its TTL
    "dockerfail",   \* docker ps fails
    "diskfail",     \* apps.json cannot be written
    "compilefail",  \* recompileLocked refuses (inventory unreadable)
    "enginefail",   \* apps.sh cannot be written, or `zfw apps` fails or is killed
    "applyfail",    \* a rule of an apply is rejected
    "flushfail"     \* conntrack cannot be flushed, or only in part
  }

ASSUME PortsAssumption == HostPorts \subseteq Ports /\ None \notin Ports
ASSUME BoundAssumption == MaxOps \in Nat
ASSUME EnvAssumption == Env \subseteq Events

VARIABLES
  running,     \* ports that containers offer now
  fresh,       \* host ports whose container started after Baseline
  saved,       \* rules.json
  applied,     \* applied.sh, read back by liveSnapshot
  chains,      \* the app chains exist
  admits,      \* how far they open each port
  armed,       \* a dead-man is armed
  file,        \* apps.json
  appsScript,  \* last apps.sh the engine ran successfully
  force,       \* appsForce
  appsOpen,    \* how far each entry was open after the last sync
  lastApplied, \* the rules of the last successful apply
  pc, who,     \* the thread that holds appsMu
  job,         \* the port and the answer of appsDecide
  loaded,      \* the rules it loaded
  draft,       \* the apps.json in its hands
  seen,        \* the inventory it read
  script,      \* apps.sh
  missing,     \* the engine's output says "missing"
  fw,          \* the apply that is under way
  applying,    \* the rules and the inventory it was compiled from
  okay,        \* the last sync returned nil
  conns,       \* connections established through an app chain
  nextId,      \* rules.NewID
  ops          \* what the environment may still do

host == <<running, fresh>>
ruleset == <<saved, nextId>>
kernel == <<applied, chains, admits, armed>>
memory == <<appsScript, force, appsOpen, lastApplied>>
thread == <<pc, who>>
locals == <<job, loaded, draft, seen, script, missing>>
apply == <<fw, applying>>
vars == <<host, ruleset, kernel, file, memory, thread, locals, apply, okay,
          conns, ops>>

Reaches == {"", "lan", "any"}
Answers == {"lan", "any", "block"}
Rules == [id : Nat \ {0}, port : Ports, answer : Answers, by : {"prompt", "hand"}]
Entries == [state : Answers \cup {"pending"}, rule : Nat, present : BOOLEAN]

Files == [baseline : BOOLEAN, mode : {"lan", "block"},
          entries : [Ports -> Entries \cup {None}]]
Records == [rules : SUBSET Rules, published : SUBSET Ports]
Jobs == [port : Ports, answer : Answers, rule : Nat \ {0}]
Openings == [Ports -> Reaches]
Steps == {"idle", "answer", "record", "read", "withdraw", "detect", "write",
          "docker", "host", "flush"}

ASSUME NoneAssumption == None \notin Entries \cup Openings

Counters == nextId \in Nat \ {0} /\ ops \in 0..MaxOps

TypeOK ==
  /\ Counters
  /\ running \subseteq Ports
  /\ fresh \subseteq HostPorts
  /\ saved \subseteq Rules
  /\ applied \in Records \cup {None}
  /\ chains \in BOOLEAN
  /\ admits \in Openings
  /\ armed \in BOOLEAN
  /\ file \in Files
  /\ appsScript \in Openings \cup {None}
  /\ force \in BOOLEAN
  /\ appsOpen \in Openings \cup {None}
  /\ lastApplied \subseteq Rules
  /\ pc \in Steps
  /\ who \in {"none", "loop", "decide", "mode"}
  /\ job \in Jobs \cup {None}
  /\ loaded \subseteq Rules
  /\ draft \in Files \cup {None}
  /\ seen \in [ports : SUBSET Ports, fresh : SUBSET HostPorts]
  /\ script \in Openings
  /\ missing \in BOOLEAN
  /\ fw \in {"idle", "daemon_ran", "daemon_recorded", "cli_ran"}
  /\ applying \in Records \cup {None}
  /\ okay \in BOOLEAN
  /\ conns \subseteq Ports \X {"lan", "wan"}

-----------------------------------------------------------------------------
(* Package apps: what is new, what is withdrawn, what is open *)

DockerPorts == Ports \ HostPorts
Closed == [p \in Ports |-> ""]
Inventory == running \cap DockerPorts

Decides(rules, p) == \E r \in rules : r.port = p

\* A port nobody has chosen for since the last apply.
IsNew(p, live, late) ==
  /\ live # None
  /\ ~Decides(live.rules, p)
  /\ IF p \in HostPorts THEN p \in late ELSE p \notin live.published

\* Answered entries whose rule is gone from the saved rules are dropped.
Withdraw(f, rules) ==
  LET Gone(e) == e # None /\ e.state # "pending" /\ e.rule # 0
                 /\ \A r \in rules : r.id # e.rule
  IN [f EXCEPT !.entries = [p \in Ports |-> IF Gone(@[p]) THEN None ELSE @[p]]]

\* The entry of a port after a look at the running containers.
Merged(e, p, inv, live) ==
  CASE e # None -> [e EXCEPT !.present = p \in inv.ports]
    [] e = None /\ p \in inv.ports /\ IsNew(p, live, inv.fresh) ->
         [state |-> "pending", rule |-> 0, present |-> TRUE]
    [] OTHER -> None

\* The entries that stay; those in `expired` have outlived pendingTTL or
\* answerTTL.
Detect(f, inv, live, expired) ==
  LET Dropped(p, e) == /\ e # None
                       /\ \/ e.state = "pending" /\ live # None /\ Decides(live.rules, p)
                          \/ ~e.present /\ p \in expired
      Kept(p, e) == IF Dropped(p, e) THEN None ELSE e
  IN [f EXCEPT !.baseline = TRUE,
               !.entries = [p \in Ports |-> Kept(p, Merged(@[p], p, inv, live))]]

\* Mutant: an answer is passed on as it is stored, "block" included.
ReachStored(e, mode) ==
  IF e = None THEN "" ELSE IF e.present THEN e.state ELSE ""

\* Entry.Reach, whichever chain carries it.
Reach(e, mode) ==
  CASE e = None \/ (e # None /\ ~e.present) -> ""
    [] e # None /\ e.present /\ e.state \in {"lan", "any"} -> e.state
    [] e # None /\ e.present /\ e.state = "pending" /\ mode = "lan" -> "lan"
    [] OTHER -> ""

\* Mutant: Active forgets the mode.
CompileAppsOpen(f, live) ==
  [p \in Ports |-> IF live = None THEN "" ELSE Reach(f.entries[p], "lan")]

\* Active and AppLines: an entry whose rule is applied is not repeated, and
\* without a record there is no LAN to scope to.
CompileApps(f, live) ==
  [p \in Ports |->
     LET e == f.entries[p]
         reach == Reach(e, f.mode)
         carried == live # None /\ e # None /\ \E r \in live.rules : r.id = e.rule
     IN IF carried \/ (reach = "lan" /\ live = None) THEN "" ELSE reach]

Rank(reach) == CASE reach = "any" -> 2 [] reach = "lan" -> 1 [] OTHER -> 0

Covers(reach, source) == reach = "any" \/ (reach = "lan" /\ source = "lan")

Spend == ops > 0 /\ ops' = ops - 1
MayFail(event) == event \in Env /\ Spend

-----------------------------------------------------------------------------
NoFile == [baseline |-> FALSE, mode |-> "lan", entries |-> [p \in Ports |-> None]]

\* The daemon starts with an empty rule set that was never applied, or was
\* applied (by this version or by one without app chains).
Init ==
  /\ running \in SUBSET Ports
  /\ fresh = {}
  /\ saved = {}
  /\ applied \in {None, [rules |-> {}, published |-> Inventory]}
  /\ chains \in {FALSE, applied # None}
  /\ admits = Closed
  /\ armed = FALSE
  /\ file = NoFile
  /\ appsScript = None /\ force = FALSE /\ appsOpen = None /\ lastApplied = {}
  /\ pc = "idle" /\ who = "none"
  /\ job = None /\ loaded = {} /\ draft = None
  /\ seen = [ports |-> {}, fresh |-> {}]
  /\ script = Closed /\ missing = FALSE
  /\ fw = "idle" /\ applying = None
  /\ okay = FALSE
  /\ conns = {}
  /\ nextId = 1
  /\ ops = MaxOps

-----------------------------------------------------------------------------
(* The sync (SyncApps, syncAppsLocked), under appsMu *)

Goto(step) == pc' = step /\ UNCHANGED who

\* The thread lets go of appsMu.
Unlock ==
  /\ pc' = "idle" /\ who' = "none"
  /\ job' = None /\ loaded' = {} /\ draft' = None
  /\ seen' = [ports |-> {}, fresh |-> {}]
  /\ script' = Closed /\ missing' = FALSE

Return(nil) == Unlock /\ okay' = nil

\* RunApps wakes: its ticker, a kick, or the start of the daemon.
Wake ==
  /\ pc = "idle"
  /\ pc' = "read" /\ who' = "loop"
  /\ UNCHANGED <<host, ruleset, kernel, file, memory, locals, apply, okay, conns, ops>>

\* apps.Load and the container inventory; the first Load takes the baseline.
ReadInventory ==
  /\ pc = "read"
  /\ \/ /\ draft' = file
        /\ fresh' = IF file.baseline THEN fresh ELSE {}
        /\ seen' = [ports |-> running, fresh |-> fresh']
        /\ Goto("withdraw")
        /\ UNCHANGED <<job, loaded, script, missing, okay, ops>>
     \/ MayFail("dockerfail") /\ Return(FALSE) /\ UNCHANGED fresh
  /\ UNCHANGED <<running, ruleset, kernel, file, memory, apply, conns>>

SyncWithdraw ==
  /\ pc = "withdraw"
  /\ draft' = Withdraw(draft, saved)
  /\ Goto("detect")
  /\ UNCHANGED <<host, ruleset, kernel, file, memory, job, loaded, seen, script,
                 missing, apply, okay, conns, ops>>

\* Detect against the live record, apps.Save, CompileApps.
SyncDetect ==
  /\ pc = "detect"
  /\ \/ \E expired \in IF "expire" \in Env THEN SUBSET Ports ELSE {{}} :
          LET f == Detect(draft, seen, applied, expired) IN
          /\ draft' = f
          /\ file' = f
          /\ script' = CompileApps(f, applied)
          /\ Goto("write")
          /\ UNCHANGED <<job, loaded, seen, missing, okay, ops>>
     \/ MayFail("diskfail") /\ Return(FALSE) /\ UNCHANGED file
  /\ UNCHANGED <<host, ruleset, kernel, memory, apply, conns>>

\* The content changed, or an apply, confirm or revert forces a rewrite.  The
\* flag is taken only when the content is the remembered one.
SyncWrite ==
  /\ pc = "write"
  /\ LET changed == script # appsScript IN
     /\ force' = (force /\ changed)
     /\ \/ /\ Goto(IF changed \/ force THEN "docker" ELSE "flush")
           /\ UNCHANGED <<locals, okay, ops>>
        \/ (changed \/ force) /\ MayFail("enginefail") /\ Return(FALSE)
  /\ UNCHANGED <<host, ruleset, kernel, file, appsScript, appsOpen, lastApplied,
                 apply, conns>>

\* apps.sh rewrites the chain of one zone, if it exists.
Fill(zone) ==
  /\ admits' = IF chains THEN [p \in Ports |-> IF p \in zone THEN script[p] ELSE admits[p]]
               ELSE admits
  /\ missing' = (missing \/ ~chains)

\* It stops inside that chain: the chain is flushed and holds a part of its lines.
FillBreaks(zone) ==
  /\ chains
  /\ \E done \in SUBSET zone :
       admits' = [p \in Ports |-> IF p \notin zone THEN admits[p]
                                  ELSE IF p \in done THEN script[p] ELSE ""]

EngineFails(zone) ==
  /\ MayFail("enginefail")
  /\ FillBreaks(zone) \/ UNCHANGED admits
  /\ Return(FALSE)

FillDocker ==
  /\ pc = "docker"
  /\ \/ /\ Fill(DockerPorts)
        /\ Goto("host")
        /\ UNCHANGED <<job, loaded, draft, seen, script, okay, ops>>
     \/ EngineFails(DockerPorts)
  /\ UNCHANGED <<host, ruleset, applied, chains, armed, file, memory, apply, conns>>

\* A run that found chains missing is never remembered as done.
FillHost ==
  /\ pc = "host"
  /\ \/ /\ Fill(HostPorts)
        /\ Goto("flush")
        /\ appsScript' = IF missing' THEN None ELSE script
        /\ UNCHANGED <<job, loaded, draft, seen, script, okay, ops>>
     \/ EngineFails(HostPorts) /\ UNCHANGED appsScript
  /\ UNCHANGED <<host, ruleset, applied, chains, armed, file, force, appsOpen,
                 lastApplied, apply, conns>>

\* Mutant: a port whose entry is gone is not recovered from its key.
NarrowedKnown(now) ==
  {p \in Ports : /\ appsOpen # None /\ draft.entries[p] # None
                 /\ Rank(now[p]) < Rank(appsOpen[p])}

\* flushNarrowedApps: the ports that are open less far than after the last
\* sync lose their connections; the first sync only takes the record.
Narrowed(now) ==
  {p \in Ports : appsOpen # None /\ Rank(now[p]) < Rank(appsOpen[p])}

To(targets) == {c \in conns : c[1] \in targets}

\* The flush is best-effort: one that fails has dropped a part of the
\* connections, says so in the log and is not repeated.
Flush(targets) ==
  \/ conns' = conns \ To(targets) /\ UNCHANGED ops
  \/ /\ MayFail("flushfail")
     /\ \E left \in (SUBSET To(targets)) \ {{}} : conns' = (conns \ To(targets)) \cup left

\* The record moves on before the flush, and the sync returns nil either way.
SyncFlush ==
  /\ pc = "flush"
  /\ LET now == [p \in Ports |-> Reach(draft.entries[p], draft.mode)] IN
     appsOpen' = now /\ Flush(Narrowed(now))
  /\ Return(TRUE)
  /\ UNCHANGED <<host, ruleset, kernel, file, appsScript, force, lastApplied, apply>>

-----------------------------------------------------------------------------
(* The handlers (appsHandler, appsDecide) *)

\* POST /api/apps: the mode is saved, then the sync runs under the same lock.
SetMode(m) ==
  /\ pc = "idle" /\ "mode" \in Env /\ Spend
  /\ file.mode # m
  /\ file' = [file EXCEPT !.mode = m, !.baseline = TRUE]
  /\ fresh' = IF file.baseline THEN fresh ELSE {}
  /\ pc' = "read" /\ who' = "mode"
  /\ UNCHANGED <<running, ruleset, kernel, memory, locals, apply, okay, conns>>

\* POST /api/apps/decide: the entry and rules.json are loaded without mu.
DecideLoad(p, answer) ==
  /\ pc = "idle" /\ Spend
  /\ file.entries[p] # None
  /\ job' = [port |-> p, answer |-> answer, rule |-> nextId]
  /\ nextId' = nextId + 1
  /\ draft' = file
  /\ loaded' = saved
  /\ pc' = "answer" /\ who' = "decide"
  /\ UNCHANGED <<host, saved, kernel, file, memory, seen, script, missing, apply,
                 okay, conns>>

\* Mutant: the rule of an earlier answer stays.
AnsweredOnTop ==
  loaded \cup {[id |-> job.rule, port |-> job.port, answer |-> job.answer, by |-> "prompt"]}

\* The rule of an earlier answer is replaced by the new one.
Answered ==
  {r \in loaded : r.id # draft.entries[job.port].rule}
    \cup {[id |-> job.rule, port |-> job.port, answer |-> job.answer, by |-> "prompt"]}

MuFree == fw \in {"idle", "cli_ran"}

\* Under mu: rules.Save, then recompileLocked.
DecideSave ==
  /\ pc = "answer" /\ MuFree
  /\ saved' = Answered
  /\ \/ Goto("record") /\ UNCHANGED <<locals, ops>>
     \/ MayFail("compilefail") /\ Unlock
  /\ UNCHANGED <<host, nextId, kernel, file, memory, apply, okay, conns>>

DecideRecord ==
  /\ pc = "record"
  /\ \/ /\ file' = [draft EXCEPT
                !.entries[job.port].state = job.answer,
                !.entries[job.port].rule = job.rule]
        /\ Goto("read")
        /\ UNCHANGED <<locals, ops>>
     \/ MayFail("diskfail") /\ Unlock /\ UNCHANGED file
  /\ UNCHANGED <<host, ruleset, kernel, memory, apply, okay, conns>>

-----------------------------------------------------------------------------
(* The firewall beside it: applies, Confirm, revert, the dead-man *)

Teardown ==
  /\ chains' = FALSE /\ admits' = Closed /\ applied' = None

\* The engine ran a compiled script: it creates the chains and never flushes them.
ScriptRan(safe) ==
  /\ chains' = TRUE
  /\ armed' = (armed \/ safe)
  /\ UNCHANGED <<admits, applied>>

ScriptFailed(safe) ==
  /\ "applyfail" \in Env
  /\ Teardown
  /\ armed' = (armed /\ ~safe)

\* An apply: POST /api/apply, which recompiles and holds mu until its reply, or
\* `zfw apply` in the root shell, which runs the last compiled.sh (dockerwatch
\* and every save keep it current).
Apply(by, safe) ==
  /\ fw = "idle" /\ Spend
  /\ \/ /\ ScriptRan(safe)
        /\ fw' = by
        /\ applying' = [rules |-> saved, published |-> Inventory]
     \/ ScriptFailed(safe) /\ UNCHANGED apply
  /\ UNCHANGED <<host, ruleset, file, memory, thread, locals, okay, conns>>

ApplyRecord ==
  /\ fw \in {"daemon_ran", "cli_ran"}
  /\ applied' = applying
  /\ IF fw = "cli_ran" THEN fw' = "idle" /\ applying' = None
     ELSE fw' = "daemon_recorded" /\ UNCHANGED applying
  /\ UNCHANGED <<host, ruleset, chains, admits, armed, file, memory, thread,
                 locals, okay, conns, ops>>

\* NewlyBlocked, seen from the rules that name p.
Allowed(rules, p) ==
  \E r \in rules : /\ r.port = p /\ r.answer # "block"
                   /\ \A s \in rules : s.port = p => r.id <= s.id

\* Mutant: the apply kicks the loop without forcing a rewrite.
ApplyReplyUnforced ==
  /\ fw = "daemon_recorded"
  /\ Flush({p \in Ports : Allowed(lastApplied, p) /\ ~Allowed(applying.rules, p)})
  /\ lastApplied' = applying.rules
  /\ fw' = "idle" /\ applying' = None
  /\ UNCHANGED <<host, ruleset, kernel, file, appsScript, force, appsOpen, thread,
                 locals, okay>>

\* The handler flushes what the apply blocked, as best it can, and forces a
\* rewrite.
ApplyReply ==
  /\ fw = "daemon_recorded"
  /\ Flush({p \in Ports : Allowed(lastApplied, p) /\ ~Allowed(applying.rules, p)})
  /\ lastApplied' = applying.rules
  /\ force' = TRUE
  /\ fw' = "idle" /\ applying' = None
  /\ UNCHANGED <<host, ruleset, kernel, file, appsScript, appsOpen, thread,
                 locals, okay>>

\* Confirm: the engine refuses without a record; the chains may be new to the
\* daemon (an apply of the root shell), so it forces a rewrite too.
Commit ==
  /\ fw = "idle" /\ applied # None
  /\ armed' = FALSE
  /\ force' = TRUE
  /\ UNCHANGED <<host, ruleset, applied, chains, admits, file, appsScript,
                 appsOpen, lastApplied, thread, locals, apply, okay, conns, ops>>

Revert ==
  /\ fw = "idle" /\ "revert" \in Env /\ Spend
  /\ Teardown
  /\ force' = TRUE
  /\ UNCHANGED <<host, ruleset, armed, file, appsScript, appsOpen, lastApplied,
                 thread, locals, apply, okay, conns>>

\* The dead-man tells the daemon nothing.  (What it does to an apply or a
\* Confirm that is under way is the subject of ZfwEngine.)
Deadman ==
  /\ armed /\ "deadman" \in Env /\ fw = "idle"
  /\ Teardown
  /\ armed' = FALSE
  /\ UNCHANGED <<host, ruleset, file, memory, thread, locals, apply, okay, conns, ops>>

-----------------------------------------------------------------------------
(* The operator's edits, the containers, the clients, the daemon's life *)

\* POST /api/rules: a set the operator made from the saved one.
SaveRules ==
  /\ "edit" \in Env /\ MuFree /\ Spend
  /\ \E kept \in SUBSET saved :
       \/ kept # saved /\ saved' = kept /\ UNCHANGED nextId
       \/ \E p \in Ports, a \in Answers :
            /\ saved' = kept \cup {[id |-> nextId, port |-> p, answer |-> a, by |-> "hand"]}
            /\ nextId' = nextId + 1
  /\ UNCHANGED <<host, kernel, file, memory, thread, locals, apply, okay, conns>>

AppStarts(p) ==
  /\ p \notin running /\ Spend
  /\ running' = running \cup {p}
  /\ fresh' = IF p \in HostPorts /\ (file.baseline \/ draft # None)
              THEN fresh \cup {p} ELSE fresh
  /\ UNCHANGED <<ruleset, kernel, file, memory, thread, locals, apply, okay, conns>>

AppStops(p) ==
  /\ p \in running /\ Spend
  /\ running' = running \ {p}
  /\ fresh' = fresh \ {p}
  /\ conns' = conns \ To({p})
  /\ UNCHANGED <<ruleset, kernel, file, memory, thread, locals, apply, okay>>

\* A client connects through an app chain.
Connect(p, source) ==
  /\ p \in running /\ "client" \in Env
  /\ Covers(admits[p], source)
  /\ conns' = conns \cup {<<p, source>>}
  /\ UNCHANGED <<host, ruleset, kernel, file, memory, thread, locals, apply, okay, ops>>

\* Files survive; an apply of the daemon's that was under way ends with it.
Restart ==
  /\ "restart" \in Env /\ Spend
  /\ appsScript' = None /\ force' = FALSE /\ appsOpen' = None /\ lastApplied' = {}
  /\ Return(FALSE)
  /\ IF fw = "cli_ran" THEN UNCHANGED apply ELSE fw' = "idle" /\ applying' = None
  /\ UNCHANGED <<host, ruleset, kernel, file, conns>>

Sync == \/ Wake \/ ReadInventory \/ SyncWithdraw \/ SyncDetect \/ SyncWrite
        \/ FillDocker \/ FillHost \/ SyncFlush

Handlers == \/ \E m \in {"lan", "block"} : SetMode(m)
            \/ \E p \in Ports, answer \in Answers : DecideLoad(p, answer)
            \/ DecideSave
            \/ DecideRecord

Firewall == \/ \E safe \in BOOLEAN : Apply("daemon_ran", safe)
            \/ \E safe \in BOOLEAN : "cli" \in Env /\ Apply("cli_ran", safe)
            \/ ApplyRecord
            \/ ApplyReply
            \/ Commit
            \/ Revert
            \/ Deadman

World == \/ SaveRules
         \/ \E p \in Ports : AppStarts(p) \/ AppStops(p)
         \/ \E p \in Ports, source \in {"lan", "wan"} : Connect(p, source)
         \/ Restart

Next == Sync \/ Handlers \/ Firewall \/ World

\* The loop's ticker never stops, a mutex is handed on, and a handler that
\* holds one runs to its reply; nobody else must ever act.
Fairness == /\ WF_vars(Sync)
            /\ WF_vars(DecideSave \/ DecideRecord)
            /\ WF_vars(ApplyRecord \/ ApplyReply)

Spec == Init /\ [][Next]_vars /\ Fairness

-----------------------------------------------------------------------------
(* Properties *)

AtRest == pc = "idle" /\ okay

\* "Block works immediately": once a sync has returned without an error, no
\* app chain opens a port wider than its answer, or the mode of an unanswered
\* one, says - whatever happened to the syncs before it (apps.go:150-166).
NoWiderThanAnswered ==
  AtRest => \A p \in Ports : Rank(admits[p]) <= Rank(Reach(file.entries[p], file.mode))

\* "Every narrowing flushes conntrack for the port": between two syncs, every
\* connection that came in through an app chain is still meant to be open by its
\* answer or the mode, also when it came in after the answer was changed and
\* before the chain was (flushNarrowedApps).  It holds as long as conntrack can
\* be flushed ("flushfail" is not in Env): a flush that fails is logged, the
\* record of what was open has moved on, and no later sync repeats it.
NarrowedIsCut ==
  AtRest => \A c \in conns : Covers(Reach(file.entries[c[1]], file.mode), c[2])

\* "An earlier answer for the same port is replaced, not stacked": a second
\* rule would match after the first and never count (apps.go:391-406).
AnswersDoNotStack ==
  \A r, s \in saved : r.by = "prompt" /\ s.by = "prompt" /\ r.port = s.port => r = s

\* The loop "keeps apps.json and the app chains in step": once the world holds
\* still, the entries show what runs, no answer outlives its rule, and the
\* chains - wherever they exist - hold what apps.json says.
InStep ==
  /\ \A p \in Ports : file.entries[p] # None =>
                        (file.entries[p].present <=> p \in running)
  /\ Withdraw(file, saved) = file
  /\ chains => admits = CompileApps(file, applied)
ChainsCatchUp == <>[]InStep
=============================================================================
