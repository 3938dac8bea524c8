----------------------------- MODULE ZfwEngine -----------------------------
(***************************************************************************)
(* The privileged engine (engine/zfw): the processes that run it, the      *)
(* files they share, the kernel chains they fill and the dead-man timer.   *)
(*                                                                         *)
(* Every invocation of the script is a process that takes one step per     *)
(* externally visible effect.  There is no lock between invocations: the   *)
(* daemon serialises its own (Server.mu), but the operator's shell, the    *)
(* dead-man service and zfw.service run beside it.                         *)
(*                                                                         *)
(* Abstractions.  A compiled script is a model value (its ruleset).  The   *)
(* ZFW chains are grouped by address family: every script and every revert *)
(* works on the inbound IPv4 chains before the IPv6 ones; the outbound     *)
(* chains and the app chains are not part of this module.  secure_file     *)
(* always accepts.                                                         *)
(***************************************************************************)
EXTENDS Naturals, FiniteSets

CONSTANTS
  Scripts,     \* compiled rulesets
  None,        \* no file, an empty chain
  Partial,     \* chains holding only some of a script's rules
  Clients,     \* who runs engine commands: the daemon, the root shell, install.sh
  ApplyMode,   \* ZFW_APPLY_MODE
  LegacyUnit,  \* the host confirmed under v1.0.26 or older
  Env          \* what the environment may do in this model

Events ==
  { "overlap",     \* engine processes run at the same time
    "kill",        \* a client's engine is SIGKILLed (runEngine's deadline)
    "armfail",     \* systemd-run cannot arm the timer
    "recordfail",  \* stage_copy to applied.sh fails (disk full, read-only)
    "copyfail",    \* stage_copy to committed.sh fails
    "unitfail",    \* systemctl enable fails
    "scriptfail",  \* a rule of the compiled script is rejected
    "reboot",      \* the host restarts
    "dockerd",     \* dockerd restarts
    "restorefail"  \* the daemon cannot write compiled.restore.sh
  }

Families == {"v4", "v6"}
Variants == {"bash", "restore"}
Procs == Clients \cup {"deadman", "boot"}

ASSUME ScriptsAssumption ==
  /\ None \notin Scripts
  /\ Partial \notin Scripts
  /\ Partial # None
ASSUME ClientsAssumption == Clients \subseteq {"daemon", "cli", "install"}
ASSUME ModeAssumption == ApplyMode \in Variants
ASSUME EnvAssumption == Env \subseteq Events /\ LegacyUnit \in BOOLEAN

VARIABLES
  compiled,   \* compiled.sh and compiled.restore.sh, written by the daemon
  applied,    \* applied.sh
  committed,  \* committed.sh
  unitExec,   \* zfw.service: "none", or the verb of its ExecStart
  enabled,    \* zfw.service is enabled
  kernel,     \* what the ZFW chains of each family hold
  timer,      \* zfw-deadman.timer is active
  bootJob,    \* systemd has queued a start of zfw.service
  pc,         \* where each engine process is
  op,         \* the verb it runs
  path,       \* the file SCRIPT names
  script,     \* the ruleset its bash read
  accepted,   \* history: the rulesets the operator has accepted
  tried       \* history: the rulesets that ran to their end since a teardown

files == <<compiled, applied, committed>>
unit == <<unitExec, enabled>>
procs == <<pc, op, path, script>>
history == <<accepted, tried>>
vars == <<files, unit, kernel, timer, bootJob, procs, history>>

Content == Scripts \cup {None}
Verbs == {"none", "apply", "safe", "commit", "revert", "boot", "autorevert",
          "migrate"}
Places == {"idle", "rearm", "arm", "run4", "run6", "record", "confirm",
           "undo4", "undo6", "unpersist", "forget", "disarm",
           "stop", "promote", "install", "enable", "seed", "rewrite"}

TypeOK ==
  /\ compiled \in [Variants -> Content]
  /\ applied \in Content
  /\ committed \in Content
  /\ unitExec \in {"none", "apply", "boot"}
  /\ enabled \in BOOLEAN
  /\ kernel \in [Families -> Content \cup {Partial}]
  /\ timer \in BOOLEAN
  /\ bootJob \in BOOLEAN
  /\ pc \in [Procs -> Places]
  /\ op \in [Procs -> Verbs]
  /\ path \in [Procs -> {"none", "bash", "restore", "committed"}]
  /\ script \in [Procs -> Content]
  /\ accepted \subseteq Scripts
  /\ tried \subseteq Scripts

-----------------------------------------------------------------------------
(* Helpers *)

\* pick_compiled: the restore variant when asked for and present.
Pick ==
  IF ApplyMode = "restore" /\ compiled["restore"] # None THEN "restore" ELSE "bash"

\* The content of the file SCRIPT names.
Read(p) == IF path[p] = "committed" THEN committed ELSE compiled[path[p]]

\* What the next run of zfw.service would execute.
BootReplay ==
  CASE ~enabled -> None
    [] enabled /\ unitExec = "boot" /\ committed # None -> committed
    [] OTHER -> compiled[Pick]

Idle(p) == pc[p] = "idle"
AllIdle == \A p \in Procs : Idle(p)

\* Without "overlap" an invocation starts only when no other is running or due.
MayStart(p) ==
  /\ Idle(p)
  /\ "overlap" \notin Env => AllIdle /\ (p \in Clients => ~bootJob)

Start(p, verb, place, file) ==
  /\ MayStart(p)
  /\ op' = [op EXCEPT ![p] = verb]
  /\ pc' = [pc EXCEPT ![p] = place]
  /\ path' = [path EXCEPT ![p] = file]
  /\ UNCHANGED script

Goto(p, place) ==
  /\ pc' = [pc EXCEPT ![p] = place]
  /\ UNCHANGED <<op, path, script>>

\* The process exits; nothing of it stays behind.
Exit(p) ==
  /\ pc' = [pc EXCEPT ![p] = "idle"]
  /\ op' = [op EXCEPT ![p] = "none"]
  /\ path' = [path EXCEPT ![p] = "none"]
  /\ script' = [script EXCEPT ![p] = None]

-----------------------------------------------------------------------------
Init ==
  /\ IF LegacyUnit
     THEN \E s \in Scripts : compiled = [v \in Variants |-> s]
     ELSE compiled = [v \in Variants |-> None]
  /\ applied = None
  /\ committed = None
  /\ unitExec = IF LegacyUnit THEN "apply" ELSE "none"
  /\ enabled = LegacyUnit
  /\ kernel = [f \in Families |-> None]
  /\ timer = FALSE
  /\ bootJob = FALSE
  /\ pc = [p \in Procs |-> "idle"]
  /\ op = [p \in Procs |-> "none"]
  /\ path = [p \in Procs |-> "none"]
  /\ script = [p \in Procs |-> None]
  /\ accepted = {}
  /\ tried = {}

(***************************************************************************)
(* The daemon compiles a ruleset (a save, a container event, or the        *)
(* recompile that opens the apply handler).  It holds Server.mu, as do its *)
(* own engine calls; engine processes of others do not wait for it.        *)
(***************************************************************************)
Recompile(s) ==
  /\ "daemon" \in Clients => Idle("daemon")
  /\ \/ compiled' = [v \in Variants |-> s]
     \/ "restorefail" \in Env /\ compiled' = [compiled EXCEPT !["bash"] = s]
  /\ UNCHANGED <<applied, committed, unit, kernel, timer, bootJob, procs, history>>

-----------------------------------------------------------------------------
(* zfw apply [--safe] *)

StartApply(c, verb) ==
  /\ compiled[Pick] # None
  /\ Start(c, verb, IF verb = "safe" THEN "rearm" ELSE "run4", Pick)
  /\ UNCHANGED <<files, unit, kernel, timer, bootJob, history>>

\* arm_deadman, first half: the timer of an earlier Safe-Apply is stopped.
Rearm(p) ==
  /\ pc[p] = "rearm"
  /\ timer' = FALSE
  /\ Goto(p, "arm")
  /\ UNCHANGED <<files, unit, kernel, bootJob, history>>

\* Mutant of Arm: the exit status of systemd-run is discarded.
ArmUnchecked(p) ==
  /\ pc[p] = "arm"
  /\ timer' \in {TRUE, FALSE}
  /\ Goto(p, "run4")
  /\ UNCHANGED <<files, unit, kernel, bootJob, history>>

\* arm_deadman, second half: systemd-run.  A dead-man service that is still
\* running holds the unit name.  No net, no apply.
Arm(p) ==
  /\ pc[p] = "arm"
  /\ \/ /\ Idle("deadman")
        /\ timer' = TRUE
        /\ Goto(p, "run4")
     \/ /\ "armfail" \in Env \/ ~Idle("deadman")
        /\ Exit(p)
        /\ UNCHANGED timer
  /\ UNCHANGED <<files, unit, kernel, bootJob, history>>

\* bash SCRIPT: the file is opened here, and a plain apply is the operator's
\* acceptance of what it holds.  A missing file fails like a rejected rule.
Run4(p) ==
  /\ pc[p] = "run4"
  /\ \/ /\ Read(p) # None
        /\ kernel' = [kernel EXCEPT !["v4"] = Read(p)]
        /\ script' = [script EXCEPT ![p] = Read(p)]
        /\ pc' = [pc EXCEPT ![p] = "run6"]
        /\ accepted' = accepted \cup (IF op[p] = "apply" THEN {Read(p)} ELSE {})
        /\ UNCHANGED <<op, path>>
     \/ /\ "scriptfail" \in Env \/ Read(p) = None
        /\ kernel' \in {kernel, [kernel EXCEPT !["v4"] = Partial]}
        /\ Goto(p, "undo4")
        /\ UNCHANGED accepted
  /\ UNCHANGED <<files, unit, timer, bootJob, tried>>

Run6(p) ==
  /\ pc[p] = "run6"
  /\ \/ /\ kernel' = [kernel EXCEPT !["v6"] = script[p]]
        /\ tried' = tried \cup {script[p]}
        /\ Goto(p, "record")
     \/ /\ "scriptfail" \in Env
        /\ kernel' \in {kernel, [kernel EXCEPT !["v6"] = Partial]}
        /\ Goto(p, "undo4")
        /\ UNCHANGED tried
  /\ UNCHANGED <<files, unit, timer, bootJob, accepted>>

\* stage_copy SCRIPT APPLIED.  The copy is taken from the file, which may have
\* been rewritten since bash read it.  A failure is only a warning.
Record(p) ==
  /\ pc[p] = "record"
  /\ \/ /\ Read(p) # None
        /\ applied' = Read(p)
     \/ /\ "recordfail" \in Env \/ Read(p) = None
        /\ UNCHANGED applied
  /\ IF op[p] = "apply" THEN Goto(p, "confirm") ELSE Exit(p)
  /\ UNCHANGED <<compiled, committed, unit, kernel, timer, bootJob, history>>

\* A plain apply: stage_copy SCRIPT COMMITTED.
ConfirmPlain(p) ==
  /\ pc[p] = "confirm"
  /\ \/ Read(p) # None /\ committed' = Read(p)
     \/ ("copyfail" \in Env \/ Read(p) = None) /\ UNCHANGED committed
  /\ Exit(p)
  /\ UNCHANGED <<compiled, applied, unit, kernel, timer, bootJob, history>>

-----------------------------------------------------------------------------
(* revert, disable_persistence: zfw revert, a failed apply or boot, and the  *)
(* dead-man end here                                                         *)

StartRevert(c) ==
  /\ Start(c, "revert", "undo4", "none")
  /\ UNCHANGED <<files, unit, kernel, timer, bootJob, history>>

Undo4(p) ==
  /\ pc[p] = "undo4"
  /\ kernel' = [kernel EXCEPT !["v4"] = None]
  /\ Goto(p, "undo6")
  /\ UNCHANGED <<files, unit, timer, bootJob, history>>

\* Mutant of Undo6: the IPv6 chains are forgotten, as up to v1.0.17.
Undo6Skipped(p) ==
  /\ pc[p] = "undo6"
  /\ Goto(p, "unpersist")
  /\ UNCHANGED <<files, unit, kernel, timer, bootJob, history>>

Undo6(p) ==
  /\ pc[p] = "undo6"
  /\ kernel' = [kernel EXCEPT !["v6"] = None]
  /\ Goto(p, "unpersist")
  /\ UNCHANGED <<files, unit, timer, bootJob, history>>

\* Mutant of Unpersist: the unit stays, as the dead-man left it up to v1.0.19.
UnpersistSkipped(p) ==
  /\ pc[p] = "unpersist"
  /\ Goto(p, "forget")
  /\ UNCHANGED <<files, unit, kernel, timer, bootJob, history>>

\* systemctl disable zfw.service; rm its unit file; a start still queued is lost.
\* The daemon-reload that follows the removal of the copies is left out: a unit
\* without a file starts nothing here from this step on.
Unpersist(p) ==
  /\ pc[p] = "unpersist"
  /\ unitExec' = "none"
  /\ enabled' = FALSE
  /\ bootJob' = FALSE
  /\ Goto(p, "forget")
  /\ UNCHANGED <<files, kernel, timer, history>>

\* rm COMMITTED APPLIED.  Only a failed Safe-Apply also stops the timer.
Forget(p) ==
  /\ pc[p] = "forget"
  /\ committed' = None
  /\ applied' = None
  /\ tried' = {}
  /\ IF op[p] = "safe" THEN Goto(p, "disarm") ELSE Exit(p)
  /\ UNCHANGED <<compiled, unit, kernel, timer, bootJob, accepted>>

Disarm(p) ==
  /\ pc[p] = "disarm"
  /\ timer' = FALSE
  /\ Exit(p)
  /\ UNCHANGED <<files, unit, kernel, bootJob, history>>

-----------------------------------------------------------------------------
(* zfw commit *)

\* The operator accepts what is live now.
StartCommit(c) ==
  /\ applied # None
  /\ Start(c, "commit", "stop", "none")
  /\ accepted' = accepted \cup {kernel[f] : f \in {g \in Families : kernel[g] \in Scripts}}
  /\ UNCHANGED <<files, unit, kernel, timer, bootJob, tried>>

\* Stops the timer only: a dead-man service that has started goes on.
StopTimer(p) ==
  /\ pc[p] = "stop"
  /\ timer' = FALSE
  /\ Goto(p, "promote")
  /\ UNCHANGED <<files, unit, kernel, bootJob, history>>

\* Mutant of Promote: what compiled.sh holds by now is promoted, as up to v1.0.26.
PromoteCompiled(p) ==
  /\ pc[p] = "promote"
  /\ \/ /\ compiled[Pick] # None
        /\ committed' = compiled[Pick]
        /\ Goto(p, "install")
     \/ /\ "copyfail" \in Env \/ compiled[Pick] = None
        /\ Exit(p)
        /\ UNCHANGED committed
  /\ UNCHANGED <<compiled, applied, unit, kernel, timer, bootJob, history>>

\* Mutant of Promote: the chains are saved instead, half-built ones too.
PromoteLive(p) ==
  /\ pc[p] = "promote"
  /\ committed' = kernel["v4"]
  /\ Goto(p, "install")
  /\ UNCHANGED <<compiled, applied, unit, kernel, timer, bootJob, history>>

\* stage_copy APPLIED COMMITTED, or exit.
Promote(p) ==
  /\ pc[p] = "promote"
  /\ \/ /\ applied # None
        /\ committed' = applied
        /\ Goto(p, "install")
     \/ /\ "copyfail" \in Env \/ applied = None
        /\ Exit(p)
        /\ UNCHANGED committed
  /\ UNCHANGED <<compiled, applied, unit, kernel, timer, bootJob, history>>

\* Mutant of Install: ExecStart=zfw apply, as up to v1.0.26.
InstallApply(p) ==
  /\ pc[p] = "install"
  /\ unitExec' = "apply"
  /\ Goto(p, "enable")
  /\ UNCHANGED <<files, enabled, kernel, timer, bootJob, history>>

\* write_persist_unit; systemctl daemon-reload
Install(p) ==
  /\ pc[p] = "install"
  /\ unitExec' = "boot"
  /\ Goto(p, "enable")
  /\ UNCHANGED <<files, enabled, kernel, timer, bootJob, history>>

\* systemctl enable, which fails when the unit file is gone.
Enable(p) ==
  /\ pc[p] = "enable"
  /\ \/ unitExec # "none" /\ enabled' = TRUE
     \/ (unitExec = "none" \/ "unitfail" \in Env) /\ UNCHANGED enabled
  /\ Exit(p)
  /\ UNCHANGED <<files, unitExec, kernel, timer, bootJob, history>>

-----------------------------------------------------------------------------
(* zfw _migrate-persist, all that install.sh runs of the engine *)

\* Mutant of StartMigrate: the unit is rewritten without a seed.
StartMigrateUnseeded(c) ==
  /\ unitExec # "none"
  /\ Start(c, "migrate", "rewrite", Pick)
  /\ UNCHANGED <<files, unit, kernel, timer, bootJob, history>>

\* A seed that cannot be read is only a warning.
StartMigrate(c) ==
  /\ unitExec # "none"
  /\ Start(c, "migrate",
           IF committed = None /\ compiled[Pick] # None THEN "seed" ELSE "rewrite", Pick)
  /\ UNCHANGED <<files, unit, kernel, timer, bootJob, history>>

\* stage_copy SEED COMMITTED.  The operator confirmed what the old unit replays.
Seed(p) ==
  /\ pc[p] = "seed"
  /\ \/ /\ Read(p) # None
        /\ committed' = Read(p)
        /\ accepted' = accepted \cup {Read(p)}
        /\ Goto(p, "rewrite")
     \/ /\ "copyfail" \in Env
        /\ Exit(p)
        /\ UNCHANGED <<committed, accepted>>
  /\ UNCHANGED <<compiled, applied, unit, kernel, timer, bootJob, tried>>

Rewrite(p) ==
  /\ pc[p] = "rewrite"
  /\ unitExec' = "boot"
  /\ Exit(p)
  /\ UNCHANGED <<files, enabled, kernel, timer, bootJob, history>>

-----------------------------------------------------------------------------
(* systemd: the timer, zfw.service, dockerd and the host *)

\* 120 s have passed.  The daemon's own Safe-Apply that armed the timer is
\* killed after 90 s (reqCtx, runEngine), so it is never still running.
ArmedByDaemon ==
  "daemon" \in Clients /\ op["daemon"] = "safe" /\ pc["daemon"] \notin {"idle", "rearm", "arm"}

Fire ==
  /\ timer
  /\ ~ArmedByDaemon
  /\ Start("deadman", "autorevert", "undo4", "none")
  /\ timer' = FALSE
  /\ UNCHANGED <<files, unit, kernel, bootJob, history>>

\* Mutant of BootScript: boot replays the current compiled script.
BootScriptCompiled == Pick

\* boot replays the confirmed copy; it falls back to the compiled script when
\* there is none.  A legacy unit runs the plain apply of the compiled script.
BootScript == IF unitExec = "boot" /\ committed # None THEN "committed" ELSE Pick

\* zfw.service starts.
BootStart ==
  /\ bootJob
  /\ BootReplay # None
  /\ bootJob' = FALSE
  /\ Start("boot", unitExec, "run4", BootScript)
  /\ UNCHANGED <<files, unit, kernel, timer, history>>

\* dockerd restarts; zfw.service is PartOf it.  Restarted is a unit systemd has
\* loaded and started, which here is one that is enabled.  (dockerd also empties
\* DOCKER-USER, which it owns; the chains of ZFW in kernel are not touched.)
DockerRestart ==
  /\ "dockerd" \in Env
  /\ Idle("boot")
  /\ "overlap" \notin Env => AllIdle
  /\ bootJob' = enabled
  /\ UNCHANGED <<files, unit, kernel, timer, procs, history>>

\* Processes, chains and the transient timer are gone; the files are not.
Reboot ==
  /\ "reboot" \in Env
  /\ pc' = [p \in Procs |-> "idle"]
  /\ op' = [p \in Procs |-> "none"]
  /\ path' = [p \in Procs |-> "none"]
  /\ script' = [p \in Procs |-> None]
  /\ kernel' = [f \in Families |-> None]
  /\ timer' = FALSE
  /\ bootJob' = enabled
  /\ UNCHANGED <<files, unit, history>>

\* runEngine's deadline: SIGKILL to the engine's process group, which may be
\* in the middle of a family's chains.
Kill(c) ==
  /\ "kill" \in Env
  /\ ~Idle(c)
  /\ Exit(c)
  /\ kernel' \in {kernel} \cup
       (CASE pc[c] = "run4" -> {[kernel EXCEPT !["v4"] = Partial]}
          [] pc[c] = "run6" -> {[kernel EXCEPT !["v6"] = Partial]}
          [] OTHER -> {})
  /\ UNCHANGED <<files, unit, timer, bootJob, history>>

-----------------------------------------------------------------------------
Step(p) ==
  \/ Rearm(p) \/ Arm(p) \/ Run4(p) \/ Run6(p) \/ Record(p) \/ ConfirmPlain(p)
  \/ Undo4(p) \/ Undo6(p) \/ Unpersist(p) \/ Forget(p) \/ Disarm(p)
  \/ StopTimer(p) \/ Promote(p) \/ Install(p) \/ Enable(p)
  \/ Seed(p) \/ Rewrite(p)

Command(c) ==
  \/ /\ c # "install"
     /\ \/ \E verb \in {"apply", "safe"} : StartApply(c, verb)
        \/ StartRevert(c)
        \/ StartCommit(c)
  \/ c = "install" /\ StartMigrate(c)

Next ==
  \/ \E s \in Scripts : Recompile(s)
  \/ \E c \in Clients : Command(c) \/ Kill(c)
  \/ \E p \in Procs : Step(p)
  \/ Fire \/ BootStart \/ DockerRestart \/ Reboot

Spec == Init /\ [][Next]_vars

\* systemd runs what it has started or queued, and its timers elapse.  Nothing
\* makes a client's command finish when it may be killed, and nothing makes
\* anyone start one.
Fairness ==
  /\ \A p \in Procs : WF_vars(Step(p))
  /\ WF_vars(Fire)
  /\ WF_vars(BootStart)

FairSpec == Spec /\ Fairness

-----------------------------------------------------------------------------
(* Properties *)

\* The rollback net (README.md, Safety): rules the operator has not accepted are
\* in the kernel only while the dead-man is armed, being re-armed or at work.
NetCovers ==
  \A f \in Families :
    kernel[f] \in Scripts \ accepted =>
      timer \/ ~Idle("deadman") \/ \E c \in Clients : pc[c] = "arm"

\* The confirmed copy is a ruleset the operator accepted while it was live.
CommittedWasAccepted == committed \in accepted \cup {None}

\* A teardown that runs to its end leaves no chain, no unit and no copy behind.
TeardownIsComplete ==
  [][\A p \in Procs :
       pc[p] = "forget" /\ pc'[p] # "forget" /\ ~(Reboot \/ \E c \in Clients : Kill(c))
         => /\ \A f \in Families : kernel'[f] = None
            /\ BootReplay' = None
            /\ applied' = None /\ committed' = None]_vars

\* A save or a container event never changes what boot replays, on any host
\* whose unit is not a leftover of v1.0.26 or older.
SavesNeverReachBoot ==
  [][(\E s \in Scripts : Recompile(s)) /\ (LegacyUnit => unitExec = "boot")
       => BootReplay' = BootReplay]_vars

\* A plain Apply has no dead-man: none is armed when it ends.
PlainApplyHasNoDeadman ==
  [][\A p \in Procs : ConfirmPlain(p) => ~timer']_vars

\* Once the operator leaves the firewall alone, rules nobody accepted go away.
UnacceptedGoesAway ==
  <>[](\A c \in Clients : Idle(c)) =>
    <>[](\A f \in Families : kernel[f] \notin Scripts \ accepted)

CB == INSTANCE ConfirmedBoot WITH replay <- BootReplay

\* The engine keeps the promise of ConfirmedBoot.
ImplementsConfirmedBoot == CB!Spec
=============================================================================
