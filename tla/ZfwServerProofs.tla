--------------------------- MODULE ZfwServerProofs ---------------------------
(***************************************************************************)
(* Theorems about ZfwServer, for every set of requests and rule sets.      *)
(***************************************************************************)
EXTENDS ZfwServer, TLAPS

USE RuleSetAssumption, ModeAssumption, RequestAssumption, BoundsAssumption,
    EnvAssumption

-----------------------------------------------------------------------------
(* Types and places *)

Critical == {"save", "compile", "engine"}

\* What the place of a process says about its job.
JobInv ==
  \A p \in Proc :
    /\ job[p].op = "save" => job[p].rs \in RuleSet
    /\ pc[p] = "save" => job[p].op = "save"
    /\ pc[p] = "engine" => job[p].op \in {"apply", "commit", "revert"}
    /\ pc[p] = "compile" => job[p].op \notin {"commit", "revert"}
    /\ pc[p] \in {"migrate", "rewrite"} => job[p].rs \in RuleSet
    /\ pc[p] \in {"seed", "reseed"} => p = "main"

\* Server.mu is held exactly inside the critical section.
LockInv == \A p \in Proc : pc[p] \in Critical <=> mu = p

\* Start-up runs alone, and requests and the watcher only once it is over.
PhaseInv ==
  /\ daemon = "down" => \A p \in Proc : Idle(p)
  /\ daemon = "starting" => \A p \in Proc \ {"main"} : Idle(p)
  /\ daemon = "up" => Idle("main")
  /\ watch.stream = "off" => ~watch.queued /\ ~watch.armed
  /\ daemon # "up" => watch.stream = "off"

\* While dockerd is down its containers are still to come up.
DockerInv == ~docker.up => docker.inv < MaxInv

TypeInv == TypeOK /\ JobInv /\ LockInv /\ PhaseInv /\ DockerInv

\* "main" and "watch" are two processes beside the requests.
LEMMA Procs == "main" \in Proc /\ "watch" \in Proc /\ None \notin Proc
BY DEF Proc

\* The initial states have the types.
LEMMA TypeInit == Init => TypeInv
<1> SUFFICES ASSUME Init PROVE TypeInv
  OBVIOUS
<1> USE Procs DEF Init, NoJob, Unknown, Inventory
<1>1. TypeOK
  BY DEF TypeOK, RulesFile, Places, Ops, RuleSet, Variants
<1>2. JobInv
  BY DEF JobInv
<1>3. LockInv
  BY DEF LockInv, Critical
<1>4. PhaseInv
  BY DEF PhaseInv, Idle
<1>5. DockerInv
  BY DEF DockerInv
<1> QED
  BY <1>1, <1>2, <1>3, <1>4, <1>5 DEF TypeInv

\* What a compile writes has the type of the scripts.
LEMMA CompileType ==
  ASSUME TypeOK, NEW p \in Proc, CanCompile(p), CompileThen(p)
  PROVE  /\ compiled' \in [Variants -> Script \cup {None}]
         /\ lastCompiled' \in RuleSet
         /\ file # None
<1>1. file # None /\ file.rs \in RuleSet
  BY DEF TypeOK, RulesFile, CanCompile
<1>2. Output(p) \in Script
  BY <1>1 DEF TypeOK, Output, Script
<1> HIDE DEF Output
<1> QED
  BY <1>1, <1>2 DEF CompileThen, TypeOK, Variants

\* What the engine reads has the type of the scripts.
LEMMA PickType ==
  ASSUME TypeOK PROVE compiled[Pick] \in Script \cup {None}
BY DEF TypeOK, Pick, Variants

\* A step of a process keeps the types.
LEMMA TypeStepOfProcess ==
  ASSUME TypeInv, NEW p \in Proc, Step(p)
  PROVE  TypeInv'
<1>0. UNCHANGED docker => DockerInv'
  BY DEF TypeInv, DockerInv
<1> USE <1>0, Procs DEF TypeInv, TypeOK, RulesFile, JobInv, LockInv, PhaseInv, Critical, Places, Ops,
            Idle, Goto, Finish, NoJob, work, memory, kernel, bounds, Unknown
<1>1. CASE Prefetch(p)
  <2>0. ReadDocker \in Inventory \cup {Unknown}
    BY DEF ReadDocker, Inventory
  <2>1. TypeOK'
    BY <1>1, <2>0, SMTT(30) DEF Prefetch
  <2>2. JobInv' /\ LockInv'
    BY <1>1 DEF Prefetch
  <2>3. PhaseInv' /\ DockerInv'
    BY <1>1 DEF Prefetch
  <2> QED
    BY <2>1, <2>2, <2>3
<1>2. CASE ListFails(p)
  BY <1>2 DEF ListFails
<1>3. CASE Backup(p)
  BY <1>3 DEF Backup
<1>4. CASE Rewrite(p)
  BY <1>4 DEF Rewrite, Current
<1>5. CASE MigrationFails(p)
  BY <1>5 DEF MigrationFails
<1>6. CASE Lock(p)
  BY <1>6 DEF Lock
<1>7. CASE Save(p)
  BY <1>7 DEF Save, Current
<1>8. CASE Refuse(p)
  BY <1>8 DEF Refuse
<1>9. CASE Compile(p)
  <2>1. /\ compiled' \in [Variants -> Script \cup {None}]
        /\ lastCompiled' \in RuleSet
    BY <1>9, CompileType DEF Compile
  <2>2. CASE job[p].op = "apply"
    BY <1>9, <2>1, <2>2 DEF Compile
  <2>3. CASE job[p].op # "apply"
    <3> HIDE DEF TypeInv, JobInv, LockInv, PhaseInv
    <3>1. Finish(p) /\ UNCHANGED <<daemon, file, bak, lastApplied, kernel, docker, watch, bounds>>
      BY <1>9, <2>3 DEF Compile
    <3>2. TypeOK'
      BY <2>1, <3>1 DEF TypeInv
    <3>3. JobInv' /\ LockInv'
      BY <3>1 DEF TypeInv, JobInv, LockInv
    <3>4. PhaseInv'
      BY <1>9, <3>1 DEF TypeInv, PhaseInv, Compile
    <3> QED
      BY <3>1, <3>2, <3>3, <3>4, <1>0 DEF TypeInv
  <2> QED
    BY <2>2, <2>3
<1>10. CASE EngineApply(p)
  <2>1. /\ clients' \subseteq {"known", "other"}
        /\ boot' \in Script \cup {None}
        /\ live' \in Script \cup {None}
    BY <1>10, PickType DEF EngineApply, Flush
  <2>2. /\ lastApplied' = lastCompiled
        /\ Finish(p)
        /\ UNCHANGED <<daemon, file, bak, compiled, lastCompiled, docker, watch, bounds>>
    BY <1>10 DEF EngineApply
  <2> QED
    BY <2>1, <2>2
<1>11. CASE EngineFails(p)
  BY <1>11, PickType DEF EngineFails
<1>12. CASE EngineCommit(p)
  BY <1>12 DEF EngineCommit
<1>13. CASE EngineRevert(p)
  BY <1>13 DEF EngineRevert
<1> QED
  BY <1>1, <1>2, <1>3, <1>4, <1>5, <1>6, <1>7, <1>8, <1>9, <1>10, <1>11, <1>12, <1>13 DEF Step

WatchType == watch \in [stream : {"off", "on", "ended"}, queued : BOOLEAN, armed : BOOLEAN]

\* A fresh record of the watcher has its type.
LEMMA WatchFresh ==
  ASSUME NEW s \in {"off", "on", "ended"},
         watch' = [stream |-> s, queued |-> FALSE, armed |-> FALSE]
  PROVE  WatchType'
BY DEF WatchType

\* An update of the watcher's flags keeps its type.
LEMMA WatchUpdate ==
  ASSUME WatchType, NEW q \in BOOLEAN, NEW a \in BOOLEAN
  PROVE  /\ [watch EXCEPT !.queued = q] \in [stream : {"off", "on", "ended"}, queued : BOOLEAN, armed : BOOLEAN]
         /\ [watch EXCEPT !.armed = a] \in [stream : {"off", "on", "ended"}, queued : BOOLEAN, armed : BOOLEAN]
         /\ [watch EXCEPT !.queued = q, !.armed = a] \in [stream : {"off", "on", "ended"}, queued : BOOLEAN, armed : BOOLEAN]
BY DEF WatchType

\* The watcher keeps the types.
LEMMA TypeWatcher == ASSUME TypeInv, Watcher PROVE TypeInv'
<1>0. UNCHANGED docker => DockerInv'
  BY DEF TypeInv, DockerInv
<1> USE <1>0, Procs DEF TypeInv, TypeOK, RulesFile, JobInv, LockInv, PhaseInv, Critical, Places, Ops,
            Idle, Start, work, memory, kernel, bounds
<1>1. CASE Connect
  <2>1. WatchType'
    BY <1>1, WatchFresh DEF Connect
  <2> QED
    BY <1>1, <2>1 DEF Connect, WatchType
<1>2. CASE Arm
  <2>1. WatchType' /\ watch'.stream = watch.stream /\ watch.stream # "off"
    BY <1>2, WatchUpdate DEF Arm, WatchType
  <2> QED
    BY <1>2, <2>1 DEF Arm, WatchType
<1>3. CASE Fire
  <2>1. WatchType' /\ watch'.stream = watch.stream /\ watch.stream # "off"
    BY <1>3, WatchUpdate DEF Fire, WatchType
  <2> QED
    BY <1>3, <2>1 DEF Fire, WatchType
<1>4. CASE Ended
  <2>0. WatchType' /\ watch'.stream = "off" /\ ~watch'.queued /\ ~watch'.armed
    BY <1>4, WatchFresh DEF Ended
  <2>1. CASE watch.armed
    <3>1. /\ daemon = "up"
          /\ pc["watch"] = "idle"
          /\ pc' = [pc EXCEPT !["watch"] = "prefetch"]
          /\ job' = [job EXCEPT !["watch"] = [op |-> "recompile", rs |-> None]]
          /\ UNCHANGED <<daemon, got, mu, file, bak, compiled, lastCompiled, lastApplied,
                          live, boot, clients, docker, ops, crashes>>
      BY <1>4, <2>1 DEF Ended
    <3> QED
      BY <3>1, <2>0 DEF WatchType
  <2>2. CASE ~watch.armed
    BY <1>4, <2>0, <2>2 DEF Ended, WatchType
  <2> QED
    BY <2>1, <2>2
<1> QED
  BY <1>1, <1>2, <1>3, <1>4 DEF Watcher

\* Start-up keeps the types.
LEMMA TypeMain == ASSUME TypeInv, Main PROVE TypeInv'
<1>0. UNCHANGED docker => DockerInv'
  BY DEF TypeInv, DockerInv
<1> USE <1>0, Procs DEF TypeInv, TypeOK, RulesFile, JobInv, LockInv, PhaseInv, Critical, Places, Ops,
            Idle, Start, Goto, work, memory, kernel, bounds
<1>1. CASE Boot
  BY <1>1 DEF Boot
<1>2. CASE MainSeed
  BY <1>2 DEF MainSeed
<1>3. CASE MainReseed
  BY <1>3 DEF MainReseed, Current, RuleSet, RulesFile
<1>4. CASE Listen
  BY <1>4 DEF Listen
<1> QED
  BY <1>1, <1>2, <1>3, <1>4 DEF Main

\* What happens outside the daemon keeps the types.
LEMMA TypeOutside == ASSUME TypeInv, Outside PROVE TypeInv'
<1> USE Procs DEF TypeInv, TypeOK, RulesFile, JobInv, LockInv, PhaseInv, Critical, Places, Ops,
            Idle, NoJob, work, memory, kernel, bounds, Inventory, Unknown, DockerInv
<1>1. CASE Crash
  BY <1>1 DEF Crash
<1>2. CASE DeadMan
  BY <1>2 DEF DeadMan
<1>3. CASE ContainerEvent
  <2> DEFINE q == watch.queued \/ watch.stream = "on"
  <2>1. q \in BOOLEAN /\ watch' = [watch EXCEPT !.queued = q]
    BY <1>3 DEF ContainerEvent, Seen
  <2>2. WatchType' /\ watch'.stream = watch.stream /\ watch'.armed = watch.armed
    BY <2>1, WatchUpdate DEF WatchType
  <2>3. watch.stream = "off" => ~watch'.queued
    BY <2>1
  <2>4. docker' \in [inv : 0..MaxInv, up : BOOLEAN] /\ docker'.up
    BY <1>3 DEF ContainerEvent
  <2> HIDE DEF q
  <2> QED
    BY <1>3, <2>2, <2>3, <2>4 DEF ContainerEvent, WatchType
<1>4. CASE DockerStops
  <2>1. WatchType' /\ (watch.stream = "off" => watch' = watch)
    BY <1>4 DEF DockerStops, WatchType
  <2>2. /\ docker' \in [inv : 0..MaxInv, up : BOOLEAN]
        /\ docker'.inv < MaxInv
    BY <1>4 DEF DockerStops
  <2>3. watch'.stream = "off" => watch.stream = "off"
    BY <1>4 DEF DockerStops
  <2> QED
    BY <1>4, <2>1, <2>2, <2>3 DEF DockerStops, WatchType
<1>5. CASE DockerStarts
  <2>1. docker' \in [inv : 0..MaxInv, up : BOOLEAN] /\ docker'.up
    BY <1>5 DEF DockerStarts
  <2> QED
    BY <1>5, <2>1 DEF DockerStarts, Replay
<1>6. CASE ClientConnects
  BY <1>6 DEF ClientConnects
<1> QED
  BY <1>1, <1>2, <1>3, <1>4, <1>5, <1>6 DEF Outside

\* A new request keeps the types.
LEMMA TypeRequest == ASSUME TypeInv, NEW p \in Request, NewRequest(p) PROVE TypeInv'
<1>1. p \in Proc /\ p # "main" /\ p # "watch"
  BY DEF Proc
<1>2. PICK op \in Ops, rs \in RuleSet \cup {None}, place \in {"prefetch", "lock"} :
        /\ Begin(p, op, rs, place)
        /\ op = "save" => rs \in RuleSet
  BY DEF NewRequest, PostRules, PostDefaults, PostApply, PostCommit, PostRevert, Ops, RuleSet
<1> USE Procs DEF TypeInv, TypeOK, RulesFile, JobInv, LockInv, PhaseInv, Critical, Places, Ops,
            Idle, Start, work, memory, kernel, bounds, Begin, DockerInv
<1> QED
  BY <1>1, <1>2

\* A step keeps the types.
LEMMA TypeStep == TypeInv /\ [Next]_vars => TypeInv'
<1> SUFFICES ASSUME TypeInv, [Next]_vars PROVE TypeInv'
  OBVIOUS
<1>1. CASE \E p \in Request : NewRequest(p)
  BY <1>1, TypeRequest
<1>2. CASE \E p \in Proc : Step(p)
  BY <1>2, TypeStepOfProcess
<1>3. CASE Watcher \/ Main \/ Outside
  BY <1>3, TypeWatcher, TypeMain, TypeOutside
<1>4. CASE UNCHANGED vars
  BY <1>4 DEF vars, work, memory, kernel, bounds, TypeInv, TypeOK, JobInv, LockInv, PhaseInv, DockerInv, Idle
<1> QED
  BY <1>1, <1>2, <1>3, <1>4 DEF Next

\* Whatever is asked of the daemon, in whatever order, its state keeps its
\* types and Server.mu is held exactly inside the critical sections.
THEOREM ServerTypes == Spec => []TypeOK
<1>1. Spec => []TypeInv
  BY TypeInit, TypeStep, PTL DEF Spec
<1>2. TypeInv => TypeOK
  BY DEF TypeInv
<1> QED
  BY <1>1, <1>2, PTL

-----------------------------------------------------------------------------
(* The rule set file and the scripts *)

\* What the theorems below ask of the environment: the migration of an old
\* rules.json succeeds, and so does the write of the script the engine reads.
SafeEnv == "diskfail" \notin Env /\ (Mode = "bash" \/ "restorefail" \notin Env)

OldFile == file # None /\ file.schema = "old"

\* Only start-up, alone, meets a file of an older schema, and it works on
\* the very bytes that are in the file.
FileInv ==
  /\ job["main"].op = "recompile"
  /\ \A p \in Proc : pc[p] \in {"migrate", "rewrite"} =>
       p = "main" /\ OldFile /\ job[p].rs = file.rs
  /\ pc["main"] = "rewrite" => bak = file.rs
  /\ pc["main"] = "reseed" => file = None
  /\ OldFile /\ daemon # "down" =>
       daemon = "starting" /\ pc["main"] \in {"seed", "prefetch", "migrate", "rewrite"}

\* From the compile to the end of the engine the script is the file's.
ApplyInv ==
  \A p \in Proc : pc[p] = "engine" /\ job[p].op = "apply" =>
    /\ file # None
    /\ compiled[Pick] # None
    /\ compiled[Pick].rs = file.rs
    /\ lastCompiled = file.rs

\* No script has a deny policy over an unknown inventory.
ScopedInv ==
  /\ \A m \in Variants :
       compiled[m] # None /\ compiled[m].rs \in Deny => compiled[m].ports # Unknown
  /\ boot # None /\ boot.rs \in Deny => boot.ports # Unknown
  /\ NeverUnscoped

ServerInv == TypeInv /\ FileInv /\ ApplyInv /\ ScopedInv

\* The initial states satisfy the invariant.
LEMMA ServerInit == Init => ServerInv
<1> SUFFICES ASSUME Init PROVE ServerInv
  OBVIOUS
<1>1. TypeInv
  BY TypeInit
<1>2. FileInv /\ ApplyInv
  BY Procs DEF Init, FileInv, ApplyInv, NoJob, OldFile
<1>3. ScopedInv
  BY DEF Init, ScopedInv, NeverUnscoped
<1> QED
  BY <1>1, <1>2, <1>3 DEF ServerInv

\* Start-up alone touches an old file.
LEMMA FileStepOfProcess ==
  ASSUME SafeEnv, ServerInv, NEW p \in Proc, Step(p)
  PROVE  FileInv'
<1> USE Procs DEF SafeEnv, ServerInv, TypeInv, TypeOK, RulesFile, FileInv, PhaseInv, OldFile,
            Idle, Goto, Finish, NoJob, work, memory, kernel, bounds
<1>1. CASE Prefetch(p)
  <2>1. CASE OldFile /\ job[p].op # "save"
    <3>1. daemon = "starting" /\ p = "main"
      BY <1>1, <2>1 DEF Prefetch
    <3> QED
      BY <1>1, <2>1, <3>1 DEF Prefetch
  <2>2. CASE ~(OldFile /\ job[p].op # "save")
    BY <1>1, <2>2 DEF Prefetch
  <2> QED
    BY <2>1, <2>2
<1>2. CASE ListFails(p)
  BY <1>2 DEF ListFails
<1>3. CASE Backup(p)
  BY <1>3 DEF Backup
<1>4. CASE Rewrite(p)
  BY <1>4 DEF Rewrite, Current
<1>5. CASE MigrationFails(p)
  BY <1>5 DEF MigrationFails
<1>6. CASE Lock(p)
  BY <1>6 DEF Lock
<1>7. CASE Save(p)
  <2>1. p # "main"
    BY <1>7 DEF Save, JobInv
  <2>2. daemon = "up"
    BY <1>7, <2>1 DEF Save
  <2> QED
    BY <1>7, <2>1, <2>2 DEF Save, Current
<1>8. CASE Refuse(p)
  BY <1>8 DEF Refuse
<1>9. CASE Compile(p)
  BY <1>9 DEF Compile
<1>10. CASE EngineApply(p)
  BY <1>10 DEF EngineApply
<1>11. CASE EngineFails(p)
  BY <1>11 DEF EngineFails
<1>12. CASE EngineCommit(p)
  BY <1>12 DEF EngineCommit
<1>13. CASE EngineRevert(p)
  BY <1>13 DEF EngineRevert
<1> QED
  BY <1>1, <1>2, <1>3, <1>4, <1>5, <1>6, <1>7, <1>8, <1>9, <1>10, <1>11, <1>12, <1>13 DEF Step

\* A successful compile writes what the engine will read.
LEMMA CompileWrites ==
  ASSUME SafeEnv, TypeOK, NEW p \in Proc, CompileThen(p), CanCompile(p)
  PROVE  /\ compiled'[Pick'] # None
         /\ compiled'[Pick'].rs = file.rs
         /\ lastCompiled' = file.rs
         /\ \A m \in Variants : compiled'[m] \in {compiled[m], Output(p)}
         /\ Output(p) # None
         /\ Output(p).rs = file.rs /\ Output(p).ports = got[p]
         /\ ~(file.rs \in Deny /\ got[p] = Unknown)
<1>1. file # None /\ file.rs \in RuleSet
  BY DEF TypeOK, CanCompile, RulesFile
<1>2. /\ Output(p) = [rs |-> file.rs, ports |-> got[p]]
      /\ Output(p) \in Script
      /\ Output(p) # None
  BY <1>1, NoneAssumption DEF Output, Script, TypeOK
<1>3. /\ Output(p).rs = file.rs /\ Output(p).ports = got[p]
      /\ ~(file.rs \in Deny /\ got[p] = Unknown)
  BY <1>2 DEF CanCompile
<1>4. \A m \in Variants : compiled'[m] \in {compiled[m], Output(p)}
  BY DEF CompileThen, TypeOK, Variants
<1>5. lastCompiled' = file.rs
  BY DEF CompileThen
<1> HIDE DEF Output
<1>6. compiled'[Pick'] = Output(p)
  <2>1. CASE Mode = "bash"
    <3>1. Pick' = "bash" /\ Variants = {"bash"}
      BY <2>1 DEF Pick, Variants
    <3> QED
      BY <3>1 DEF CompileThen, TypeOK
  <2>2. CASE Mode # "bash"
    <3>1. Mode = "restore" /\ "restorefail" \notin Env /\ Variants = {"bash", "restore"}
      BY <2>2 DEF SafeEnv, Variants
    <3>2. compiled' = [m \in Variants |-> Output(p)]
      BY <3>1 DEF CompileThen
    <3> QED
      BY <3>1, <3>2 DEF Pick
  <2> QED
    BY <2>1, <2>2
<1> QED
  BY <1>2, <1>3, <1>4, <1>5, <1>6

\* The watcher, start-up, the environment and a new request leave an old file
\* to start-up.
LEMMA FileOtherSteps ==
  ASSUME ServerInv,
         Watcher \/ Main \/ Outside \/ \E p \in Request : NewRequest(p)
  PROVE  FileInv'
<1> USE Procs DEF ServerInv, TypeInv, TypeOK, RulesFile, FileInv, PhaseInv, OldFile,
            Idle, Goto, Start, NoJob, work, memory, kernel, bounds
<1>1. CASE Watcher
  BY <1>1 DEF Watcher, Connect, Arm, Fire, Ended
<1>2. CASE Boot
  BY <1>2 DEF Boot
<1>3. CASE MainSeed
  BY <1>3 DEF MainSeed
<1>4. CASE MainReseed
  BY <1>4 DEF MainReseed, Current
<1>5. CASE Listen
  BY <1>5 DEF Listen
<1>6. CASE Crash
  BY <1>6 DEF Crash
<1>7. CASE DeadMan \/ ClientConnects \/ ContainerEvent \/ DockerStops \/ DockerStarts
  BY <1>7 DEF DeadMan, ClientConnects, ContainerEvent, DockerStops, DockerStarts
<1>8. CASE \E p \in Request : NewRequest(p)
  <2>1. PICK p \in Request, op \in Ops, rs \in RuleSet \cup {None}, place \in {"prefetch", "lock"} :
          Begin(p, op, rs, place)
    BY <1>8 DEF NewRequest, PostRules, PostDefaults, PostApply, PostCommit, PostRevert, Ops, RuleSet
  <2>2. p \in Proc /\ p # "main"
    BY DEF Proc
  <2> QED
    BY <2>1, <2>2 DEF Begin
<1> QED
  BY <1>1, <1>2, <1>3, <1>4, <1>5, <1>6, <1>7, <1>8 DEF Main, Outside

-----------------------------------------------------------------------------
(* The register *)

RegisterInv == ApplyInv /\ ScopedInv
RegisterStep == [Register!Next]_Register!vars

\* What a script enforces is a rule set.
LEMMA ScriptRules ==
  ASSUME TypeOK
  PROVE  /\ live # None => live.rs \in RuleSet /\ live.rs # None
         /\ boot # None => boot.rs \in RuleSet /\ boot.rs # None
         /\ file # None => file.rs \in RuleSet /\ file.rs # None
BY RuleSetAssumption DEF TypeOK, Script, RulesFile

\* A step that writes neither the file nor a script, and brings nobody to the
\* engine with an apply, is a stutter of the register, or it confirms,
\* replays or tears down what is in force.
LEMMA Untouched ==
  ASSUME ServerInv,
         UNCHANGED <<file, compiled, lastCompiled>>,
         \/ UNCHANGED <<live, boot>>
         \/ live' = None /\ boot' = None
         \/ live # None /\ live' = live /\ boot' = live
         \/ boot # None /\ live' = boot /\ boot' = boot,
         \A q \in Proc : pc'[q] = "engine" /\ job'[q].op = "apply"
                         => pc[q] = "engine" /\ job[q].op = "apply"
  PROVE  RegisterInv' /\ RegisterStep
<1>1. ApplyInv'
  BY DEF ServerInv, ApplyInv, Pick
<1>2. ScopedInv'
  BY DEF ServerInv, ScopedInv, NeverUnscoped
<1>3. RegisterStep
  BY ScriptRules DEF ServerInv, TypeInv, RegisterStep, Register!Next, Register!vars,
     Register!Off, Register!Confirm, Register!Replay
<1> QED
  BY <1>1, <1>2, <1>3 DEF RegisterInv

\* Server.mu keeps everybody else out of the critical section.
LEMMA Alone ==
  ASSUME TypeInv, NEW p \in Proc, NEW q \in Proc, pc[p] \in Critical, q # p
  PROVE  pc[q] \notin Critical
BY DEF TypeInv, LockInv

\* A save is a Save.
LEMMA SaveIsSave ==
  ASSUME ServerInv, NEW p \in Proc, Save(p)
  PROVE  RegisterInv' /\ RegisterStep
<1>1. /\ file' = Current(job[p].rs) /\ job[p].rs \in RuleSet
      /\ UNCHANGED <<compiled, live, boot>>
      /\ pc' = [pc EXCEPT ![p] = "compile"]
  BY DEF Save, ServerInv, TypeInv, JobInv, Goto, kernel
<1>2. \A q \in Proc : pc'[q] # "engine"
  BY <1>1, Alone DEF Save, ServerInv, TypeInv, TypeOK, Critical
<1>3. ApplyInv'
  BY <1>2 DEF ApplyInv
<1>4. ScopedInv'
  BY <1>1 DEF ServerInv, ScopedInv, NeverUnscoped
<1>5. file' # None /\ file'.rs = job[p].rs
  BY <1>1, NoneAssumption DEF Current, RulesFile
<1>6. RegisterStep
  BY <1>1, <1>5 DEF RegisterStep, Register!Next, Register!vars, Register!Save
<1> QED
  BY <1>3, <1>4, <1>6 DEF RegisterInv

\* Start-up writes the file while nobody else runs.
LEMMA StartupIsSave ==
  ASSUME ServerInv,
         MainReseed \/ \E p \in Proc : Rewrite(p)
  PROVE  RegisterInv' /\ RegisterStep
<1> USE Procs DEF ServerInv, TypeInv, TypeOK
<1>1. /\ pc["main"] \in {"reseed", "rewrite"}
      /\ daemon = "starting"
      /\ UNCHANGED <<compiled, live, boot>>
      /\ \E place \in {"prefetch", "lock"} : pc' = [pc EXCEPT !["main"] = place]
  BY DEF MainReseed, Rewrite, Goto, kernel, FileInv, PhaseInv, Idle
<1>2. \A q \in Proc : pc'[q] # "engine"
  BY <1>1 DEF PhaseInv, Idle
<1>3. ApplyInv'
  BY <1>2 DEF ApplyInv
<1>4. ScopedInv'
  BY <1>1 DEF ScopedInv, NeverUnscoped
<1>5. \/ file' = None /\ file = None
      \/ file' # None /\ file'.rs \in RuleSet
  <2>1. CASE MainReseed
    <3>1. PICK rs \in {Seed, PartialSeed} :
            file = None /\ file' \in {None, Current(rs)}
      BY <2>1 DEF MainReseed, FileInv
    <3>2. Current(rs) \in RulesFile /\ Current(rs).rs = rs /\ rs \in RuleSet
      BY DEF Current, RulesFile, RuleSet
    <3>3. Current(rs) # None
      BY <3>2, NoneAssumption
    <3> HIDE DEF TypeOK, TypeInv, ServerInv
    <3>4. CASE file' = Current(rs)
      BY <3>2, <3>3, <3>4
    <3>5. CASE file' = None
      BY <3>1, <3>5
    <3> QED
      BY <3>1, <3>4, <3>5
  <2>2. CASE \E p \in Proc : Rewrite(p)
    <3>1. PICK p \in Proc : file' = Current(job[p].rs) /\ job[p].rs \in RuleSet
      BY <2>2 DEF Rewrite, JobInv
    <3> QED
      BY <3>1, NoneAssumption DEF Current, RulesFile
  <2> QED
    BY <2>1, <2>2
<1>6. RegisterStep
  BY <1>1, <1>5 DEF RegisterStep, Register!Next, Register!vars, Register!Save
<1> QED
  BY <1>3, <1>4, <1>6 DEF RegisterInv

\* A compile leaves the register alone and prepares the apply.
LEMMA CompileStutters ==
  ASSUME SafeEnv, ServerInv, NEW p \in Proc, Compile(p)
  PROVE  RegisterInv' /\ RegisterStep
<1> USE DEF ServerInv, TypeInv
<1>1. /\ pc[p] = "compile" /\ CanCompile(p) /\ CompileThen(p)
      /\ UNCHANGED <<file, live, boot>>
  BY DEF Compile, Finish, Goto, kernel
<1>2. \A q \in Proc : pc'[q] = "engine" => q = p
  BY <1>1, Alone DEF Compile, Finish, Goto, TypeOK, Critical
<1>3. ApplyInv'
  <2>1. /\ file # None
        /\ compiled'[Pick'] # None
        /\ compiled'[Pick'].rs = file.rs
        /\ lastCompiled' = file.rs
    BY <1>1, CompileWrites DEF CanCompile
  <2> QED
    BY <1>1, <1>2, <2>1 DEF ApplyInv
<1>4. ScopedInv'
  <2>1. \A m \in Variants : compiled'[m] # None /\ compiled'[m].rs \in Deny
                            => compiled'[m].ports # Unknown
    BY <1>1, CompileWrites DEF ScopedInv
  <2> QED
    BY <1>1, <2>1 DEF ScopedInv, NeverUnscoped
<1>5. RegisterStep
  BY <1>1 DEF RegisterStep, Register!vars
<1> QED
  BY <1>3, <1>4, <1>5 DEF RegisterInv

\* An apply that puts rules in force, whether the engine then succeeds or
\* fails at the confirmed copy, is an Apply.
LEMMA EngineIsApply ==
  ASSUME ServerInv, NEW p \in Proc,
         EngineApply(p) \/ EngineFails(p),
         job[p].op = "apply", live' = compiled[Pick],
         boot' = boot \/ (boot # None /\ boot' = live')
  PROVE  RegisterInv' /\ RegisterStep
<1> USE DEF ServerInv, TypeInv
<1>1. /\ pc[p] = "engine"
      /\ UNCHANGED <<file, compiled>>
      /\ Finish(p)
  BY DEF EngineApply, EngineFails
<1>2. file # None /\ live' # None /\ live'.rs = file.rs
  BY <1>1 DEF ApplyInv
<1>3. \A q \in Proc : pc'[q] # "engine"
  BY <1>1, Alone DEF Finish, TypeOK, Critical
<1>4. ApplyInv'
  BY <1>3 DEF ApplyInv
<1>5. ScopedInv'
  <2>1. Pick \in Variants
    BY DEF Pick, Variants
  <2> QED
    BY <1>1, <2>1 DEF ScopedInv, NeverUnscoped
<1>6. RegisterStep
  BY <1>1, <1>2, ScriptRules DEF RegisterStep, Register!Next, Register!vars, Register!Apply
<1> QED
  BY <1>4, <1>5, <1>6 DEF RegisterInv

\* Every other step leaves the file and the scripts alone.
LEMMA OtherStepOfProcess ==
  ASSUME ServerInv, NEW p \in Proc,
         \/ Prefetch(p) \/ ListFails(p) \/ Backup(p) \/ MigrationFails(p)
         \/ Lock(p) \/ Refuse(p) \/ EngineCommit(p) \/ EngineRevert(p)
         \/ EngineFails(p) /\ ~(job[p].op = "apply" /\ live' = compiled[Pick] /\ boot' = boot)
  PROVE  RegisterInv' /\ RegisterStep
<1> USE DEF ServerInv, TypeInv, TypeOK, Goto, Finish, memory, kernel, NoJob
<1>1. UNCHANGED <<file, compiled, lastCompiled>>
  BY DEF Prefetch, ListFails, Backup, MigrationFails, Lock, Refuse, EngineFails, EngineCommit,
         EngineRevert
<1>2. \/ UNCHANGED <<live, boot>>
      \/ live' = None /\ boot' = None
      \/ live # None /\ live' = live /\ boot' = live
  BY DEF Prefetch, ListFails, Backup, MigrationFails, Lock, Refuse, EngineFails, EngineCommit,
         EngineRevert
<1>3. \A q \in Proc : pc'[q] = "engine" /\ job'[q].op = "apply"
                      => pc[q] = "engine" /\ job[q].op = "apply"
  BY DEF Prefetch, ListFails, Backup, MigrationFails, Lock, Refuse, EngineFails, EngineCommit,
         EngineRevert
<1> HIDE DEF ServerInv
<1> QED
  BY <1>1, <1>2, <1>3, Untouched

\* So do the watcher, start-up, the environment and a new request.
LEMMA OtherSteps ==
  ASSUME ServerInv,
         \/ Watcher \/ Boot \/ MainSeed \/ Listen \/ Outside
         \/ \E p \in Request : NewRequest(p)
  PROVE  RegisterInv' /\ RegisterStep
<1> USE Procs DEF ServerInv, TypeInv, TypeOK, Goto, Start, memory, kernel, work, bounds, NoJob
<1>1. CASE Watcher \/ Boot \/ MainSeed \/ Listen
  <2>1. UNCHANGED <<file, compiled, lastCompiled, live, boot>>
    BY <1>1 DEF Watcher, Connect, Arm, Fire, Ended, Boot, MainSeed, Listen
  <2>2. \A q \in Proc : pc'[q] = "engine" => pc[q] = "engine" /\ job'[q] = job[q]
    BY <1>1 DEF Watcher, Connect, Arm, Fire, Ended, Boot, MainSeed, Listen
  <2> HIDE DEF ServerInv
  <2> QED
    BY <2>1, <2>2, Untouched
<1>2. CASE DeadMan \/ ClientConnects \/ ContainerEvent \/ DockerStops \/ DockerStarts
  <2>1. UNCHANGED <<file, compiled, lastCompiled, pc, job>>
    BY <1>2 DEF DeadMan, ClientConnects, ContainerEvent, DockerStops, DockerStarts
  <2>2. \/ UNCHANGED <<live, boot>>
        \/ live' = None /\ boot' = None
        \/ boot # None /\ live' = boot /\ boot' = boot
    BY <1>2 DEF DeadMan, ClientConnects, ContainerEvent, DockerStops, DockerStarts, Replay
  <2> HIDE DEF ServerInv
  <2> QED
    BY <2>1, <2>2, Untouched
<1>3. CASE Crash
  <2>1. UNCHANGED <<file, compiled, live, boot>> /\ \A q \in Proc : pc'[q] # "engine"
    BY <1>3 DEF Crash
  <2>2. ApplyInv' /\ ScopedInv'
    BY <2>1 DEF ApplyInv, ScopedInv, NeverUnscoped
  <2>3. RegisterStep
    BY <2>1 DEF RegisterStep, Register!vars
  <2> QED
    BY <2>2, <2>3 DEF RegisterInv
<1>4. CASE \E p \in Request : NewRequest(p)
  <2>1. PICK p \in Request, op \in Ops, rs \in RuleSet \cup {None}, place \in {"prefetch", "lock"} :
          Begin(p, op, rs, place)
    BY <1>4 DEF NewRequest, PostRules, PostDefaults, PostApply, PostCommit, PostRevert, Ops, RuleSet
  <2>2. UNCHANGED <<file, compiled, lastCompiled, live, boot>>
    BY <2>1 DEF Begin
  <2>3. \A q \in Proc : pc'[q] = "engine" => pc[q] = "engine" /\ job'[q] = job[q]
    BY <2>1 DEF Begin, Proc
  <2> HIDE DEF ServerInv
  <2> QED
    BY <2>2, <2>3, Untouched
<1> QED
  BY <1>1, <1>2, <1>3, <1>4 DEF Outside

\* A step of the daemon or of its environment keeps the invariant and is a
\* step of the register.
LEMMA ServerStep ==
  ASSUME SafeEnv, ServerInv, [Next]_vars
  PROVE  ServerInv' /\ RegisterStep
<1>1. TypeInv'
  BY TypeStep DEF ServerInv
<1>2. FileInv' /\ RegisterInv' /\ RegisterStep
  <2>1. CASE \E p \in Proc : Step(p)
    <3>1. PICK p \in Proc : Step(p)
      BY <2>1
    <3>2. FileInv'
      BY <3>1, FileStepOfProcess
    <3>3. CASE Save(p)
      BY <3>2, <3>3, SaveIsSave
    <3>4. CASE Rewrite(p)
      BY <3>2, <3>4, StartupIsSave
    <3>5. CASE Compile(p)
      BY <3>2, <3>5, CompileStutters
    <3>6. CASE EngineApply(p)
      <4>1. /\ job[p].op = "apply" /\ live' = compiled[Pick]
            /\ boot' = boot \/ (boot # None /\ boot' = live')
        BY <3>6 DEF EngineApply
      <4> QED
        BY <3>2, <3>6, <4>1, EngineIsApply
    <3>7. CASE EngineFails(p) /\ job[p].op = "apply" /\ live' = compiled[Pick] /\ boot' = boot
      BY <3>2, <3>7, EngineIsApply
    <3>8. CASE /\ ~(Save(p) \/ Rewrite(p) \/ Compile(p) \/ EngineApply(p))
               /\ ~(EngineFails(p) /\ job[p].op = "apply" /\ live' = compiled[Pick] /\ boot' = boot)
      BY <3>1, <3>2, <3>8, OtherStepOfProcess DEF Step
    <3> QED
      BY <3>3, <3>4, <3>5, <3>6, <3>7, <3>8
  <2>2. CASE MainReseed
    BY <2>2, FileOtherSteps, StartupIsSave DEF Main
  <2>3. CASE \/ Watcher \/ Boot \/ MainSeed \/ Listen \/ Outside
             \/ \E p \in Request : NewRequest(p)
    BY <2>3, FileOtherSteps, OtherSteps DEF Main
  <2>4. CASE UNCHANGED vars
    <3>1. UNCHANGED <<daemon, pc, job, got, mu, file, bak, compiled, lastCompiled,
                      lastApplied, live, boot>>
      BY <2>4 DEF vars, work, memory, kernel
    <3>2. FileInv'
      BY <3>1 DEF ServerInv, FileInv, OldFile
    <3> QED
      BY <3>1, <3>2, Untouched
  <2> QED
    BY <2>1, <2>2, <2>3, <2>4 DEF Next, Main
<1> QED
  BY <1>1, <1>2 DEF ServerInv, RegisterInv

\* However requests, container events, crashes and the start-up interleave,
\* an apply puts in force exactly the rule set saved at that moment, and
\* nothing but an apply, a teardown or the replay of what was last confirmed
\* changes what is in force.
THEOREM AppliesWhatIsSaved ==
  ASSUME SafeEnv PROVE Spec => ImplementsRegister
<1>1. Init => Register!Init
  BY NoneAssumption DEF Init, Register!Init, RulesFile, RuleSet
<1>2. ServerInv /\ [Next]_vars => ServerInv' /\ [Register!Next]_Register!vars
  BY ServerStep DEF RegisterStep
<1> QED
  BY <1>1, <1>2, ServerInit, PTL DEF Spec, ImplementsRegister, Register!Spec

\* No deny policy is in force without the list of ports it has to close.
THEOREM DenyKnowsItsPorts ==
  ASSUME SafeEnv PROVE Spec => []NeverUnscoped
<1>1. ServerInv /\ [Next]_vars => ServerInv'
  BY ServerStep
<1>2. ServerInv => NeverUnscoped
  BY DEF ServerInv, ScopedInv
<1> QED
  BY <1>1, <1>2, ServerInit, PTL DEF Spec

-----------------------------------------------------------------------------
(* The flush *)

\* A connection made under the rules of the last apply was allowed by them.
KnownInv == "known" \in clients => lastApplied \in Open

\* Where conntrack can be flushed, no step leaves a known connection behind.
LEMMA KnownStep ==
  ASSUME "flushfail" \notin Env, ServerInv, KnownInv, [Next]_vars
  PROVE  KnownInv'
<1> USE DEF KnownInv, kernel, memory
<1>1. CASE \E p \in Proc : EngineApply(p)
  BY <1>1 DEF EngineApply, Flush
<1>2. CASE Crash
  BY <1>2 DEF Crash
<1>3. CASE ClientConnects
  BY <1>3 DEF ClientConnects
<1>4. CASE UNCHANGED <<clients, lastApplied>>
  BY <1>4
<1>5. UNCHANGED <<clients, lastApplied>> \/ Crash \/ ClientConnects \/ \E p \in Proc : EngineApply(p)
  BY DEF Next, vars, Step, Prefetch, ListFails, Backup, Rewrite, MigrationFails, Lock, Save, Refuse,
         Compile, EngineFails, EngineCommit, EngineRevert,
         Watcher, Connect, Arm, Fire, Ended, Main, Boot, MainSeed, MainReseed, Listen,
         Outside, DeadMan, ContainerEvent, DockerStops, DockerStarts,
         NewRequest, PostRules, PostDefaults, PostApply, PostCommit, PostRevert, Begin
<1> QED
  BY <1>1, <1>2, <1>3, <1>4, <1>5

\* Where conntrack can be flushed, no connection made under the rules of the
\* last apply survives a later apply that blocks its port: although lastApplied
\* is kept through reverts, dead-men, replays and failed applies, the diff from
\* it finds every such connection.
THEOREM BlockedConnectionsAreCut ==
  ASSUME SafeEnv, "flushfail" \notin Env PROVE Spec => BlockedIsCut
<1> DEFINE FlushInv == ServerInv /\ KnownInv
<1>1. Init => FlushInv
  BY ServerInit DEF Init, KnownInv
<1>2. FlushInv /\ [Next]_vars => FlushInv'
  BY ServerStep, KnownStep
<1>3. FlushInv /\ [Next]_vars
      => [\A p \in Proc : EngineApply(p) /\ live'.rs \notin Open => "known" \notin clients']_vars
  <2> SUFFICES ASSUME FlushInv, [Next]_vars, NEW p \in Proc, EngineApply(p), live'.rs \notin Open
               PROVE  "known" \notin clients'
    OBVIOUS
  <2>1. live'.rs = lastApplied'
    BY DEF EngineApply, ServerInv, ApplyInv
  <2>2. KnownInv'
    BY KnownStep
  <2> QED
    BY <2>1, <2>2 DEF KnownInv
<1> HIDE DEF FlushInv
<1> QED
  BY <1>1, <1>2, <1>3, PTL DEF Spec, BlockedIsCut

-----------------------------------------------------------------------------
(* The migration *)

\* Under migrateMu: the bytes kept are those about to be rewritten, and they
\* are the file's as long as nobody has saved a newer one.  A failed migration
\* leaves an old file to any number of requests.
MigInv ==
  /\ \A p \in Proc : pc[p] \in {"migrate", "rewrite"} =>
       file # None /\ (OldFile => job[p].rs = file.rs)
  /\ \A p \in Proc : pc[p] = "rewrite" => bak = job[p].rs
  /\ \A p, q \in Proc : pc[p] = "rewrite" /\ pc[q] = "rewrite" => p = q

\* A step that sends nobody into a migration keeps that.
LEMMA MigKept ==
  ASSUME MigInv, UNCHANGED <<file, bak>>,
         \A p \in Proc : pc'[p] \in {"migrate", "rewrite"} =>
           pc[p] = pc'[p] /\ job'[p].rs = job[p].rs
  PROVE  MigInv'
BY DEF MigInv, OldFile

\* A step of a process keeps the invariant of the migration, whatever fails.
LEMMA MigStepOfProcess ==
  ASSUME TypeInv, MigInv, NEW p \in Proc, Step(p) PROVE MigInv'
<1> USE DEF TypeInv, TypeOK, Goto, Finish, NoJob
<1>1. CASE Prefetch(p)
  <2>1. CASE pc'[p] = "migrate"
    <3>1. /\ OldFile /\ job' = [job EXCEPT ![p].rs = file.rs]
          /\ pc' = [pc EXCEPT ![p] = "migrate"] /\ UNCHANGED <<file, bak>>
      BY <1>1, <2>1 DEF Prefetch, OldFile
    <3> QED
      BY <3>1 DEF MigInv, OldFile
  <2>2. CASE pc'[p] # "migrate"
    <3>1. pc' = [pc EXCEPT ![p] = "lock"] /\ UNCHANGED <<job, file, bak>>
      BY <1>1, <2>2 DEF Prefetch
    <3> QED
      BY <3>1, MigKept
  <2> QED
    BY <2>1, <2>2
<1>2. CASE Backup(p)
  BY <1>2 DEF Backup, MigInv, OldFile
<1>3. CASE Rewrite(p) \/ Save(p)
  <2>1. /\ file' = Current(job[p].rs) /\ job[p].rs \in RuleSet
        /\ UNCHANGED <<job, bak>>
        /\ \E place \in {"lock", "compile"} : pc' = [pc EXCEPT ![p] = place]
    BY <1>3 DEF Rewrite, Save, JobInv
  <2>2. file' # None /\ ~OldFile'
    BY <2>1, NoneAssumption DEF Current, RulesFile, OldFile
  <2> QED
    BY <2>1, <2>2 DEF MigInv
<1>4. CASE ListFails(p) \/ MigrationFails(p) \/ Refuse(p)
  BY <1>4, MigKept DEF ListFails, MigrationFails, Refuse
<1>5. CASE Lock(p)
  <2>1. \E place \in {"save", "compile", "engine"} : pc' = [pc EXCEPT ![p] = place]
    BY <1>5 DEF Lock
  <2> QED
    BY <1>5, <2>1, MigKept DEF Lock
<1>6. CASE Compile(p)
  <2>1. \E place \in {"idle", "engine"} : pc' = [pc EXCEPT ![p] = place]
    BY <1>6 DEF Compile
  <2>2. \A q \in Proc \ {p} : job'[q] = job[q]
    BY <1>6 DEF Compile
  <2>3. UNCHANGED <<file, bak>>
    BY <1>6 DEF Compile
  <2> QED
    BY <2>1, <2>2, <2>3, MigKept
<1>7. CASE EngineApply(p) \/ EngineFails(p) \/ EngineCommit(p) \/ EngineRevert(p)
  <2>1. Finish(p) /\ UNCHANGED <<file, bak>>
    BY <1>7 DEF EngineApply, EngineFails, EngineCommit, EngineRevert
  <2> QED
    BY <2>1, MigKept
<1> QED
  BY <1>1, <1>2, <1>3, <1>4, <1>5, <1>6, <1>7 DEF Step

\* So does every other step.
LEMMA MigStep ==
  ASSUME TypeInv, MigInv, [Next]_vars PROVE MigInv'
<1> USE Procs DEF TypeInv, TypeOK, Idle, Start, work
<1>1. CASE \E p \in Proc : Step(p)
  BY <1>1, MigStepOfProcess
<1>2. CASE MainReseed
  <2>1. \A q \in Proc : pc'[q] \notin {"migrate", "rewrite"}
    BY <1>2 DEF MainReseed, Goto, PhaseInv
  <2> HIDE DEF TypeInv
  <2> QED
    BY <2>1 DEF MigInv
<1>3. CASE Watcher
  <2>1. UNCHANGED work \/ Start("watch", "recompile", None, "prefetch")
    BY <1>3 DEF Watcher, Connect, Arm, Fire, Ended
  <2>2. UNCHANGED <<file, bak>>
    BY <1>3 DEF Watcher, Connect, Arm, Fire, Ended
  <2> QED
    BY <2>1, <2>2, MigKept
<1>4. CASE Boot \/ MainSeed \/ Listen
  <2>1. \/ UNCHANGED work \/ Start("main", "recompile", None, "seed")
        \/ \E place \in {"reseed", "prefetch"} : Goto("main", place)
    BY <1>4 DEF Boot, MainSeed, Listen
  <2>2. UNCHANGED <<file, bak>>
    BY <1>4 DEF Boot, MainSeed, Listen
  <2> QED
    BY <2>1, <2>2, MigKept DEF Goto
<1>5. CASE Outside
  <2>1. UNCHANGED work \/ pc' = [p \in Proc |-> "idle"]
    BY <1>5 DEF Outside, Crash, DeadMan, ClientConnects, ContainerEvent, DockerStops, DockerStarts
  <2>2. UNCHANGED <<file, bak>>
    BY <1>5 DEF Outside, Crash, DeadMan, ClientConnects, ContainerEvent, DockerStops, DockerStarts
  <2> QED
    BY <2>1, <2>2, MigKept
<1>6. CASE \E p \in Request : NewRequest(p)
  <2>1. PICK p \in Request, op \in Ops, rs \in RuleSet \cup {None}, place \in {"prefetch", "lock"} :
          Begin(p, op, rs, place)
    BY <1>6 DEF NewRequest, PostRules, PostDefaults, PostApply, PostCommit, PostRevert, Ops, RuleSet
  <2>2. p \in Proc
    BY DEF Proc
  <2> QED
    BY <2>1, <2>2, MigKept DEF Begin
<1>7. CASE UNCHANGED vars
  BY <1>7, MigKept DEF vars
<1> QED
  BY <1>1, <1>2, <1>3, <1>4, <1>5, <1>6, <1>7 DEF Next, Main

\* Load rewrites rules.json only to the migrated form of bytes it has kept, and
\* those are the file's as long as it is of an older schema: whatever crashes,
\* whichever migrations fail, and however loads and saves interleave after one.
THEOREM OldRulesAreKept == Spec => MigrationKeepsBackup
<1> DEFINE Inv == TypeInv /\ MigInv
<1>1. Init => Inv
  BY TypeInit DEF Init, MigInv
<1>2. Inv /\ [Next]_vars => Inv'
  BY TypeStep, MigStep
<1>3. Inv /\ [Next]_vars
      => [\A p \in Proc : Rewrite(p) =>
            bak = file'.rs /\ (file.schema = "old" => bak = file.rs)]_vars
  BY DEF MigInv, OldFile, Rewrite, Current
<1> HIDE DEF Inv
<1> QED
  BY <1>1, <1>2, <1>3, PTL DEF Spec, MigrationKeepsBackup
=============================================================================
