--------------------------- MODULE ZfwEngineProofs --------------------------
(***************************************************************************)
(* Theorems about ZfwEngine, for every set of rulesets.                    *)
(***************************************************************************)
EXTENDS ZfwEngine, TLAPS

USE ScriptsAssumption, ClientsAssumption, ModeAssumption, EnvAssumption

-----------------------------------------------------------------------------
(* Types *)

\* pick_compiled names one of the two compiled files.
LEMMA PickType == Pick \in Variants
BY DEF Pick, Variants

\* Reading SCRIPT yields a ruleset or nothing, for a process that has a SCRIPT.
LEMMA ReadType ==
  ASSUME TypeOK, NEW p \in Procs, path[p] # "none"
  PROVE  Read(p) \in Content
BY DEF TypeOK, Read, Variants, Content

\* A process that will read SCRIPT has one, and bash has read a ruleset before
\* it fills the IPv6 chains.
PathOK ==
  \A p \in Procs :
    /\ pc[p] \in {"rearm", "arm", "run4", "run6", "record", "confirm", "seed"}
         => path[p] # "none"
    /\ pc[p] = "run6" => script[p] \in Scripts

TypeInv == TypeOK /\ PathOK

\* The initial states have the types.
LEMMA TypeInit == Init => TypeInv
<1> SUFFICES ASSUME Init PROVE TypeInv
  OBVIOUS
<1> USE DEF Init, Content
<1>1. compiled \in [Variants -> Content]
  <2>1. CASE LegacyUnit
    BY <2>1
  <2>2. CASE ~LegacyUnit
    BY <2>2
  <2> QED
    BY <2>1, <2>2
<1>2. unitExec \in {"none", "apply", "boot"} /\ enabled \in BOOLEAN
  OBVIOUS
<1>3. /\ pc \in [Procs -> Places]
      /\ op \in [Procs -> Verbs]
      /\ path \in [Procs -> {"none", "bash", "restore", "committed"}]
      /\ script \in [Procs -> Content]
  BY DEF Places, Verbs
<1>4. TypeOK
  BY <1>1, <1>2, <1>3 DEF TypeOK
<1>5. PathOK
  BY DEF PathOK
<1> QED
  BY <1>4, <1>5 DEF TypeInv

\* A step of a running engine process keeps the types.
LEMMA TypeStepOfProcess ==
  ASSUME TypeInv, NEW p \in Procs, Step(p)
  PROVE  TypeInv'
<1> USE DEF TypeInv, TypeOK, PathOK, Content, Verbs, Places, Families,
            files, unit, procs, history, Goto, Exit
<1>0. pc[p] \in {"run4", "record", "confirm", "seed"} => Read(p) \in Content
  BY ReadType
<1>1. CASE Rearm(p)
  BY <1>0, <1>1 DEF Rearm
<1>2. CASE Arm(p)
  <2>1. CASE pc' = [pc EXCEPT ![p] = "run4"] /\ UNCHANGED <<op, path, script>>
    BY <1>2, <2>1 DEF Arm
  <2>2. CASE Exit(p) /\ UNCHANGED timer
    BY <1>2, <2>2 DEF Arm
  <2> QED
    BY <1>2, <2>1, <2>2 DEF Arm
<1>3. CASE Run4(p)
  BY <1>0, <1>3 DEF Run4
<1>4. CASE Run6(p)
  BY <1>0, <1>4 DEF Run6
<1>5. CASE Record(p)
  BY <1>0, <1>5 DEF Record
<1>6. CASE ConfirmPlain(p)
  BY <1>0, <1>6 DEF ConfirmPlain
<1>7. CASE Undo4(p)
  BY <1>0, <1>7 DEF Undo4
<1>8. CASE Undo6(p)
  BY <1>0, <1>8 DEF Undo6
<1>9. CASE Unpersist(p)
  BY <1>0, <1>9 DEF Unpersist
<1>10. CASE Forget(p)
  BY <1>0, <1>10 DEF Forget
<1>11. CASE Disarm(p)
  BY <1>0, <1>11 DEF Disarm
<1>12. CASE StopTimer(p)
  BY <1>0, <1>12 DEF StopTimer
<1>13. CASE Promote(p)
  BY <1>0, <1>13 DEF Promote
<1>14. CASE Install(p)
  BY <1>0, <1>14 DEF Install
<1>15. CASE Enable(p)
  BY <1>0, <1>15 DEF Enable
<1>16. CASE Seed(p)
  BY <1>0, <1>16 DEF Seed
<1>17. CASE Rewrite(p)
  BY <1>0, <1>17 DEF Rewrite
<1>20. QED
  BY <1>1, <1>2, <1>3, <1>4, <1>5, <1>6, <1>7, <1>8, <1>9, <1>10, <1>11, <1>12, <1>13, <1>14, <1>15, <1>16, <1>17 DEF Step

\* The types of the processes after a step.
Started ==
  /\ pc' \in [Procs -> Places]
  /\ op' \in [Procs -> Verbs]
  /\ path' \in [Procs -> {"none", "bash", "restore", "committed"}]
  /\ script' \in [Procs -> Content]
  /\ PathOK'

\* The start of a process keeps the types.
LEMMA TypeStart ==
  ASSUME TypeInv, NEW p \in Procs, NEW verb \in Verbs, NEW place \in Places,
         NEW file \in {"none", "bash", "restore", "committed"},
         place \in {"rearm", "arm", "run4", "record", "confirm", "seed"} => file # "none",
         place # "run6", Start(p, verb, place, file)
  PROVE  Started
BY DEF Started, TypeInv, TypeOK, PathOK, Start

\* Every step keeps the types.
LEMMA TypeNext == TypeInv /\ [Next]_vars => TypeInv'
<1> SUFFICES ASSUME TypeInv, [Next]_vars PROVE TypeInv'
  OBVIOUS
<1> USE DEF files, unit, procs, history
<1>1. ASSUME NEW s \in Scripts, Recompile(s) PROVE TypeInv'
  BY <1>1 DEF Recompile, TypeInv, TypeOK, PathOK, Content, Variants
<1>2. ASSUME NEW c \in Clients, Command(c) PROVE TypeInv'
  <2> USE PickType DEF Variants, Procs, Verbs, Places
  <2>1. ASSUME NEW verb \in {"apply", "safe"}, StartApply(c, verb) PROVE TypeInv'
    <3>1. PICK place \in {"rearm", "run4"}, file \in Variants : Start(c, verb, place, file)
      BY <2>1 DEF StartApply, Start
    <3>2. Started
      BY SMTT(30), <3>1, TypeStart
    <3> QED
      BY <2>1, <3>2 DEF StartApply, TypeInv, TypeOK, Started
  <2>2. CASE StartRevert(c)
    <3>1. Start(c, "revert", "undo4", "none")
      BY <2>2 DEF StartRevert
    <3> QED
      BY ZenonT(60), <2>2, <3>1, TypeStart DEF StartRevert, TypeInv, TypeOK, Started
  <2>3. CASE StartCommit(c)
    <3>1. Start(c, "commit", "stop", "none")
      BY <2>3 DEF StartCommit
    <3>2. Started
      BY <3>1, TypeStart
    <3>3. accepted' \subseteq Scripts
      BY <2>3 DEF StartCommit, TypeInv, TypeOK
    <3> QED
      BY <2>3, <3>2, <3>3 DEF StartCommit, TypeInv, TypeOK, Started
  <2>4. CASE StartMigrate(c)
    <3>1. PICK place \in {"seed", "rewrite"}, file \in Variants :
            Start(c, "migrate", place, file)
      BY <2>4 DEF StartMigrate, Start
    <3>2. Started
      BY <3>1, TypeStart
    <3> QED
      BY <2>4, <3>2 DEF StartMigrate, TypeInv, TypeOK, Started
  <2> QED
    BY <1>2, <2>1, <2>2, <2>3, <2>4 DEF Command
<1>3. ASSUME NEW c \in Clients, Kill(c) PROVE TypeInv'
  BY <1>3 DEF Kill, Exit, TypeInv, TypeOK, PathOK, Content, Procs, Verbs, Places, Families
<1>4. ASSUME NEW p \in Procs, Step(p) PROVE TypeInv'
  BY <1>4, TypeStepOfProcess
<1>5. CASE Fire
  <2>1. Start("deadman", "autorevert", "undo4", "none")
    BY <1>5 DEF Fire
  <2> QED
    BY <1>5, <2>1, TypeStart DEF Fire, TypeInv, TypeOK, Started, Procs, Verbs, Places
<1>6. CASE BootStart
  <2>1. Start("boot", unitExec, "run4", BootScript)
    BY <1>6 DEF BootStart
  <2>2. BootScript \in {"bash", "restore", "committed"}
    BY PickType DEF BootScript, Variants
  <2>3. unitExec \in Verbs
    BY DEF TypeInv, TypeOK, Verbs
  <2>4. Started
    <3> DEFINE file == BootScript
    <3>1. file \in {"bash", "restore", "committed"} /\ Start("boot", unitExec, "run4", file)
      BY <2>1, <2>2
    <3> HIDE DEF file
    <3> QED
      BY <2>3, <3>1, TypeStart DEF Procs, Places, Started
  <2> QED
    BY <1>6, <2>4 DEF BootStart, TypeInv, TypeOK, Started
<1>7. CASE DockerRestart
  BY <1>7 DEF DockerRestart, TypeInv, TypeOK, PathOK
<1>8. CASE Reboot
  BY <1>8 DEF Reboot, TypeInv, TypeOK, PathOK, Content, Verbs, Places
<1>9. CASE UNCHANGED vars
  BY <1>9 DEF vars, TypeInv, TypeOK, PathOK
<1> QED
  BY <1>1, <1>2, <1>3, <1>4, <1>5, <1>6, <1>7, <1>8, <1>9 DEF Next

\* The state of the engine has its types for every set of rulesets, every
\* choice of clients and every combination of faults.
THEOREM TypeCorrect == Spec => []TypeOK
<1>1. Spec => []TypeInv
  BY TypeInit, TypeNext, PTL DEF Spec
<1>2. TypeInv => TypeOK
  BY DEF TypeInv
<1> QED
  BY <1>1, <1>2, PTL

-----------------------------------------------------------------------------
(* Teardown, boot persistence, the confirmed copy and the rollback net *)

\* At most one engine process runs.
Alone == \A p, q \in Procs : p # q => Idle(p) \/ Idle(q)

\* A process that is tearing down has emptied the chains it has passed.
TeardownInv ==
  /\ Alone
  /\ \A p \in Procs :
       /\ pc[p] = "undo6" => kernel["v4"] = None
       /\ pc[p] \in {"unpersist", "forget"} => \A f \in Families : kernel[f] = None
       /\ pc[p] = "forget" => ~enabled

\* Where each process may be, and which file it reads.
WhereInv ==
  /\ pc["deadman"] \in {"idle", "undo4", "undo6", "unpersist", "forget", "disarm"}
  /\ ~Idle("boot") => path["boot"] = "committed"
  /\ \A c \in Clients : path[c] # "committed"
  /\ \A p \in Procs : pc[p] \notin {"seed", "rewrite"}

\* What a process read is still what its file holds.
ReadInv ==
  \A p \in Procs :
    /\ pc[p] \in {"run6", "record", "confirm"} => Read(p) = script[p]
    /\ pc[p] \in {"record", "confirm"} => script[p] \in tried

\* The files hold scripts that ran, and the boot unit never lacks its copy.
PersistInv ==
  /\ applied \in tried \cup {None}
  /\ committed \in tried \cup {None}
  /\ unitExec # "apply"
  /\ enabled => unitExec = "boot" /\ committed # None
  /\ \A p \in Procs :
       /\ pc[p] \in {"install", "enable"} => committed # None
       /\ pc[p] = "enable" => unitExec = "boot"

BootInv == TypeInv /\ TeardownInv /\ WhereInv /\ ReadInv /\ PersistInv
-----------------------------------------------------------------------------
(* Teardown *)

\* A step of p leaves the other processes where they are.
LEMMA StepOfOne ==
  ASSUME TypeInv, NEW p \in Procs, Step(p)
  PROVE  /\ ~Idle(p)
         /\ pc' = [pc EXCEPT ![p] = pc'[p]]
         /\ UNCHANGED compiled
<1> USE DEF TypeInv, TypeOK, Idle, Goto, Exit, files
<1>1. CASE Rearm(p) \/ Arm(p) \/ Run4(p) \/ Run6(p) \/ Record(p) \/ ConfirmPlain(p)
  BY <1>1 DEF Rearm, Arm, Run4, Run6, Record, ConfirmPlain
<1>2. CASE Undo4(p) \/ Undo6(p) \/ Unpersist(p) \/ Forget(p) \/ Disarm(p)
  BY <1>2 DEF Undo4, Undo6, Unpersist, Forget, Disarm
<1>3. CASE StopTimer(p) \/ Promote(p) \/ Install(p) \/ Enable(p) \/ Seed(p) \/ Rewrite(p)
  BY <1>3 DEF StopTimer, Promote, Install, Enable, Seed, Rewrite
<1> QED
  BY <1>1, <1>2, <1>3 DEF Step

\* Only the steps of the teardown lead to its later places.
LEMMA TeardownPlaces ==
  ASSUME TypeInv, NEW p \in Procs, Step(p)
  PROVE  pc'[p] \in {"undo6", "unpersist", "forget"}
           => Undo4(p) \/ Undo6(p) \/ Unpersist(p)
<1> USE DEF TypeInv, TypeOK, Goto, Exit
<1>1. CASE Rearm(p) \/ Arm(p) \/ Run4(p) \/ Run6(p) \/ Record(p) \/ ConfirmPlain(p)
  BY <1>1 DEF Rearm, Arm, Run4, Run6, Record, ConfirmPlain
<1>2. CASE Undo4(p) \/ Undo6(p) \/ Unpersist(p) \/ Forget(p) \/ Disarm(p)
  BY <1>2 DEF Forget, Disarm
<1>3. CASE StopTimer(p) \/ Promote(p) \/ Install(p) \/ Enable(p) \/ Seed(p) \/ Rewrite(p)
  BY <1>3 DEF StopTimer, Promote, Install, Enable, Seed, Rewrite
<1> QED
  BY <1>1, <1>2, <1>3 DEF Step

\* A running process that tears down goes on alone.
LEMMA TeardownStep ==
  ASSUME TypeInv, TeardownInv, NEW p \in Procs, Step(p)
  PROVE  TeardownInv'
<1>1. \A q \in Procs : q # p => pc[q] = "idle" /\ pc'[q] = "idle"
  BY StepOfOne DEF TypeInv, TypeOK, TeardownInv, Alone, Idle
<1>2. Alone'
  BY <1>1 DEF Alone, Idle
<1>3. /\ pc'[p] = "undo6" => kernel'["v4"] = None
      /\ pc'[p] \in {"unpersist", "forget"} => \A f \in Families : kernel'[f] = None
      /\ pc'[p] = "forget" => ~enabled'
  <2> USE DEF TypeInv, TypeOK, TeardownInv, Goto, Families, unit
  <2>1. CASE Undo4(p)
    BY <2>1 DEF Undo4
  <2>2. CASE Undo6(p)
    BY <2>2 DEF Undo6
  <2>3. CASE Unpersist(p)
    BY <2>3 DEF Unpersist
  <2> QED
    BY <2>1, <2>2, <2>3, TeardownPlaces
<1> QED
  BY <1>1, <1>2, <1>3 DEF TeardownInv

\* Without overlapping invocations a process starts only when none is running,
\* and not in the middle of a teardown.
LEMMA StartsAlone ==
  ASSUME "overlap" \notin Env, TypeInv, NEW p \in Procs,
         (\E c \in Clients : Command(c)) \/ Fire \/ BootStart
  PROVE  /\ AllIdle
         /\ pc'[p] \notin {"undo6", "unpersist", "forget"}
         /\ \A q \in Procs : q # p => Idle(p)' \/ Idle(q)'
<1> USE DEF Start, MayStart, AllIdle, Idle, TypeInv, TypeOK, Procs
<1>1. CASE Fire
  BY <1>1 DEF Fire
<1>2. CASE BootStart
  BY <1>2 DEF BootStart
<1>3. ASSUME NEW c \in Clients, Command(c)
      PROVE  /\ AllIdle
             /\ pc'[p] \notin {"undo6", "unpersist", "forget"}
             /\ \A q \in Procs : q # p => Idle(p)' \/ Idle(q)'
  <2>1. ASSUME NEW verb \in {"apply", "safe"}, StartApply(c, verb)
        PROVE  \E place \in {"rearm", "run4"} : AllIdle /\ pc' = [pc EXCEPT ![c] = place]
    BY <2>1 DEF StartApply
  <2>2. StartRevert(c) => AllIdle /\ pc' = [pc EXCEPT ![c] = "undo4"]
    BY DEF StartRevert
  <2>3. StartCommit(c) => AllIdle /\ pc' = [pc EXCEPT ![c] = "stop"]
    BY DEF StartCommit
  <2>4. StartMigrate(c) =>
          \E place \in {"seed", "rewrite"} : AllIdle /\ pc' = [pc EXCEPT ![c] = place]
    BY DEF StartMigrate
  <2>5. PICK place \in {"rearm", "run4", "undo4", "stop", "seed", "rewrite"} :
          AllIdle /\ pc' = [pc EXCEPT ![c] = place]
    BY <1>3, <2>1, <2>2, <2>3, <2>4 DEF Command
  <2> QED
    BY <2>5
<1> QED
  BY <1>1, <1>2, <1>3

\* Every step keeps the teardown invariant.
LEMMA TeardownNext ==
  ASSUME "overlap" \notin Env
  PROVE  TypeInv /\ TeardownInv /\ [Next]_vars => TeardownInv'
<1> SUFFICES ASSUME TypeInv, TeardownInv, [Next]_vars PROVE TeardownInv'
  OBVIOUS
<1>1. ASSUME NEW s \in Scripts, Recompile(s) PROVE TeardownInv'
  BY <1>1 DEF Recompile, TeardownInv, Alone, Idle, procs, unit
<1>2. CASE (\E c \in Clients : Command(c)) \/ Fire \/ BootStart
  BY <1>2, StartsAlone DEF TeardownInv, Alone
<1>3. ASSUME NEW c \in Clients, Kill(c) PROVE TeardownInv'
  BY <1>3 DEF Kill, Exit, TeardownInv, Alone, Idle, TypeInv, TypeOK, Procs, Families, unit
<1>4. ASSUME NEW p \in Procs, Step(p) PROVE TeardownInv'
  BY <1>4, TeardownStep
<1>5. CASE DockerRestart
  BY <1>5 DEF DockerRestart, TeardownInv, Alone, Idle, procs, unit
<1>6. CASE Reboot
  BY <1>6 DEF Reboot, TeardownInv, Alone, Idle
<1>7. CASE UNCHANGED vars
  BY <1>7 DEF vars, TeardownInv, Alone, Idle, procs, unit
<1> QED
  BY <1>1, <1>2, <1>3, <1>4, <1>5, <1>6, <1>7 DEF Next

\* Whatever the faults and whoever runs it: when invocations do not overlap, a
\* revert, a failed apply and the dead-man leave nothing live and nothing
\* persisted (revert, disable_persistence).
THEOREM TeardownCorrect ==
  ASSUME "overlap" \notin Env
  PROVE  Spec => TeardownIsComplete
<1>1. Init => TeardownInv
  BY DEF Init, TeardownInv, Alone, Idle
<1>2. TypeInv /\ TeardownInv /\ [Next]_vars
        => [\A p \in Procs :
              pc[p] = "forget" /\ pc'[p] # "forget" /\ ~(Reboot \/ \E c \in Clients : Kill(c))
                => /\ \A f \in Families : kernel'[f] = None
                   /\ BootReplay' = None
                   /\ applied' = None /\ committed' = None]_vars
  <2> SUFFICES ASSUME TypeInv, TeardownInv, Next, NEW p \in Procs,
                      pc[p] = "forget", pc'[p] # "forget",
                      ~(Reboot \/ \E c \in Clients : Kill(c))
               PROVE  /\ \A f \in Families : kernel'[f] = None
                      /\ BootReplay' = None
                      /\ applied' = None /\ committed' = None
    OBVIOUS
  <2>1. ~((\E c \in Clients : Command(c)) \/ Fire \/ BootStart)
    BY StartsAlone DEF AllIdle, Idle
  <2>2. \A s \in Scripts : ~Recompile(s)
    BY DEF Recompile, procs
  <2>3. ~DockerRestart
    BY DEF DockerRestart, procs
  <2>4. PICK q \in Procs : Step(q)
    BY <2>1, <2>2, <2>3 DEF Next
  <2>5. q = p
    BY <2>4, StepOfOne DEF TypeInv, TypeOK
  <2>6. Forget(p)
    BY <2>4, <2>5 DEF Step, Rearm, Arm, Run4, Run6, Record, ConfirmPlain, Undo4, Undo6,
       Unpersist, Disarm, StopTimer, Promote, Install, Enable, Seed, Rewrite
  <2>7. ~enabled' /\ \A f \in Families : kernel'[f] = None
    BY <2>6 DEF Forget, TeardownInv, unit
  <2> QED
    BY <2>6, <2>7 DEF Forget, BootReplay
<1> QED
  BY <1>1, <1>2, TypeInit, TypeNext, TeardownNext, PTL DEF Spec, TeardownIsComplete

-----------------------------------------------------------------------------
(* Boot persistence *)

\* A running process keeps what boot persistence rests on.
LEMMA BootStep ==
  ASSUME BootInv, NEW p \in Procs, Step(p)
  PROVE  WhereInv' /\ ReadInv' /\ PersistInv'
<1> USE DEF BootInv, TypeInv, TypeOK, PathOK, TeardownInv, WhereInv, ReadInv, PersistInv,
            Goto, Exit, Read, Idle, Content, files, unit, procs, history, Procs
<1>1. \A q \in Procs : q # p => pc[q] = "idle" /\ pc'[q] = "idle"
  BY StepOfOne DEF Alone
<1>2. CASE Rearm(p)
  BY <1>1, <1>2 DEF Rearm
<1>3. CASE Arm(p)
  BY <1>1, <1>3 DEF Arm
<1>4. CASE Run4(p)
  BY <1>1, <1>4 DEF Run4
<1>5. CASE Run6(p)
  BY <1>1, <1>5 DEF Run6
<1>6. CASE Record(p)
  BY <1>1, <1>6 DEF Record
<1>7. CASE ConfirmPlain(p)
  BY <1>1, <1>7 DEF ConfirmPlain
<1>8. CASE Undo4(p)
  BY <1>1, <1>8 DEF Undo4
<1>9. CASE Undo6(p)
  BY <1>1, <1>9 DEF Undo6
<1>10. CASE Unpersist(p)
  BY <1>1, <1>10 DEF Unpersist
<1>11. CASE Forget(p)
  BY <1>1, <1>11 DEF Forget
<1>12. CASE Disarm(p)
  BY <1>1, <1>12 DEF Disarm
<1>13. CASE StopTimer(p)
  BY <1>1, <1>13 DEF StopTimer
<1>14. CASE Promote(p)
  BY <1>1, <1>14 DEF Promote
<1>15. CASE Install(p)
  BY <1>1, <1>15 DEF Install
<1>16. CASE Enable(p)
  BY <1>1, <1>16 DEF Enable
<1> QED
  BY <1>2, <1>3, <1>4, <1>5, <1>6, <1>7, <1>8, <1>9, <1>10, <1>11, <1>12, <1>13, <1>14, <1>15, <1>16 DEF Step, Seed, Rewrite

\* zfw.service and the operator start processes that read what boot replays.
LEMMA BootNext ==
  ASSUME "overlap" \notin Env, Clients = {"daemon"}
  PROVE  BootInv /\ [Next]_vars => BootInv'
<1> SUFFICES ASSUME BootInv, [Next]_vars PROVE WhereInv' /\ ReadInv' /\ PersistInv'
  BY TypeNext, TeardownNext DEF BootInv
<1> USE DEF BootInv, TypeInv, TypeOK, WhereInv, ReadInv, PersistInv, Read, Idle,
            files, unit, procs, history, Procs
<1>1. ASSUME NEW s \in Scripts, Recompile(s) PROVE WhereInv' /\ ReadInv' /\ PersistInv'
  BY <1>1 DEF Recompile
<1>2. ASSUME NEW c \in Clients, Command(c) PROVE WhereInv' /\ ReadInv' /\ PersistInv'
  <2> USE DEF Start
  <2>1. ASSUME NEW verb \in {"apply", "safe"}, StartApply(c, verb)
        PROVE  WhereInv' /\ ReadInv' /\ PersistInv'
    BY <2>1, PickType DEF StartApply, Variants
  <2>2. CASE StartRevert(c)
    BY <2>2 DEF StartRevert
  <2>3. CASE StartCommit(c)
    BY <2>3 DEF StartCommit
  <2> QED
    BY <1>2, <2>1, <2>2, <2>3 DEF Command
<1>3. ASSUME NEW c \in Clients, Kill(c) PROVE WhereInv' /\ ReadInv' /\ PersistInv'
  BY <1>3 DEF Kill, Exit
<1>4. ASSUME NEW p \in Procs, Step(p) PROVE WhereInv' /\ ReadInv' /\ PersistInv'
  BY <1>4, BootStep
<1>5. CASE Fire
  BY <1>5 DEF Fire, Start
<1>6. CASE BootStart
  <2>1. BootScript = "committed"
    BY <1>6 DEF BootStart, BootReplay, BootScript
  <2> QED
    BY <1>6, <2>1 DEF BootStart, Start
<1>7. CASE DockerRestart
  BY <1>7 DEF DockerRestart
<1>8. CASE Reboot
  BY <1>8 DEF Reboot
<1>9. CASE UNCHANGED vars
  BY <1>9 DEF vars
<1> QED
  BY <1>1, <1>2, <1>3, <1>4, <1>5, <1>6, <1>7, <1>8, <1>9 DEF Next

\* On a host that never ran v1.0.26, boot starts in this invariant.
LEMMA BootInit ==
  ASSUME ~LegacyUnit
  PROVE  Init => BootInv
<1> SUFFICES ASSUME Init PROVE BootInv
  OBVIOUS
<1>1. TeardownInv
  BY DEF Init, TeardownInv, Alone, Idle
<1>2. WhereInv /\ ReadInv /\ PersistInv
  BY DEF Init, WhereInv, ReadInv, PersistInv, Idle, Procs
<1> QED
  BY <1>1, <1>2, TypeInit DEF BootInv

\* With the invariant boot has no fallback: it replays the confirmed copy.
LEMMA ReplayIsCommitted ==
  ASSUME BootInv, BootInv'
  PROVE  /\ BootReplay = IF enabled THEN committed ELSE None
         /\ BootReplay' = IF enabled' THEN committed' ELSE None
BY DEF BootInv, TypeInv, TypeOK, PersistInv, BootReplay

\* A step of a running process is a step of ConfirmedBoot.
LEMMA RefineStep ==
  ASSUME BootInv, BootInv', NEW p \in Procs, Step(p)
  PROVE  [CB!Next]_CB!vars
<1>1. /\ BootReplay = IF enabled THEN committed ELSE None
      /\ BootReplay' = IF enabled' THEN committed' ELSE None
  BY ReplayIsCommitted
<1>2. SUFFICES
        \/ tried' = tried /\ BootReplay' = BootReplay
        \/ \E s \in Scripts : tried' = tried \cup {s} /\ BootReplay' = BootReplay
        \/ \E s \in tried : tried' = tried /\ BootReplay' = s
        \/ tried' = tried /\ BootReplay' = None
        \/ tried' = {} /\ BootReplay = None /\ BootReplay' = None
  BY DEF BootInv, TypeInv, TypeOK,
         CB!Next, CB!vars, CB!Run, CB!Confirm, CB!Withdraw, CB!Forget
<1> USE DEF files, unit, history
<1>3. CASE Rearm(p) \/ Arm(p) \/ Run4(p) \/ Record(p) \/ Undo4(p) \/ Undo6(p) \/ Disarm(p)
           \/ StopTimer(p) \/ Install(p)
  BY <1>1, <1>3 DEF Rearm, Arm, Run4, Record, Undo4, Undo6, Disarm, StopTimer, Install
<1>4. CASE Run6(p)
  <2>1. BootReplay' = BootReplay
    BY <1>1, <1>4 DEF Run6
  <2> QED
    BY <1>4, <2>1 DEF Run6, BootInv, TypeInv, PathOK
<1>5. CASE ConfirmPlain(p)
  <2>1. committed' \in tried \cup {None} /\ tried' = tried
    BY <1>5 DEF ConfirmPlain, BootInv, PersistInv
  <2> QED
    BY <1>1, <2>1
<1>6. CASE Promote(p)
  <2>1. committed' \in tried \cup {None} /\ tried' = tried
    BY <1>6 DEF Promote, BootInv, PersistInv
  <2> QED
    BY <1>1, <2>1
<1>7. CASE Enable(p)
  <2>1. committed' \in tried \cup {None} /\ tried' = tried
    BY <1>7 DEF Enable, BootInv, PersistInv
  <2> QED
    BY <1>1, <2>1
<1>8. CASE Unpersist(p)
  BY <1>1, <1>8 DEF Unpersist
<1>9. CASE Forget(p)
  BY <1>1, <1>9 DEF Forget, BootInv, TeardownInv
<1> QED
  BY <1>3, <1>4, <1>5, <1>6, <1>7, <1>8, <1>9 DEF Step, Seed, Rewrite, BootInv, WhereInv

\* Every step of the engine is a step of ConfirmedBoot.
LEMMA RefineNext ==
  BootInv /\ BootInv' /\ [Next]_vars => [CB!Next]_CB!vars
<1> SUFFICES ASSUME BootInv, BootInv', [Next]_vars PROVE [CB!Next]_CB!vars
  OBVIOUS
<1>1. CASE \E p \in Procs : Step(p)
  BY <1>1, RefineStep
<1>2. CASE ~\E p \in Procs : Step(p)
  <2>1. /\ BootReplay = IF enabled THEN committed ELSE None
        /\ BootReplay' = IF enabled' THEN committed' ELSE None
    BY ReplayIsCommitted
  <2>2. UNCHANGED <<enabled, committed, tried>>
    BY <1>2 DEF Next, Recompile, Command, StartApply, StartRevert, StartCommit, StartMigrate,
       Kill, Fire, BootStart, DockerRestart, Reboot, files, unit, history, vars
  <2> QED
    BY <2>1, <2>2 DEF CB!vars
<1> QED
  BY <1>1, <1>2

\* The daemon's engine keeps the promise of ConfirmedBoot: only a ruleset that
\* ran to its end since the last teardown becomes the one boot replays, and no
\* save, crash, reboot or failed step changes which one it is.
THEOREM EngineImplementsConfirmedBoot ==
  ASSUME "overlap" \notin Env, Clients = {"daemon"}, ~LegacyUnit
  PROVE  Spec => ImplementsConfirmedBoot
<1>1. Init => CB!Init
  BY DEF Init, CB!Init, BootReplay
<1> QED
  BY <1>1, BootInit, BootNext, RefineNext, PTL DEF Spec, ImplementsConfirmedBoot, CB!Spec

\* A save or a container event never changes what boot replays.
THEOREM SavesNeverReachBootCorrect ==
  ASSUME "overlap" \notin Env, Clients = {"daemon"}, ~LegacyUnit
  PROVE  Spec => SavesNeverReachBoot
<1>1. BootInv /\ BootInv' =>
        [(\E s \in Scripts : Recompile(s)) /\ (LegacyUnit => unitExec = "boot")
           => BootReplay' = BootReplay]_vars
  <2> SUFFICES ASSUME BootInv, BootInv', NEW s \in Scripts, Recompile(s)
               PROVE  BootReplay' = BootReplay
    OBVIOUS
  <2>1. /\ BootReplay = IF enabled THEN committed ELSE None
        /\ BootReplay' = IF enabled' THEN committed' ELSE None
    BY ReplayIsCommitted
  <2> QED
    BY <2>1 DEF Recompile, unit
<1> QED
  BY <1>1, BootInit, BootNext, PTL DEF Spec, SavesNeverReachBoot

-----------------------------------------------------------------------------
(* The confirmed copy *)

\* What commit would confirm: nothing, something accepted, or what is live.
Confirmable == applied \in accepted \cup {None, kernel["v4"]}

\* While a script runs or a teardown is under way applied.sh may be out of date;
\* no commit and no confirmation happens then.
AcceptInv ==
  /\ committed \in accepted \cup {None}
  /\ (\A p \in Procs : pc[p] \notin {"run6", "record", "undo4", "undo6", "unpersist", "forget"})
       => Confirmable
  /\ \A p \in Procs :
       /\ pc[p] \in {"run6", "record"} => /\ kernel["v4"] = script[p] /\ script[p] # None
                                          /\ op[p] = "apply" => script[p] \in accepted
       /\ pc[p] = "confirm" => script[p] \in accepted
       /\ pc[p] \in {"stop", "promote"} => applied \in accepted \cup {None}

\* A running process confirms only what was accepted.
LEMMA AcceptStep ==
  ASSUME "recordfail" \notin Env, BootInv, AcceptInv, NEW p \in Procs, Step(p)
  PROVE  AcceptInv'
<1> USE DEF BootInv, TypeInv, TypeOK, PathOK, TeardownInv, ReadInv, AcceptInv, Confirmable,
            Goto, Exit, Idle, Content, Families, files, unit, procs, history
<1>1. \A q \in Procs : q # p => pc[q] = "idle" /\ pc'[q] = "idle"
  BY StepOfOne DEF Alone
<1>2. CASE Rearm(p)
  BY <1>1, <1>2 DEF Rearm
<1>3. CASE Arm(p)
  BY <1>1, <1>3 DEF Arm
<1>4. CASE Run4(p)
  BY <1>1, <1>4, ReadType DEF Run4
<1>5. CASE Run6(p)
  BY <1>1, <1>5 DEF Run6
<1>6. CASE Record(p)
  BY <1>1, <1>6 DEF Record
<1>7. CASE ConfirmPlain(p)
  BY <1>1, <1>7 DEF ConfirmPlain
<1>8. CASE Undo4(p)
  BY <1>1, <1>8 DEF Undo4
<1>9. CASE Undo6(p)
  BY <1>1, <1>9 DEF Undo6
<1>10. CASE Unpersist(p)
  BY <1>1, <1>10 DEF Unpersist
<1>11. CASE Forget(p)
  BY <1>1, <1>11 DEF Forget
<1>12. CASE Disarm(p)
  BY <1>1, <1>12 DEF Disarm
<1>13. CASE StopTimer(p)
  BY <1>1, <1>13 DEF StopTimer
<1>14. CASE Promote(p)
  BY <1>1, <1>14 DEF Promote
<1>15. CASE Install(p)
  BY <1>1, <1>15 DEF Install
<1>16. CASE Enable(p)
  BY <1>1, <1>16 DEF Enable
<1> QED
  BY <1>2, <1>3, <1>4, <1>5, <1>6, <1>7, <1>8, <1>9, <1>10, <1>11, <1>12, <1>13, <1>14, <1>15, <1>16
     DEF Step, Seed, Rewrite, WhereInv

\* Commit starts only when applied.sh says what is live, and accepts that.
LEMMA AcceptNext ==
  ASSUME "overlap" \notin Env, Clients = {"daemon"}, {"kill", "reboot", "recordfail"} \cap Env = {}
  PROVE  BootInv /\ AcceptInv /\ [Next]_vars => AcceptInv'
<1> SUFFICES ASSUME BootInv, AcceptInv, [Next]_vars PROVE AcceptInv'
  OBVIOUS
<1> USE DEF BootInv, TypeInv, TypeOK, AcceptInv, Confirmable, Idle,
            files, unit, procs, history, Procs
<1>1. ASSUME NEW s \in Scripts, Recompile(s) PROVE AcceptInv'
  BY <1>1 DEF Recompile
<1>2. ASSUME NEW c \in Clients, Command(c) PROVE AcceptInv'
  <2> USE DEF Start, MayStart, AllIdle
  <2>1. ASSUME NEW verb \in {"apply", "safe"}, StartApply(c, verb) PROVE AcceptInv'
    BY <2>1 DEF StartApply
  <2>2. CASE StartRevert(c)
    BY <2>2 DEF StartRevert
  <2>3. CASE StartCommit(c)
    <3>1. Confirmable /\ applied \in Scripts
      BY <2>3 DEF StartCommit, Content
    <3>2. applied \in accepted'
      BY <2>3, <3>1 DEF StartCommit, Families
    <3> QED
      BY <2>3, <3>2 DEF StartCommit
  <2> QED
    BY <1>2, <2>1, <2>2, <2>3 DEF Command
<1>3. ASSUME NEW p \in Procs, Step(p) PROVE AcceptInv'
  BY <1>3, AcceptStep
<1>4. CASE Fire
  BY <1>4 DEF Fire, Start, MayStart, AllIdle
<1>5. CASE BootStart
  BY <1>5 DEF BootStart, Start, MayStart, AllIdle
<1>6. CASE DockerRestart
  BY <1>6 DEF DockerRestart
<1>7. ~(Reboot \/ \E c \in Clients : Kill(c))
  BY DEF Reboot, Kill
<1>8. CASE UNCHANGED vars
  BY <1>8 DEF vars
<1> QED
  BY <1>1, <1>2, <1>3, <1>4, <1>5, <1>6, <1>7, <1>8 DEF Next

\* The confirmed copy is a ruleset the operator accepted while it was live,
\* whatever the order of saves, Safe-Applies, commits, timers and restarts of
\* dockerd, and though scripts, copies and units fail.  A SIGKILL, a failed
\* record and a reboot are excluded, as applied.sh then outlives what it says.
THEOREM CommittedWasAcceptedCorrect ==
  ASSUME "overlap" \notin Env, Clients = {"daemon"}, ~LegacyUnit,
         {"kill", "reboot", "recordfail"} \cap Env = {}
  PROVE  Spec => []CommittedWasAccepted
<1>1. Init => AcceptInv
  BY DEF Init, AcceptInv, Confirmable
<1>2. AcceptInv => CommittedWasAccepted
  BY DEF AcceptInv, CommittedWasAccepted
<1> QED
  BY <1>1, <1>2, BootInit, BootNext, AcceptNext, PTL DEF Spec

-----------------------------------------------------------------------------
(* The rollback net *)

USE ScriptsAssumption

\* The chains of a family hold no ruleset the operator has not accepted.
Clean(f) == kernel[f] \notin Scripts \ accepted

\* Which process runs what: nothing starts zfw.service, and the dead-man only
\* tears down.
WhoInv ==
  /\ ~bootJob /\ Idle("boot")
  /\ pc["deadman"] \in {"idle", "undo4", "undo6", "unpersist", "forget"}
  /\ ~Idle("deadman") => op["deadman"] = "autorevert"
  /\ pc["daemon"] \in {"rearm", "arm", "disarm"} => op["daemon"] = "safe"
  /\ pc["daemon"] \in {"run4", "run6"} => op["daemon"] \in {"safe", "apply"}

\* A Safe-Apply past arm_deadman has the net under it.
SafeInv ==
  op["daemon"] = "safe" =>
    /\ pc["daemon"] \notin {"idle", "rearm", "arm"} => Idle("deadman")
    /\ pc["daemon"] \in {"run4", "run6", "record"} => timer

\* What a process has accepted or torn down stays so while it works.
CleanInv ==
  /\ pc["daemon"] = "run6" /\ op["daemon"] = "apply" => script["daemon"] \in accepted
  /\ pc["daemon"] = "stop" => Clean("v4") /\ Clean("v6")
  /\ \A p \in {"daemon", "deadman"} :
       /\ pc[p] = "undo6" => Clean("v4")
       /\ pc[p] \in {"unpersist", "forget", "disarm"} => Clean("v4") /\ Clean("v6")

\* NetCovers, for the two families and the one client.
Covered ==
  (Clean("v4") /\ Clean("v6")) \/ timer \/ ~Idle("deadman") \/ pc["daemon"] = "arm"

NetInv == TypeInv /\ WhoInv /\ SafeInv /\ CleanInv /\ Covered

\* Loading a script leaves clean what was clean, unless it is a Safe-Apply.
LEMMA CleanLoad ==
  ASSUME Clients = {"daemon"}, NetInv, NEW p \in Procs, Run4(p) \/ Run6(p)
  PROVE  /\ p = "daemon"
         /\ op[p] = "apply" => /\ Clean("v4") => Clean("v4")'
                               /\ Clean("v6") => Clean("v6")'
<1> USE DEF NetInv, TypeInv, TypeOK, WhoInv, CleanInv, Clean, Idle, Goto, Families, Procs
<1>1. p = "daemon"
  BY DEF Run4, Run6
<1>2. CASE Run4(p)
  BY <1>1, <1>2 DEF Run4
<1>3. CASE Run6(p)
  BY <1>1, <1>3 DEF Run6
<1> QED
  BY <1>1, <1>2, <1>3

\* A running process keeps the net under every ruleset nobody accepted.
LEMMA NetStep ==
  ASSUME Clients = {"daemon"}, "armfail" \notin Env, NetInv, NEW p \in Procs, Step(p)
  PROVE  WhoInv' /\ SafeInv' /\ CleanInv' /\ Covered'
<1> USE DEF NetInv, TypeInv, TypeOK, WhoInv, SafeInv, CleanInv, Covered,
            Goto, Exit, Idle, Families, files, unit, procs, history, Procs
<1>1. CASE Run4(p)
  BY <1>1, CleanLoad DEF Run4
<1>2. CASE Run6(p)
  BY <1>2, CleanLoad DEF Run6
<1>3. CASE Undo4(p)
  <2>1. Clean("v4")' /\ (Clean("v6") => Clean("v6")')
    BY <1>3 DEF Undo4, Clean
  <2> QED
    BY <1>3, <2>1 DEF Undo4
<1>4. CASE Undo6(p)
  <2>1. Clean("v6")' /\ (Clean("v4") => Clean("v4")')
    BY <1>4 DEF Undo6, Clean
  <2> QED
    BY <1>4, <2>1 DEF Undo6
<1> USE DEF Clean
<1>5. CASE Rearm(p)
  BY <1>5 DEF Rearm
<1>6. CASE Arm(p)
  BY <1>6 DEF Arm
<1>7. CASE Record(p)
  BY <1>7 DEF Record
<1>8. CASE ConfirmPlain(p)
  BY <1>8 DEF ConfirmPlain
<1>9. CASE Unpersist(p)
  BY <1>9 DEF Unpersist
<1>10. CASE Forget(p)
  BY <1>10 DEF Forget
<1>11. CASE Disarm(p)
  BY <1>11 DEF Disarm
<1>12. CASE StopTimer(p)
  BY <1>12 DEF StopTimer
<1>13. CASE Promote(p)
  BY <1>13 DEF Promote
<1>14. CASE Install(p)
  BY <1>14 DEF Install
<1>15. CASE Enable(p)
  BY <1>15 DEF Enable
<1>16. CASE Seed(p)
  BY <1>16 DEF Seed
<1>17. CASE Rewrite(p)
  BY <1>17 DEF Rewrite
<1> QED
  BY <1>1, <1>2, <1>3, <1>4, <1>5, <1>6, <1>7, <1>8, <1>9, <1>10, <1>11, <1>12, <1>13, <1>14, <1>15, <1>16, <1>17 DEF Step

\* Starting a process keeps it: a commit accepts what is live.
LEMMA NetStart ==
  ASSUME Clients = {"daemon"}, NetInv, Command("daemon") \/ Fire
  PROVE  WhoInv' /\ SafeInv' /\ CleanInv' /\ Covered'
<1> USE DEF NetInv, TypeInv, TypeOK, WhoInv, SafeInv, CleanInv, Covered, Clean,
            Start, MayStart, Idle, Families, files, unit, history, Procs
<1>1. ASSUME NEW verb \in {"apply", "safe"}, StartApply("daemon", verb)
      PROVE  WhoInv' /\ SafeInv' /\ CleanInv' /\ Covered'
  BY <1>1 DEF StartApply
<1>2. CASE StartRevert("daemon")
  BY <1>2 DEF StartRevert
<1>3. CASE StartCommit("daemon")
  <2>1. Clean("v4")' /\ Clean("v6")'
    BY <1>3 DEF StartCommit
  <2> QED
    BY <1>3, <2>1 DEF StartCommit
<1>4. CASE Fire
  BY <1>4 DEF Fire, ArmedByDaemon
<1> QED
  BY <1>1, <1>2, <1>3, <1>4 DEF Command

\* Every step keeps it.
LEMMA NetNext ==
  ASSUME Clients = {"daemon"}, {"kill", "armfail", "reboot", "dockerd"} \cap Env = {}
  PROVE  NetInv /\ [Next]_vars => NetInv'
<1> SUFFICES ASSUME NetInv, [Next]_vars PROVE WhoInv' /\ SafeInv' /\ CleanInv' /\ Covered'
  BY TypeNext DEF NetInv
<1> USE DEF NetInv, WhoInv, SafeInv, CleanInv, Covered, Clean, Idle,
            files, unit, procs, history
<1>1. ASSUME NEW s \in Scripts, Recompile(s)
      PROVE  WhoInv' /\ SafeInv' /\ CleanInv' /\ Covered'
  BY <1>1 DEF Recompile
<1>2. CASE (\E c \in Clients : Command(c)) \/ Fire
  BY <1>2, NetStart
<1>3. CASE \E p \in Procs : Step(p)
  BY <1>3, NetStep
<1>4. ~(BootStart \/ DockerRestart \/ Reboot \/ \E c \in Clients : Kill(c))
  BY DEF BootStart, DockerRestart, Reboot, Kill
<1>5. CASE UNCHANGED vars
  BY <1>5 DEF vars
<1> QED
  BY <1>1, <1>2, <1>3, <1>4, <1>5 DEF Next

\* The rollback net: while the daemon is the only one to run the engine, its
\* engine is not killed, systemd-run works and neither dockerd nor the host
\* restarts, rules nobody accepted are live only with the dead-man armed or at
\* work, also when it fires in the middle of another command and when scripts,
\* copies and units fail (arm_deadman, apply, commit, revert).
THEOREM NetCoversCorrect ==
  ASSUME Clients = {"daemon"}, {"kill", "armfail", "reboot", "dockerd"} \cap Env = {}
  PROVE  Spec => []NetCovers
<1>1. Init => NetInv
  BY TypeInit DEF Init, NetInv, WhoInv, SafeInv, CleanInv, Covered, Clean, Idle, Families,
     Procs
<1>2. NetInv => NetCovers
  BY DEF NetInv, Covered, Clean, NetCovers, Families
<1> QED
  BY <1>1, <1>2, NetNext, PTL DEF Spec
=============================================================================
