---------------------------- MODULE ZfwAppsProofs ---------------------------
(***************************************************************************)
(* Theorems about ZfwApps, for every set of ports, every bound on the      *)
(* environment and every number of restarts and failures, except where a   *)
(* theorem says which failures it leaves out.                              *)
(***************************************************************************)
EXTENDS ZfwApps, TLAPS

-----------------------------------------------------------------------------
(* The operators of package apps *)

\* An entry, or none, is open to one of the three sources.
LEMMA ReachType ==
  ASSUME NEW e \in Entries \cup {None}, NEW mode
  PROVE  Reach(e, mode) \in Reaches
BY DEF Reach, Reaches, Entries, Answers

\* Withdraw only drops entries.
LEMMA WithdrawType ==
  ASSUME NEW f \in Files, NEW rules
  PROVE  Withdraw(f, rules) \in Files
BY DEF Withdraw, Files

\* An entry is refreshed, made or absent.
LEMMA MergedType ==
  ASSUME NEW e \in Entries \cup {None}, NEW p, NEW inv, NEW live
  PROVE  Merged(e, p, inv, live) \in Entries \cup {None}
<1>1. CASE e # None
  <2>1. e \in Entries
    BY <1>1
  <2>2. \A b \in BOOLEAN : [e EXCEPT !.present = b] \in Entries
    BY <2>1 DEF Entries
  <2>3. (p \in inv.ports) \in BOOLEAN
    OBVIOUS
  <2> QED
    BY <1>1, <2>2, <2>3 DEF Merged
<1>2. CASE e = None /\ p \in inv.ports /\ IsNew(p, live, inv.fresh)
  <2>1. [state |-> "pending", rule |-> 0, present |-> TRUE] \in Entries
    BY DEF Entries
  <2> QED
    BY <1>2, <2>1 DEF Merged
<1>3. CASE e = None /\ ~(p \in inv.ports /\ IsNew(p, live, inv.fresh))
  BY <1>3 DEF Merged
<1> QED
  BY <1>1, <1>2, <1>3

\* Detect refreshes, adds and drops entries.
LEMMA DetectType ==
  ASSUME NEW f \in Files, NEW inv, NEW live, NEW expired
  PROVE  Detect(f, inv, live, expired) \in Files
<1>1. \A p \in Ports : Merged(f.entries[p], p, inv, live) \in Entries \cup {None}
  BY MergedType DEF Files
<1> QED
  BY <1>1 DEF Detect, Files

\* What the app chains are given.
LEMMA CompileAppsType ==
  ASSUME NEW f \in Files, NEW live
  PROVE  CompileApps(f, live) \in Openings
<1>1. ASSUME NEW p \in Ports PROVE Reach(f.entries[p], f.mode) \in Reaches
  BY ReachType DEF Files
<1> QED
  BY <1>1 DEF CompileApps, Openings, Reaches

-----------------------------------------------------------------------------
(* Types *)

HostT == running \subseteq Ports /\ fresh \subseteq HostPorts

FirewallT ==
  /\ saved \subseteq Rules /\ lastApplied \subseteq Rules
  /\ applied \in Records \cup {None}
  /\ chains \in BOOLEAN /\ armed \in BOOLEAN
  /\ admits \in Openings
  /\ fw \in {"idle", "daemon_ran", "daemon_recorded", "cli_ran"}
  /\ applying \in Records \cup {None}
  /\ fw # "idle" => applying \in Records
  /\ conns \subseteq Ports \X {"lan", "wan"}

PromptT ==
  /\ file \in Files
  /\ appsScript \in Openings \cup {None} /\ appsOpen \in Openings \cup {None}
  /\ force \in BOOLEAN /\ okay \in BOOLEAN

LocalsT ==
  /\ job \in Jobs \cup {None}
  /\ loaded \subseteq Rules
  /\ draft \in Files \cup {None}
  /\ seen \in [ports : SUBSET Ports, fresh : SUBSET HostPorts]
  /\ script \in Openings
  /\ missing \in BOOLEAN

\* A thread that needs apps.json or a job has it.
Control ==
  /\ pc \in Steps /\ who \in {"none", "loop", "decide", "mode"}
  /\ pc \in {"answer", "record"} =>
       job \in Jobs /\ draft \in Files /\ draft.entries[job.port] \in Entries
  /\ pc \in {"withdraw", "detect", "write", "docker", "host", "flush"} => draft \in Files

TypeInv == Counters /\ HostT /\ FirewallT /\ PromptT /\ LocalsT /\ Control

\* The parts make up the type invariant.
LEMMA TypeParts == TypeInv => TypeOK
BY DEF TypeInv, TypeOK, HostT, FirewallT, PromptT, LocalsT, Control

\* The initial states have the types.
LEMMA TypeInit == Init => TypeInv
<1> SUFFICES ASSUME Init PROVE TypeInv
  OBVIOUS
<1>1. NoFile \in Files
  BY DEF NoFile, Files
<1>2. Closed \in Openings
  BY DEF Closed, Openings, Reaches
<1>3. Inventory \subseteq Ports
  BY DEF Init, Inventory, DockerPorts
<1>4. applied \in Records \cup {None}
  BY <1>3 DEF Init, Records
<1>5. chains \in BOOLEAN
  BY DEF Init
<1>6. seen \in [ports : SUBSET Ports, fresh : SUBSET HostPorts]
  BY DEF Init
<1>c. Counters
  BY BoundAssumption DEF Init, Counters
<1>7. Control
  BY DEF Init, Control, Steps
<1> QED
  BY <1>1, <1>2, <1>3, <1>4, <1>5, <1>6, <1>7, <1>c
     DEF Init, TypeInv, HostT, FirewallT, PromptT, LocalsT

\* A flush only takes connections away.
LEMMA FlushShrinks ==
  ASSUME NEW targets, Flush(targets)
  PROVE  conns' \subseteq conns /\ (ops' = ops \/ Spend)
BY DEF Flush, To, MayFail

\* Ids are drawn one at a time, and the environment spends its bound.
LEMMA CountersNext == Counters /\ [Next]_vars => Counters'
<1> SUFFICES ASSUME Counters, [Next]_vars PROVE Counters'
  OBVIOUS
<1> DEFINE Spent == ops' = ops \/ Spend
           Drawn == nextId' = nextId \/ nextId' = nextId + 1
<1>1. Spent /\ Drawn => Counters'
  BY BoundAssumption DEF Counters, Spend
<1> USE DEF ruleset, MayFail
<1>2. CASE Sync
  <2>1. Spent
    BY <1>2, FlushShrinks
       DEF Sync, Wake, ReadInventory, SyncWithdraw, SyncDetect, SyncWrite,
           FillDocker, FillHost, SyncFlush, EngineFails
  <2>2. Drawn
    BY <1>2 DEF Sync, Wake, ReadInventory, SyncWithdraw, SyncDetect, SyncWrite,
                FillDocker, FillHost, SyncFlush
  <2> QED
    BY <1>1, <2>1, <2>2
<1>3. CASE Handlers
  BY <1>1, <1>3 DEF Handlers, SetMode, DecideLoad, DecideSave, DecideRecord
<1>4. CASE Firewall
  <2>1. ASSUME NEW by, NEW safe, Apply(by, safe) PROVE Spent /\ Drawn
    BY <2>1 DEF Apply
  <2>2. CASE ApplyReply
    BY <1>1, <2>2, FlushShrinks DEF ApplyReply
  <2> QED
    BY <1>1, <1>4, <2>1, <2>2 DEF Firewall, ApplyRecord, Commit, Revert, Deadman
<1>5. CASE World
  BY <1>1, <1>5 DEF World, SaveRules, AppStarts, AppStops, Connect, Restart
<1>6. CASE UNCHANGED vars
  BY <1>1, <1>6 DEF vars
<1> QED
  BY <1>2, <1>3, <1>4, <1>5, <1>6 DEF Next

\* The thread that lets go of appsMu leaves nothing behind.
LEMMA TypeUnlock == ASSUME Unlock PROVE LocalsT' /\ Control'
<1>1. Closed \in Openings
  BY DEF Closed, Openings, Reaches
<1>2. LocalsT'
  BY <1>1 DEF Unlock, LocalsT
<1>3. Control'
  BY DEF Unlock, Control, Steps
<1> QED
  BY <1>2, <1>3

\* What the app chains hold after they are rewritten, wholly or not.
LEMMA TypeFill ==
  ASSUME TypeInv, NEW zone \in SUBSET Ports, Fill(zone) \/ EngineFails(zone)
  PROVE  admits' \in Openings
BY DEF TypeInv, FirewallT, LocalsT, Fill, EngineFails, FillBreaks, Openings, Reaches

\* The steps of a sync keep the types.
LEMMA TypeSync == TypeInv /\ Sync /\ Counters' => TypeInv'
<1> SUFFICES ASSUME TypeInv, Sync, Counters' PROVE TypeInv'
  OBVIOUS
<1> USE DEF TypeInv, Goto, Return, host, ruleset, kernel, memory, locals, apply
<1>1. CASE Wake
  <2>1. HostT' /\ FirewallT' /\ PromptT' /\ LocalsT'
    BY <1>1 DEF Wake, HostT, FirewallT, PromptT, LocalsT
  <2>2. Control'
    BY <1>1 DEF Wake, Control, Steps
  <2> QED
    BY <2>1, <2>2
<1>2. CASE ReadInventory
  <2>1. FirewallT' /\ PromptT'
    BY <1>2 DEF ReadInventory, FirewallT, PromptT
  <2>2. HostT'
    BY <1>2 DEF ReadInventory, HostT
  <2>3. CASE Unlock
    BY <2>1, <2>2, <2>3, TypeUnlock
  <2>4. CASE ~Unlock
    <3>1. seen' \in [ports : SUBSET Ports, fresh : SUBSET HostPorts]
      BY <1>2, <2>2, <2>4 DEF ReadInventory, HostT
    <3>2. LocalsT'
      BY <1>2, <2>4, <3>1 DEF ReadInventory, LocalsT, PromptT
    <3>3. Control'
      BY <1>2, <2>4 DEF ReadInventory, Control, Steps, PromptT
    <3> QED
      BY <2>1, <2>2, <3>2, <3>3
  <2> QED
    BY <2>3, <2>4
<1>3. CASE SyncWithdraw
  <2>1. HostT' /\ FirewallT' /\ PromptT'
    BY <1>3 DEF SyncWithdraw, HostT, FirewallT, PromptT
  <2>2. draft' \in Files
    BY <1>3, WithdrawType DEF SyncWithdraw, Control
  <2>3. LocalsT' /\ Control'
    BY <1>3, <2>2 DEF SyncWithdraw, LocalsT, Control, Steps
  <2> QED
    BY <2>1, <2>3
<1>4. CASE SyncDetect
  <2>1. HostT' /\ FirewallT'
    BY <1>4 DEF SyncDetect, HostT, FirewallT
  <2>2. CASE Unlock /\ UNCHANGED file
    <3>1. PromptT'
      BY <1>4, <2>2 DEF SyncDetect, PromptT
    <3> QED
      BY <2>1, <2>2, <3>1, TypeUnlock
  <2>3. ASSUME NEW expired, draft' = Detect(draft, seen, applied, expired),
               file' = draft', script' = CompileApps(draft', applied),
               Goto("write"), UNCHANGED <<job, loaded, seen, missing, okay>>
        PROVE  TypeInv'
    <3>1. draft' \in Files
      BY <1>4, <2>3, DetectType DEF SyncDetect, Control
    <3>2. script' \in Openings
      BY <2>3, <3>1, CompileAppsType
    <3>3. PromptT' /\ LocalsT' /\ Control'
      BY <1>4, <2>3, <3>1, <3>2 DEF SyncDetect, PromptT, LocalsT, Control, Steps
    <3> QED
      BY <2>1, <3>3
  <2> QED
    BY <1>4, <2>2, <2>3 DEF SyncDetect
<1>5. CASE SyncWrite
  <2>1. HostT' /\ FirewallT' /\ PromptT'
    BY <1>5 DEF SyncWrite, HostT, FirewallT, PromptT
  <2>2. LocalsT' /\ Control'
    BY <1>5, TypeUnlock DEF SyncWrite, LocalsT, Control, Steps
  <2> QED
    BY <2>1, <2>2
<1>6. CASE FillDocker
  <2>1. admits' \in Openings
    BY <1>6, TypeFill DEF FillDocker, DockerPorts
  <2>2. HostT' /\ FirewallT' /\ PromptT'
    BY <1>6, <2>1 DEF FillDocker, EngineFails, HostT, FirewallT, PromptT
  <2>3. LocalsT' /\ Control'
    BY <1>6, TypeUnlock DEF FillDocker, Fill, EngineFails, LocalsT, Control, Steps
  <2> QED
    BY <2>2, <2>3
<1>7. CASE FillHost
  <2>1. admits' \in Openings
    BY <1>7, TypeFill, PortsAssumption DEF FillHost
  <2>2. HostT' /\ FirewallT' /\ PromptT'
    BY <1>7, <2>1 DEF FillHost, EngineFails, HostT, FirewallT, PromptT, LocalsT
  <2>3. LocalsT' /\ Control'
    BY <1>7, TypeUnlock DEF FillHost, Fill, EngineFails, LocalsT, Control, Steps
  <2> QED
    BY <2>2, <2>3
<1>8. CASE SyncFlush
  <2>1. \A p \in Ports : Reach(draft.entries[p], draft.mode) \in Reaches
    BY <1>8, ReachType DEF SyncFlush, Control, Files
  <2>2. HostT' /\ FirewallT'
    BY <1>8, FlushShrinks DEF SyncFlush, HostT, FirewallT
  <2>3. PromptT'
    BY <1>8, <2>1 DEF SyncFlush, PromptT, Openings
  <2> QED
    BY <1>8, <2>2, <2>3, TypeUnlock DEF SyncFlush
<1> QED
  BY <1>1, <1>2, <1>3, <1>4, <1>5, <1>6, <1>7, <1>8 DEF Sync

\* The steps of the handlers keep the types.
LEMMA TypeHandlers == TypeInv /\ Handlers /\ Counters' => TypeInv'
<1> SUFFICES ASSUME TypeInv, Handlers, Counters' PROVE TypeInv'
  OBVIOUS
<1> USE DEF TypeInv, Goto, host, ruleset, kernel, memory, locals, apply
<1>1. ASSUME NEW m \in {"lan", "block"}, SetMode(m) PROVE TypeInv'
  <2>1. HostT' /\ FirewallT' /\ LocalsT'
    BY <1>1 DEF SetMode, HostT, FirewallT, LocalsT
  <2>2. PromptT'
    BY <1>1 DEF SetMode, PromptT, Files
  <2>3. Control'
    BY <1>1 DEF SetMode, Control, Steps
  <2> QED
    BY <2>1, <2>2, <2>3
<1>2. ASSUME NEW p \in Ports, NEW answer \in Answers, DecideLoad(p, answer)
      PROVE  TypeInv'
  <2>1. HostT' /\ FirewallT' /\ PromptT'
    BY <1>2 DEF DecideLoad, HostT, FirewallT, PromptT
  <2>2. job' \in Jobs /\ job'.port = p
    BY <1>2 DEF DecideLoad, Jobs, Counters
  <2>3. LocalsT'
    BY <1>2, <2>2 DEF DecideLoad, LocalsT, FirewallT, PromptT
  <2>4. file.entries[p] \in Entries
    BY <1>2 DEF DecideLoad, PromptT, Files
  <2>5. Control'
    BY <1>2, <2>2, <2>4 DEF DecideLoad, Control, Steps, PromptT
  <2> QED
    BY <2>1, <2>3, <2>5
<1>3. CASE DecideSave
  <2>1. job \in Jobs
    BY <1>3 DEF DecideSave, Control
  <2>2. Answered \subseteq Rules
    BY <2>1 DEF Answered, Jobs, Rules, LocalsT
  <2>3. HostT' /\ FirewallT' /\ PromptT'
    BY <1>3, <2>2 DEF DecideSave, HostT, FirewallT, PromptT
  <2>4. LocalsT' /\ Control'
    BY <1>3, TypeUnlock DEF DecideSave, LocalsT, Control, Steps
  <2> QED
    BY <2>3, <2>4
<1>4. CASE DecideRecord
  <2>1. HostT' /\ FirewallT'
    BY <1>4 DEF DecideRecord, HostT, FirewallT
  <2>2. LocalsT' /\ Control'
    BY <1>4, TypeUnlock DEF DecideRecord, LocalsT, Control, Steps
  <2>3. file' \in Files
    <3> DEFINE answered == [draft EXCEPT
                 !.entries[job.port].state = job.answer,
                 !.entries[job.port].rule = job.rule]
    <3>1. /\ draft \in Files /\ job.port \in Ports /\ job.answer \in Answers
          /\ job.rule \in Nat /\ draft.entries[job.port] \in Entries
      BY <1>4 DEF DecideRecord, Control, Jobs
    <3>2. answered \in Files
      BY <3>1 DEF Files, Entries
    <3> QED
      BY <1>4, <3>2 DEF DecideRecord, PromptT
  <2>4. PromptT'
    BY <1>4, <2>3 DEF DecideRecord, PromptT
  <2> QED
    BY <2>1, <2>2, <2>4
<1> QED
  BY <1>1, <1>2, <1>3, <1>4 DEF Handlers

\* The steps of the firewall keep the types.
LEMMA TypeFirewall == TypeInv /\ Firewall /\ Counters' => TypeInv'
<1> SUFFICES ASSUME TypeInv, Firewall, Counters' PROVE TypeInv'
  OBVIOUS
<1> USE DEF TypeInv, host, ruleset, kernel, memory, thread, locals, apply
<1>1. Closed \in Openings
  BY DEF Closed, Openings, Reaches
<1>2. HostT' /\ PromptT' /\ LocalsT' /\ Control'
  <2>1. ASSUME NEW by, NEW safe, Apply(by, safe) PROVE HostT' /\ PromptT' /\ LocalsT' /\ Control'
    BY <2>1 DEF Apply, HostT, PromptT, LocalsT, Control
  <2>2. CASE ApplyRecord \/ ApplyReply \/ Commit
    BY ZenonT(60), <2>2 DEF ApplyRecord, ApplyReply, Commit, HostT, PromptT, LocalsT, Control
  <2>3. CASE Revert \/ Deadman
    BY ZenonT(60), <2>3 DEF Revert, Deadman, HostT, PromptT, LocalsT, Control
  <2> QED
    BY <2>1, <2>2, <2>3 DEF Firewall
<1>3. FirewallT'
  <2>1. ASSUME NEW by \in {"daemon_ran", "cli_ran"}, NEW safe \in BOOLEAN, Apply(by, safe)
        PROVE  FirewallT'
    <3>1. [rules |-> saved, published |-> Inventory] \in Records
      BY DEF FirewallT, HostT, Inventory, DockerPorts, Records
    <3>2. CASE ScriptRan(safe)
      BY <2>1, <3>1, <3>2 DEF Apply, ScriptRan, ScriptFailed, Teardown, FirewallT
    <3>3. CASE ScriptFailed(safe) /\ UNCHANGED apply
      BY <1>1, <2>1, <3>3 DEF Apply, ScriptFailed, Teardown, FirewallT
    <3> QED
      BY <2>1, <3>2, <3>3 DEF Apply
  <2>2. CASE ApplyRecord
    BY <2>2 DEF ApplyRecord, FirewallT
  <2>3. CASE ApplyReply
    <3>1. applying.rules \subseteq Rules
      BY <2>3 DEF ApplyReply, FirewallT, Records
    <3> QED
      BY <2>3, <3>1, FlushShrinks DEF ApplyReply, FirewallT
  <2>4. CASE Commit
    BY <2>4 DEF Commit, FirewallT
  <2>5. CASE Revert \/ Deadman
    BY <1>1, <2>5 DEF Revert, Deadman, Teardown, FirewallT
  <2> QED
    BY <2>1, <2>2, <2>3, <2>4, <2>5 DEF Firewall
<1> QED
  BY <1>2, <1>3

\* The steps of the operator, the containers and the clients keep the types.
LEMMA TypeWorld == TypeInv /\ World /\ Counters' => TypeInv'
<1> SUFFICES ASSUME TypeInv, World, Counters' PROVE TypeInv'
  OBVIOUS
<1> USE DEF TypeInv, host, ruleset, kernel, memory, thread, locals, apply
<1>1. CASE SaveRules
  <2>1. saved' \subseteq Rules
    <3>1. ASSUME NEW kept \in SUBSET saved, NEW p \in Ports, NEW a \in Answers
          PROVE  kept \cup {[id |-> nextId, port |-> p, answer |-> a, by |-> "hand"]}
                   \subseteq Rules
      BY DEF FirewallT, Counters, Rules
    <3> QED
      BY <1>1, <3>1 DEF SaveRules, FirewallT
  <2> QED
    BY <1>1, <2>1 DEF SaveRules, HostT, FirewallT, PromptT, LocalsT, Control
<1>2. ASSUME NEW p \in Ports, AppStarts(p) \/ AppStops(p) PROVE TypeInv'
  <2>1. HostT'
    BY <1>2 DEF AppStarts, AppStops, HostT
  <2> QED
    BY <1>2, <2>1 DEF AppStarts, AppStops, FirewallT, PromptT, LocalsT, Control
<1>3. ASSUME NEW p \in Ports, NEW source \in {"lan", "wan"}, Connect(p, source)
      PROVE  TypeInv'
  BY <1>3 DEF Connect, HostT, FirewallT, PromptT, LocalsT, Control
<1>4. CASE Restart
  <2>1. FirewallT' /\ HostT' /\ PromptT'
    BY <1>4 DEF Restart, Return, FirewallT, HostT, PromptT
  <2> QED
    BY <1>4, <2>1, TypeUnlock DEF Restart, Return
<1> QED
  BY <1>1, <1>2, <1>3, <1>4 DEF World

\* Every step keeps the types.
LEMMA TypeNext == TypeInv /\ [Next]_vars => TypeInv'
<1> SUFFICES ASSUME TypeInv, [Next]_vars PROVE TypeInv'
  OBVIOUS
<1>1. Counters'
  BY CountersNext DEF TypeInv
<1>2. CASE UNCHANGED vars
  BY <1>1, <1>2 DEF vars, host, ruleset, kernel, memory, thread, locals, apply,
                    TypeInv, HostT, FirewallT, PromptT, LocalsT, Control
<1> QED
  BY <1>1, <1>2, TypeSync, TypeHandlers, TypeFirewall, TypeWorld DEF Next

\* The state of the prompt has its types for every set of ports and whatever
\* fails.
THEOREM TypeCorrect == Spec => []TypeOK
<1>1. Spec => []TypeInv
  BY TypeInit, TypeNext, PTL DEF Spec
<1> QED
  BY <1>1, TypeParts, PTL
=============================================================================
