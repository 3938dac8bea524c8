------------------------- MODULE ZfwAppsSafetyProofs ------------------------
(***************************************************************************)
(* Theorems about ZfwApps: what the app chains hold when a sync has        *)
(* succeeded, which connections are left, and that an answer replaces the  *)
(* one before it.                                                          *)
(***************************************************************************)
EXTENDS ZfwAppsProofs

-----------------------------------------------------------------------------
(* The chains.  The engine is assumed to finish its rewrites:              *)
(* apps_block_ignored.cfg shows what one that stops half-way does.         *)

\* Open no port otherwise than its entry says, or not at all.
Within(open, f) == \A p \in Ports : open[p] \in {"", Reach(f.entries[p], f.mode)}

\* The chains hold what a script says, or are empty since.
Holds(open, zone) == \A p \in zone : admits[p] \in {"", open[p]}

EmptyInv == ~chains => \A p \in Ports : admits[p] = ""

\* The remembered script is what a complete run has written, unless one is
\* under way.
MemoryInv ==
  appsScript # None /\ pc \notin {"docker", "host"} => Holds(appsScript, Ports)

\* Once a sync has returned nil, only the next one changes apps.json.
RestInv == okay /\ pc \in {"idle", "answer", "record"} => Within(admits, file)

\* The script of a sync follows from the apps.json it saved.
ScriptInv ==
  pc \in {"write", "docker", "host", "flush"} => draft = file /\ Within(script, file)

\* How far the rewrite has come.
FillInv ==
  /\ pc = "host" => Holds(script, DockerPorts)
  /\ pc = "flush" => Holds(script, Ports)

ChainInv == /\ TypeInv /\ EmptyInv /\ MemoryInv /\ RestInv /\ ScriptInv /\ FillInv

\* Closed chains open nothing.
LEMMA ClosedIsEmpty ==
  ASSUME admits' = Closed
  PROVE  \A p \in Ports : admits'[p] = ""
BY DEF Closed

\* A sync compiles nothing its entries do not say.
LEMMA CompiledWithin ==
  ASSUME NEW f, NEW live
  PROVE  Within(CompileApps(f, live), f)
BY DEF CompileApps, Within

\* Initially the chains are empty.
LEMMA ChainInit == Init => ChainInv
<1> SUFFICES ASSUME Init PROVE ChainInv
  OBVIOUS
<1> QED
  BY TypeInit DEF Init, ChainInv, EmptyInv, MemoryInv, RestInv, ScriptInv, FillInv, Closed

\* The steps of a sync.
LEMMA ChainSync ==
  ASSUME "enginefail" \notin Env
  PROVE  ChainInv /\ TypeInv' /\ Sync => ChainInv'
<1> SUFFICES ASSUME ChainInv, TypeInv', Sync PROVE ChainInv'
  OBVIOUS
<1> USE DEF ChainInv, Goto, Return, Unlock, host, ruleset, kernel, memory, locals, apply
<1>1. CASE Wake \/ ReadInventory \/ SyncWithdraw
  BY <1>1 DEF Wake, ReadInventory, SyncWithdraw, EmptyInv, MemoryInv, RestInv, ScriptInv,
              FillInv, Holds, Within
<1>2. CASE SyncDetect
  <2>1. EmptyInv' /\ MemoryInv' /\ FillInv'
    BY <1>2 DEF SyncDetect, EmptyInv, MemoryInv, FillInv, Holds
  <2>2. RestInv'
    BY <1>2 DEF SyncDetect, RestInv
  <2>3. ScriptInv'
    <3>1. CASE pc' = "write"
      <4>1. draft' = file' /\ script' = CompileApps(file', applied)
        BY <1>2, <3>1 DEF SyncDetect
      <4>2. Within(CompileApps(file', applied), file')
        BY CompiledWithin
      <4> QED
        BY <4>1, <4>2 DEF ScriptInv, Within
    <3>2. CASE pc' = "idle"
      BY <3>2 DEF ScriptInv
    <3> QED
      BY <1>2, <3>1, <3>2 DEF SyncDetect
  <2> QED
    BY <2>1, <2>2, <2>3
<1>3. CASE SyncWrite
  <2>1. pc' \in {"docker", "flush"}
    BY <1>3 DEF SyncWrite, MayFail
  <2>2. CASE pc' = "docker"
    BY <1>3, <2>2 DEF SyncWrite, MayFail, EmptyInv, MemoryInv, RestInv, ScriptInv, FillInv, Within
  <2>3. CASE pc' = "flush"
    <3>1. script = appsScript
      BY <1>3, <2>3 DEF SyncWrite, MayFail
    <3>2. appsScript # None
      BY <3>1, NoneAssumption DEF TypeInv, LocalsT
    <3>3. Holds(script, Ports)
      BY <1>3, <3>1, <3>2 DEF MemoryInv, SyncWrite
    <3> QED
      BY <1>3, <2>3, <3>3 DEF SyncWrite, MayFail, EmptyInv, MemoryInv, RestInv, ScriptInv, FillInv,
                              Holds, Within
  <2> QED
    BY <2>1, <2>2, <2>3
<1>4. ASSUME NEW zone \in SUBSET Ports, Fill(zone), UNCHANGED <<script, chains>>
      PROVE  /\ EmptyInv'
             /\ \A p \in zone : admits'[p] \in {"", script'[p]}
             /\ \A p \in Ports \ zone : admits'[p] = admits[p]
  BY <1>4 DEF Fill, EmptyInv
<1>5. CASE FillDocker
  <2>1. Fill(DockerPorts) /\ Goto("host") /\ UNCHANGED <<script, draft, okay>>
    BY <1>5 DEF FillDocker, EngineFails, MayFail
  <2>2. EmptyInv' /\ \A p \in DockerPorts : admits'[p] \in {"", script'[p]}
    BY <1>4, <1>5, <2>1 DEF FillDocker, DockerPorts
  <2> QED
    BY <1>5, <2>1, <2>2 DEF FillDocker, MemoryInv, RestInv, ScriptInv, FillInv, Holds, Within
<1>6. CASE FillHost
  <2>1. Fill(HostPorts) /\ Goto("flush") /\ UNCHANGED <<script, draft, okay>>
        /\ appsScript' = IF missing' THEN None ELSE script
    BY <1>6 DEF FillHost, EngineFails, MayFail
  <2>2. /\ EmptyInv'
        /\ \A p \in HostPorts : admits'[p] \in {"", script'[p]}
        /\ \A p \in DockerPorts : admits'[p] = admits[p]
    BY <1>4, <1>6, <2>1, PortsAssumption DEF FillHost, DockerPorts
  <2>3. \A p \in Ports : admits'[p] \in {"", script'[p]}
    BY <1>6, <2>1, <2>2 DEF FillHost, FillInv, Holds, DockerPorts
  <2> QED
    BY <1>6, <2>1, <2>2, <2>3 DEF FillHost, MemoryInv, RestInv, ScriptInv, FillInv, Holds, Within
<1>7. CASE SyncFlush
  <2>1. Within(admits, file)
    BY <1>7 DEF SyncFlush, ScriptInv, FillInv, Holds, Within
  <2>2. MemoryInv'
    BY <1>7 DEF SyncFlush, MemoryInv, Holds
  <2> QED
    BY <1>7, <2>1, <2>2 DEF SyncFlush, EmptyInv, RestInv, ScriptInv, FillInv, Within
<1> QED
  BY <1>1, <1>2, <1>3, <1>5, <1>6, <1>7 DEF Sync

\* A step that leaves the sync, the chains and apps.json alone.
LEMMA ChainElsewhere ==
  ASSUME ChainInv, TypeInv', EmptyInv',
         UNCHANGED <<admits, appsScript, okay, pc, file, draft, script>>
  PROVE  ChainInv'
BY DEF ChainInv, MemoryInv, RestInv, ScriptInv, FillInv, Holds, Within

\* A step that empties the chains.
LEMMA ChainEmptied ==
  ASSUME ChainInv, TypeInv', admits' = Closed,
         UNCHANGED <<appsScript, okay, pc, file, draft, script>>
  PROVE  ChainInv'
<1>1. \A p \in Ports : admits'[p] = ""
  BY ClosedIsEmpty
<1>2. EmptyInv'
  BY <1>1 DEF EmptyInv
<1>3. MemoryInv' /\ FillInv'
  BY <1>1 DEF MemoryInv, FillInv, Holds, DockerPorts
<1>4. RestInv'
  BY <1>1 DEF RestInv, Within
<1>5. ScriptInv'
  BY DEF ChainInv, ScriptInv, Within
<1> QED
  BY <1>2, <1>3, <1>4, <1>5 DEF ChainInv

\* The other steps.
LEMMA ChainOthers ==
  ChainInv /\ TypeInv' /\ (Handlers \/ Firewall \/ World) => ChainInv'
<1> SUFFICES ASSUME ChainInv, TypeInv', Handlers \/ Firewall \/ World PROVE ChainInv'
  OBVIOUS
<1> USE DEF host, ruleset, kernel, memory, thread, locals, apply
<1>1. CASE Handlers
  <2> USE DEF ChainInv, Goto, Unlock, EmptyInv, MemoryInv, RestInv, ScriptInv, FillInv,
              Holds, Within
  <2>1. ASSUME NEW m, SetMode(m) PROVE ChainInv'
    BY <2>1 DEF SetMode
  <2>2. ASSUME NEW p, NEW answer, DecideLoad(p, answer) PROVE ChainInv'
    BY <2>2 DEF DecideLoad
  <2>3. CASE DecideSave
    BY <2>3 DEF DecideSave
  <2>4. CASE DecideRecord
    BY <2>4 DEF DecideRecord
  <2> QED
    BY <1>1, <2>1, <2>2, <2>3, <2>4 DEF Handlers
<1>2. CASE Firewall
  <2>1. ASSUME NEW by, NEW safe, Apply(by, safe) PROVE ChainInv'
    <3>1. CASE ScriptRan(safe)
      BY <2>1, <3>1, ChainElsewhere DEF Apply, ScriptRan, EmptyInv
    <3>2. CASE ScriptFailed(safe)
      BY <2>1, <3>2, ChainEmptied DEF Apply, ScriptFailed, Teardown
    <3> QED
      BY <2>1, <3>1, <3>2 DEF Apply
  <2>2. CASE ApplyRecord \/ ApplyReply \/ Commit
    BY <2>2, ChainElsewhere DEF ApplyRecord, ApplyReply, Commit, ChainInv, EmptyInv
  <2>3. CASE Revert \/ Deadman
    BY <2>3, ChainEmptied DEF Revert, Deadman, Teardown
  <2> QED
    BY <1>2, <2>1, <2>2, <2>3 DEF Firewall
<1>3. CASE World
  <2>1. CASE Restart
    BY <2>1 DEF Restart, Return, Unlock, ChainInv, EmptyInv, MemoryInv, RestInv, ScriptInv,
                FillInv
  <2>2. CASE ~Restart
    <3>1. UNCHANGED <<admits, chains, appsScript, okay, pc, file, draft, script>>
      BY <1>3, <2>2 DEF World, SaveRules, AppStarts, AppStops, Connect
    <3> QED
      BY <3>1, ChainElsewhere DEF ChainInv, EmptyInv
  <2> QED
    BY <2>1, <2>2
<1> QED
  BY <1>1, <1>2, <1>3

LEMMA ChainNext ==
  ASSUME "enginefail" \notin Env
  PROVE  ChainInv /\ [Next]_vars => ChainInv'
<1> SUFFICES ASSUME ChainInv, [Next]_vars PROVE ChainInv'
  OBVIOUS
<1>1. TypeInv'
  BY TypeNext DEF ChainInv
<1>2. CASE UNCHANGED vars
  BY <1>1, <1>2, ChainElsewhere
     DEF vars, host, kernel, memory, thread, locals, ChainInv, EmptyInv
<1> QED
  BY <1>1, <1>2, ChainSync, ChainOthers DEF Next

\* Once a sync has returned without an error, no app chain opens a port wider
\* than its answer or the mode says, however many applies, reverts, dead-men,
\* restarts and failures of docker, the disk or the compiler came before it -
\* as long as no run of `zfw apps` stops half-way.
THEOREM NoWiderThanAnsweredCorrect ==
  ASSUME "enginefail" \notin Env
  PROVE  Spec => []NoWiderThanAnswered
<1>1. ChainInv => NoWiderThanAnswered
  <2> SUFFICES ASSUME ChainInv, AtRest, NEW p \in Ports
               PROVE  Rank(admits[p]) <= Rank(Reach(file.entries[p], file.mode))
    BY DEF NoWiderThanAnswered
  <2>1. admits[p] \in {"", Reach(file.entries[p], file.mode)}
    BY DEF AtRest, ChainInv, RestInv, Within
  <2>2. Rank("") = 0
    BY DEF Rank
  <2>3. \A x : Rank(x) \in 0..2
    BY DEF Rank
  <2> DEFINE open == Rank(admits[p])
             meant == Rank(Reach(file.entries[p], file.mode))
  <2>4. open = 0 \/ open = meant
    BY <2>1, <2>2
  <2>5. open \in 0..2 /\ meant \in 0..2
    BY <2>3
  <2> HIDE DEF open, meant
  <2>6. open <= meant
    BY <2>4, <2>5
  <2> QED
    BY <2>6 DEF open, meant
<1>2. ChainInv /\ [Next]_vars => ChainInv'
  BY ChainNext
<1> QED
  BY <1>1, <1>2, ChainInit, PTL DEF Spec
-----------------------------------------------------------------------------
(* Connections *)

Meant(f) == [p \in Ports |-> Reach(f.entries[p], f.mode)]

\* The record of the last sync, or the chain the present one has written, lets
\* the source reach the port.
Known(p, source) == appsOpen # None /\ Covers(appsOpen[p], source)
Written(p, source) == pc \in {"host", "flush"} /\ Covers(script[p], source)

\* The chains open nothing that is not known or just written, so that the
\* flush that ends a sync knows about every connection.
CutInv ==
  /\ conns \subseteq Ports \X {"lan", "wan"}
  /\ \A p \in Ports, source \in {"lan", "wan"} :
       <<p, source>> \in conns \/ Covers(admits[p], source)
         => Known(p, source) \/ Written(p, source)
  /\ okay /\ pc \in {"idle", "answer", "record"} => appsOpen = Meant(file)

\* A port that is not narrowed still covers what it covered.
LEMMA WiderCovers ==
  ASSUME NEW wide, NEW reach, NEW source, Covers(reach, source), source \in {"lan", "wan"},
         ~(Rank(wide) < Rank(reach))
  PROVE  Covers(wide, source)
<1>1. CASE reach = "any"
  BY <1>1 DEF Covers, Rank
<1>2. CASE reach = "lan" /\ source = "lan"
  BY <1>2 DEF Covers, Rank
<1> QED
  BY <1>1, <1>2 DEF Covers

\* Nothing comes through a closed chain.
LEMMA EmptyCoversNone ==
  ASSUME NEW source PROVE ~Covers("", source)
BY DEF Covers

\* A step of nobody's sync that opens no chain.
LEMMA CutElsewhere ==
  ASSUME CutInv, conns' \subseteq conns, UNCHANGED <<appsOpen, script, okay, pc, file>>,
         \A p \in Ports : admits'[p] \in {admits[p], ""}
  PROVE  CutInv'
BY EmptyCoversNone DEF CutInv, Known, Written, Meant

\* The chain of a zone is written.
LEMMA CutFill ==
  ASSUME CutInv, NEW zone, Fill(zone), UNCHANGED <<appsOpen, script, conns, okay, file>>,
         pc' \in {"host", "flush"}
  PROVE  CutInv'
<1>1. \A p \in Ports : admits'[p] \in {admits[p], script[p]}
  BY DEF Fill
<1> QED
  BY <1>1 DEF CutInv, Known, Written

\* The flush at the end of a sync.
LEMMA CutFlush ==
  ASSUME ChainInv, CutInv, SyncFlush, "flushfail" \notin Env PROVE CutInv'
<1> DEFINE now == Meant(draft)
<1>1. /\ pc = "flush" /\ draft = file /\ file' = file /\ admits' = admits /\ pc' = "idle"
      /\ appsOpen' = now /\ conns' = conns \ To(Narrowed(now))
  BY DEF SyncFlush, Flush, MayFail, Meant, Return, Unlock, kernel, ChainInv, ScriptInv
<1>2. now # None
  <2>1. now \in Openings
    <3>1. file \in Files
      BY DEF ChainInv, TypeInv, PromptT
    <3>2. \A p \in Ports : Reach(file.entries[p], file.mode) \in Reaches
      BY <3>1, ReachType DEF Files
    <3> QED
      BY <1>1, <3>2 DEF Meant, Openings
  <2> QED
    BY <2>1, NoneAssumption
<1>3. ASSUME NEW p \in Ports, NEW source \in {"lan", "wan"},
             Covers(script[p], source) \/ Covers(admits[p], source)
      PROVE  Covers(now[p], source)
  <2>1. script[p] \in {"", now[p]}
    BY <1>1 DEF ChainInv, ScriptInv, Within, Meant
  <2>2. admits[p] \in {"", script[p]}
    BY <1>1 DEF ChainInv, FillInv, Holds
  <2> QED
    BY <1>3, <2>1, <2>2, EmptyCoversNone
<1>4. ASSUME NEW p \in Ports, NEW source \in {"lan", "wan"}, <<p, source>> \in conns'
      PROVE  Covers(now[p], source)
  <2>1. <<p, source>> \in conns /\ p \notin Narrowed(now)
    BY <1>1, <1>4 DEF To
  <2>2. CASE Known(p, source)
    <3>1. ~(Rank(now[p]) < Rank(appsOpen[p]))
      BY <2>1, <2>2 DEF Narrowed, Known
    <3> QED
      BY <2>2, <3>1, WiderCovers DEF Known
  <2>3. CASE Written(p, source)
    BY <1>3, <2>3 DEF Written
  <2> QED
    BY <2>1, <2>2, <2>3 DEF CutInv
<1>5. conns' \subseteq conns
  BY <1>1
<1> HIDE DEF now
<1>6. \A p \in Ports, source \in {"lan", "wan"} :
        <<p, source>> \in conns' \/ Covers(admits'[p], source) => Known(p, source)'
  BY <1>1, <1>2, <1>3, <1>4 DEF Known
<1>7. appsOpen' = Meant(file')
  BY <1>1 DEF now
<1> QED
  BY <1>5, <1>6, <1>7 DEF CutInv

\* The steps of a sync.
LEMMA CutSync ==
  ASSUME {"enginefail", "flushfail"} \cap Env = {}
  PROVE  ChainInv /\ CutInv /\ Sync => CutInv'
<1> SUFFICES ASSUME ChainInv, CutInv, Sync PROVE CutInv'
  OBVIOUS
<1> USE DEF Goto, Return, Unlock, host, ruleset, kernel, memory, locals, apply
<1>1. CASE Wake \/ ReadInventory \/ SyncWithdraw \/ SyncDetect \/ SyncWrite
  <2>1. /\ UNCHANGED <<admits, conns, appsOpen>>
        /\ pc \notin {"host", "flush"}
        /\ pc' \in {"idle", "answer", "record"} => ~okay'
    BY <1>1 DEF Wake, ReadInventory, SyncWithdraw, SyncDetect, SyncWrite, MayFail
  <2> QED
    BY <2>1 DEF CutInv, Known, Written
<1>2. CASE FillDocker
  <2>1. Fill(DockerPorts) /\ pc' = "host" /\ UNCHANGED <<appsOpen, script, conns, okay, file>>
    BY <1>2 DEF FillDocker, EngineFails, MayFail
  <2> QED
    BY <2>1, CutFill
<1>3. CASE FillHost
  <2>1. Fill(HostPorts) /\ pc' = "flush" /\ UNCHANGED <<appsOpen, script, conns, okay, file>>
    BY <1>3 DEF FillHost, EngineFails, MayFail
  <2> QED
    BY <2>1, CutFill
<1> QED
  BY <1>1, <1>2, <1>3, CutFlush DEF Sync

\* The other steps.
LEMMA CutOthers ==
  ASSUME "restart" \notin Env
  PROVE  TypeInv /\ CutInv /\ (Handlers \/ Firewall \/ World) => CutInv'
<1> SUFFICES ASSUME TypeInv, CutInv, Handlers \/ Firewall \/ World PROVE CutInv'
  OBVIOUS
<1> USE DEF host, ruleset, kernel, memory, thread, locals, apply
<1>1. CASE Handlers
  <2>1. /\ UNCHANGED <<admits, conns, appsOpen, okay>>
        /\ pc \in {"idle", "answer", "record"}
        /\ pc' \in {"idle", "answer", "record"} => file' = file
        /\ pc' \notin {"host", "flush"}
    BY <1>1 DEF Handlers, SetMode, DecideLoad, DecideSave, DecideRecord, Goto, Unlock, MayFail
  <2> QED
    BY <2>1 DEF CutInv, Known, Written, Meant
<1>2. CASE Firewall
  <2>1. UNCHANGED <<appsOpen, script, okay, pc, file>> /\ conns' \subseteq conns
    BY <1>2, FlushShrinks
       DEF Firewall, Apply, ApplyRecord, ApplyReply, Commit, Revert, Deadman
  <2>2. admits' \in {admits, Closed}
    BY <1>2 DEF Firewall, Apply, ScriptRan, ScriptFailed, ApplyRecord, ApplyReply, Commit,
                Revert, Deadman, Teardown
  <2> QED
    BY <2>1, <2>2, CutElsewhere DEF Closed
<1>3. ASSUME NEW p \in Ports, NEW source \in {"lan", "wan"}, Connect(p, source)
      PROVE  CutInv'
  <2>1. conns' = conns \cup {<<p, source>>} /\ Covers(admits[p], source)
    BY <1>3 DEF Connect
  <2>2. UNCHANGED <<admits, appsOpen, script, okay, pc, file>>
    BY <1>3 DEF Connect
  <2> QED
    BY <2>1, <2>2 DEF CutInv, Known, Written, Meant
<1>4. CASE World /\ ~\E p \in Ports, source \in {"lan", "wan"} : Connect(p, source)
  <2>1. UNCHANGED <<admits, appsOpen, script, okay, pc, file>> /\ conns' \subseteq conns
    BY <1>4 DEF World, SaveRules, AppStarts, AppStops, Restart
  <2> QED
    BY <2>1, CutElsewhere
<1> QED
  BY <1>1, <1>2, <1>3, <1>4 DEF World

\* Between two syncs no connection is left that came in through an app chain
\* and that the answer of its port, or the mode, no longer lets in, although
\* clients connect at any moment of a sync - as long as the daemon is not
\* restarted, which forgets how far the ports were open, no rewrite stops
\* half-way, which opens what no record says, and every flush of conntrack
\* succeeds: one that fails is logged and never repeated.
THEOREM NarrowedIsCutCorrect ==
  ASSUME {"enginefail", "restart", "flushfail"} \cap Env = {}
  PROVE  Spec => []NarrowedIsCut
<1>1. Init => CutInv
  BY EmptyCoversNone DEF Init, CutInv, Closed
<1>2. ChainInv /\ CutInv /\ [Next]_vars => CutInv'
  <2> SUFFICES ASSUME ChainInv, CutInv, [Next]_vars PROVE CutInv'
    OBVIOUS
  <2>1. CASE UNCHANGED vars
    BY <2>1, CutElsewhere DEF vars, host, kernel, memory, thread, locals
  <2> QED
    BY <2>1, CutSync, CutOthers DEF Next, ChainInv
<1>3. CutInv => NarrowedIsCut
  <2> SUFFICES ASSUME CutInv, AtRest, NEW c \in conns
               PROVE  Covers(Reach(file.entries[c[1]], file.mode), c[2])
    BY DEF NarrowedIsCut
  <2>1. PICK p \in Ports, source \in {"lan", "wan"} : c = <<p, source>>
    BY DEF CutInv
  <2>2. Covers(appsOpen[p], source)
    BY <2>1 DEF CutInv, AtRest, Known, Written
  <2> QED
    BY <2>1, <2>2 DEF CutInv, AtRest, Meant
<1>4. ChainInv /\ [Next]_vars => ChainInv'
  BY ChainNext
<1> QED
  BY <1>1, <1>2, <1>3, <1>4, ChainInit, PTL DEF Spec

-----------------------------------------------------------------------------
(* Answers.  The two files of an answer (rules.json, then apps.json) are   *)
(* assumed to be written together: nothing fails and nothing restarts in   *)
(* between, and no answered entry outlives its TTL.                        *)
(* apps_answer_stacks.cfg shows why.                                       *)

\* Every rule of the prompt is the one its port's entry names.
Owned(rules, f) ==
  \A r \in rules : r.by = "prompt" =>
    f.entries[r.port] # None /\ f.entries[r.port].rule = r.id

\* An unanswered entry names no rule.
Unanswered(f) ==
  \A p \in Ports : f.entries[p] # None /\ f.entries[p].state = "pending" =>
    f.entries[p].rule = 0

\* An id is given to one rule.
Distinct(rules) == \A r, s \in rules : r.id = s.id => r = s

IdInv ==
  /\ Distinct(saved \cup loaded)
  /\ \A r \in saved \cup loaded : r.id < nextId
  /\ pc = "answer" => /\ job.rule < nextId
                      /\ \A r \in saved \cup loaded : r.id # job.rule

\* What owns the rules in rules.json: apps.json, except while an answer is
\* between its two files, and with it the copy a thread will save.
OwnerInv ==
  /\ pc # "record" => Owned(saved, file)
  /\ pc = "answer" => Owned(loaded, file)
  /\ pc \in {"answer", "record"} => draft = file
  /\ pc = "record" =>
       \A r \in saved : r.by = "prompt" =>
         IF r.port = job.port THEN r.id = job.rule
         ELSE file.entries[r.port] # None /\ file.entries[r.port].rule = r.id
  /\ pc \in {"withdraw", "detect"} => Owned(saved, draft)
  /\ Unanswered(file)
  /\ pc \in {"withdraw", "detect"} => Unanswered(draft)

AnswerInv == TypeInv /\ IdInv /\ OwnerInv

\* A rule fewer, or one written by hand, changes no ownership.
LEMMA OwnedMonotone ==
  ASSUME NEW rules, NEW more, NEW f, Owned(rules, f),
         \A r \in more : r \in rules \/ r.by = "hand"
  PROVE  Owned(more, f)
BY DEF Owned

\* Withdraw drops no owner.
LEMMA WithdrawOwned ==
  ASSUME NEW f \in Files, NEW rules \in SUBSET Rules, Owned(rules, f), Unanswered(f)
  PROVE  Owned(rules, Withdraw(f, rules)) /\ Unanswered(Withdraw(f, rules))
<1> DEFINE g == Withdraw(f, rules)
<1>1. \A p \in Ports : g.entries[p] = None \/ g.entries[p] = f.entries[p]
  BY DEF Withdraw, Files
<1>2. ASSUME NEW r \in rules, r.by = "prompt" PROVE g.entries[r.port] = f.entries[r.port]
  <2>1. r.port \in Ports /\ f.entries[r.port].rule = r.id
    BY <1>2 DEF Owned, Rules
  <2> QED
    BY <2>1 DEF Withdraw, Files
<1>3. Owned(rules, g)
  BY <1>2 DEF Owned
<1>4. Unanswered(g)
  BY <1>1 DEF Unanswered
<1> QED
  BY <1>3, <1>4

\* Refreshing an entry keeps its answer and its rule; a new entry has neither.
LEMMA MergedAnswer ==
  ASSUME NEW e \in Entries \cup {None}, NEW p, NEW inv, NEW live
  PROVE  /\ e # None => /\ Merged(e, p, inv, live) # None
                        /\ Merged(e, p, inv, live).state = e.state
                        /\ Merged(e, p, inv, live).rule = e.rule
         /\ e = None /\ Merged(e, p, inv, live) # None => Merged(e, p, inv, live).rule = 0
<1>1. CASE e # None
  <2>1. \A b \in BOOLEAN : /\ [e EXCEPT !.present = b] \in Entries
                           /\ [e EXCEPT !.present = b].state = e.state
                           /\ [e EXCEPT !.present = b].rule = e.rule
    BY <1>1 DEF Entries
  <2>2. (p \in inv.ports) \in BOOLEAN
    OBVIOUS
  <2>3. Merged(e, p, inv, live) = [e EXCEPT !.present = p \in inv.ports]
    BY <1>1 DEF Merged
  <2> QED
    BY <1>1, <2>1, <2>2, <2>3, NoneAssumption
<1>2. CASE e = None
  BY <1>2 DEF Merged
<1> QED
  BY <1>1, <1>2

\* Detect drops no owner while no entry has outlived its TTL.
LEMMA DetectOwned ==
  ASSUME NEW f \in Files, NEW rules \in SUBSET Rules, NEW inv, NEW live,
         Owned(rules, f), Unanswered(f)
  PROVE  Owned(rules, Detect(f, inv, live, {})) /\ Unanswered(Detect(f, inv, live, {}))
<1> DEFINE g == Detect(f, inv, live, {})
           m(p) == Merged(f.entries[p], p, inv, live)
<1>1. \A p \in Ports : f.entries[p] \in Entries \cup {None}
  BY DEF Files
<1>2. \A p \in Ports : \/ g.entries[p] = m(p)
                       \/ g.entries[p] = None /\ m(p).state = "pending"
  BY DEF Detect, Files
<1> HIDE DEF g
<1>3. ASSUME NEW r \in rules, r.by = "prompt"
      PROVE  g.entries[r.port] # None /\ g.entries[r.port].rule = r.id
  <2>1. /\ r.port \in Ports /\ r.id # 0
        /\ f.entries[r.port] # None /\ f.entries[r.port].rule = r.id
    BY <1>3 DEF Owned, Rules
  <2>2. f.entries[r.port].state # "pending"
    BY <2>1 DEF Unanswered
  <2>3. m(r.port) # None /\ m(r.port).state # "pending" /\ m(r.port).rule = r.id
    BY <1>1, <2>1, <2>2, MergedAnswer
  <2> QED
    BY <1>2, <2>1, <2>3
<1>4. Owned(rules, g)
  BY <1>3 DEF Owned
<1>5. ASSUME NEW p \in Ports, g.entries[p] # None, g.entries[p].state = "pending"
      PROVE  g.entries[p].rule = 0
  <2>1. g.entries[p] = m(p)
    BY <1>2, <1>5
  <2>2. CASE f.entries[p] = None
    BY <1>1, <1>5, <2>1, <2>2, MergedAnswer
  <2>3. CASE f.entries[p] # None
    BY <1>1, <1>5, <2>1, <2>3, MergedAnswer DEF Unanswered
  <2> QED
    BY <2>2, <2>3
<1>6. Unanswered(g)
  BY <1>5 DEF Unanswered
<1> QED
  BY <1>4, <1>6 DEF g

-----------------------------------------------------------------------------
\* Ids: no rule is added, and at most the loaded rules are forgotten.
LEMMA IdsKept ==
  ASSUME IdInv, saved' = saved, loaded' \subseteq loaded, nextId' = nextId,
         pc' # "answer" \/ (pc' = pc /\ job' = job)
  PROVE  IdInv'
BY DEF IdInv, Distinct

\* Ids stay unique, below nextId and different from the one an answer drew.
LEMMA IdNext == AnswerInv /\ [Next]_vars => IdInv'
<1> SUFFICES ASSUME AnswerInv, [Next]_vars PROVE IdInv'
  OBVIOUS
<1>0. /\ IdInv /\ nextId \in Nat /\ saved \subseteq Rules /\ loaded \subseteq Rules
      /\ \A r \in saved \cup loaded : r.id \in Nat
  BY DEF AnswerInv, TypeInv, Counters, FirewallT, LocalsT, Rules
<1> USE DEF Goto, Return, Unlock, host, ruleset, kernel, memory, thread, locals, apply
<1>1. CASE Sync
  <2>1. saved' = saved /\ nextId' = nextId /\ loaded' \subseteq loaded
    BY <1>1 DEF Sync, Wake, ReadInventory, SyncWithdraw, SyncDetect, SyncWrite,
                FillDocker, FillHost, SyncFlush, EngineFails
  <2>2. pc' # "answer"
    BY <1>1 DEF Sync, Wake, ReadInventory, SyncWithdraw, SyncDetect, SyncWrite,
                FillDocker, FillHost, SyncFlush, EngineFails
  <2> QED
    BY <1>0, <2>1, <2>2, IdsKept
<1>2. CASE Handlers
  <2>1. ASSUME NEW m, SetMode(m) PROVE IdInv'
    BY <1>0, <2>1, IdsKept DEF SetMode
  <2>2. ASSUME NEW p, NEW answer, DecideLoad(p, answer) PROVE IdInv'
    <3>1. /\ saved' = saved /\ loaded' = saved /\ nextId' = nextId + 1
          /\ job'.rule = nextId /\ pc' = "answer"
      BY <2>2 DEF DecideLoad
    <3> QED
      BY <1>0, <3>1 DEF IdInv, Distinct
  <2>3. CASE DecideSave
    <3>1. \A r \in loaded : r.id # job.rule
      BY <2>3 DEF DecideSave, AnswerInv, IdInv
    <3>2. job.rule < nextId /\ job.rule \in Nat
      BY <2>3 DEF DecideSave, AnswerInv, IdInv, TypeInv, Control, Jobs
    <3>3. \E new : new.id = job.rule /\ saved' \subseteq loaded \cup {new}
      BY <2>3 DEF DecideSave, Answered
    <3>4. nextId' = nextId /\ loaded' \subseteq loaded /\ pc' # "answer"
      BY <2>3 DEF DecideSave
    <3> QED
      BY <1>0, <3>1, <3>2, <3>3, <3>4 DEF IdInv, Distinct
  <2>4. CASE DecideRecord
    BY <1>0, <2>4, IdsKept DEF DecideRecord
  <2> QED
    BY <1>2, <2>1, <2>2, <2>3, <2>4 DEF Handlers
<1>3. CASE Firewall
  <2>1. ASSUME NEW by, NEW safe, Apply(by, safe) PROVE IdInv'
    BY <1>0, <2>1, IdsKept DEF Apply
  <2> QED
    BY <1>0, <1>3, <2>1, IdsKept DEF Firewall, ApplyRecord, ApplyReply, Commit, Revert, Deadman
<1>4. CASE World
  <2>1. CASE SaveRules
    <3>1. UNCHANGED <<pc, job, loaded>>
      BY <2>1 DEF SaveRules
    <3>2. CASE saved' \subseteq saved /\ nextId' = nextId
      BY <1>0, <3>1, <3>2 DEF IdInv, Distinct
    <3>3. CASE nextId' = nextId + 1 /\ \E new : new.id = nextId /\ saved' \subseteq saved \cup {new}
      <4>1. PICK new : new.id = nextId /\ saved' \subseteq saved \cup {new}
        BY <3>3
      <4>2. \A r \in saved \cup loaded : r.id < nextId /\ r.id # nextId /\ r.id < nextId + 1
        BY <1>0 DEF IdInv
      <4>3. Distinct(saved' \cup loaded)
        BY <1>0, <4>1, <4>2 DEF IdInv, Distinct
      <4>4. \A r \in saved' \cup loaded : r.id < nextId + 1
        BY <1>0, <4>1, <4>2
      <4>5. pc = "answer" => /\ job.rule < nextId + 1 /\ job.rule # nextId
                             /\ \A r \in saved' \cup loaded : r.id # job.rule
        <5>1. pc = "answer" => job.rule \in Nat /\ job.rule < nextId
          BY <1>0 DEF IdInv, AnswerInv, TypeInv, Control, Jobs
        <5> QED
          BY <1>0, <4>1, <5>1 DEF IdInv
      <4> QED
        BY <3>1, <3>3, <4>3, <4>4, <4>5 DEF IdInv, Distinct
    <3> QED
      BY <2>1, <3>2, <3>3 DEF SaveRules
  <2>2. CASE ~SaveRules
    BY <1>0, <1>4, <2>2, IdsKept DEF World, AppStarts, AppStops, Connect, Restart
  <2> QED
    BY <2>1, <2>2
<1>5. CASE UNCHANGED vars
  BY <1>0, <1>5, IdsKept DEF vars
<1> QED
  BY <1>1, <1>2, <1>3, <1>4, <1>5 DEF Next

-----------------------------------------------------------------------------
\* The failures between the two files of an answer, and the TTL of an answer.
Excluded == {"compilefail", "diskfail", "restart", "expire"}

\* A step that leaves rules.json, apps.json and the job alone.
LEMMA OwnersKept ==
  ASSUME OwnerInv, saved' = saved, file' = file, loaded' = loaded,
         pc' = pc, draft' = draft, job' = job
  PROVE  OwnerInv'
BY DEF OwnerInv, Owned, Unanswered

\* The steps of a sync keep the owners.
LEMMA OwnerSync ==
  ASSUME Excluded \cap Env = {}
  PROVE  AnswerInv /\ Sync => OwnerInv'
<1> SUFFICES ASSUME AnswerInv, Sync PROVE OwnerInv'
  OBVIOUS
<1>0. saved \in SUBSET Rules
  BY DEF AnswerInv, TypeInv, FirewallT
<1> USE DEF AnswerInv, Goto, Return, Unlock, ruleset
<1>1. CASE SyncWithdraw
  <2>1. draft \in Files /\ Owned(saved, draft) /\ Unanswered(draft)
    BY <1>1 DEF SyncWithdraw, TypeInv, Control, OwnerInv
  <2>2. Owned(saved, draft') /\ Unanswered(draft')
    BY <1>0, <1>1, <2>1, WithdrawOwned DEF SyncWithdraw
  <2>3. saved' = saved /\ file' = file /\ pc' = "detect"
    BY <1>1 DEF SyncWithdraw
  <2>4. Owned(saved, file) /\ Unanswered(file)
    BY <1>1 DEF SyncWithdraw, OwnerInv
  <2> QED
    BY <2>2, <2>3, <2>4 DEF OwnerInv, Owned, Unanswered
<1>2. CASE SyncDetect
  <2>1. draft \in Files /\ Owned(saved, draft) /\ Unanswered(draft)
    BY <1>2 DEF SyncDetect, TypeInv, Control, OwnerInv
  <2>2. PICK expired \in {{}} : file' = Detect(draft, seen, applied, expired) /\ pc' = "write"
    BY <1>2 DEF SyncDetect, Excluded, MayFail
  <2>3. Owned(saved, file') /\ Unanswered(file')
    BY <1>0, <2>1, <2>2, DetectOwned
  <2>4. saved' = saved
    BY <1>2 DEF SyncDetect
  <2> QED
    BY <2>2, <2>3, <2>4 DEF OwnerInv, Owned, Unanswered
<1>3. CASE Sync /\ ~SyncWithdraw /\ ~SyncDetect
  <2>1. UNCHANGED <<saved, file>> /\ pc \notin {"answer", "record"}
    BY <1>3 DEF Sync, Wake, ReadInventory, SyncWrite, FillDocker, FillHost, SyncFlush, EngineFails
  <2>2. \/ pc' \notin {"answer", "record", "withdraw", "detect"}
        \/ pc' = "withdraw" /\ draft' = file
    BY <1>3 DEF Sync, Wake, ReadInventory, SyncWrite, FillDocker, FillHost, SyncFlush, EngineFails
  <2> QED
    BY <2>1, <2>2 DEF OwnerInv, Owned, Unanswered
<1> QED
  BY <1>1, <1>2, <1>3

\* The steps of the handlers keep the owners.
LEMMA OwnerHandlers ==
  ASSUME Excluded \cap Env = {}
  PROVE  AnswerInv /\ Handlers => OwnerInv'
<1> SUFFICES ASSUME AnswerInv, Handlers PROVE OwnerInv'
  OBVIOUS
<1> USE DEF AnswerInv, Goto, Unlock, ruleset, locals, MayFail, Excluded
<1>1. ASSUME NEW m, SetMode(m) PROVE OwnerInv'
  <2>1. file'.entries = file.entries
    BY <1>1 DEF SetMode, TypeInv, PromptT, Files
  <2> QED
    BY <1>1, <2>1 DEF SetMode, OwnerInv, Owned, Unanswered
<1>2. ASSUME NEW p, NEW answer, DecideLoad(p, answer) PROVE OwnerInv'
  BY <1>2 DEF DecideLoad, OwnerInv, Owned, Unanswered
<1>3. CASE DecideSave
  <2>1. pc = "answer" /\ draft = file /\ Owned(loaded, file) /\ Unanswered(file)
    BY <1>3 DEF DecideSave, OwnerInv
  <2>2. pc' = "record" /\ UNCHANGED <<file, draft, job>> /\ saved' = Answered
    BY <1>3 DEF DecideSave
  <2>3. ASSUME NEW r \in Answered, r.by = "prompt"
        PROVE  IF r.port = job.port THEN r.id = job.rule
               ELSE file.entries[r.port] # None /\ file.entries[r.port].rule = r.id
    <3>1. CASE r \in loaded /\ r.id # file.entries[job.port].rule
      BY <2>1, <2>3, <3>1 DEF Owned
    <3>2. CASE r = [id |-> job.rule, port |-> job.port, answer |-> job.answer, by |-> "prompt"]
      BY <3>2
    <3> QED
      BY <2>1, <3>1, <3>2 DEF Answered
  <2> QED
    BY <2>1, <2>2, <2>3 DEF OwnerInv, Unanswered
<1>4. CASE DecideRecord
  <2>1. /\ draft = file /\ draft \in Files /\ job \in Jobs
        /\ draft.entries[job.port] \in Entries
    BY <1>4 DEF DecideRecord, OwnerInv, TypeInv, Control
  <2>2. /\ pc' = "read" /\ saved' = saved
        /\ file' = [draft EXCEPT !.entries[job.port].state = job.answer,
                                 !.entries[job.port].rule = job.rule]
    BY <1>4 DEF DecideRecord
  <2>3. /\ \A p \in Ports : p # job.port => file'.entries[p] = file.entries[p]
        /\ file'.entries[job.port] \in Entries
        /\ file'.entries[job.port].rule = job.rule
        /\ file'.entries[job.port].state = job.answer
    BY <2>1, <2>2 DEF Files, Entries, Jobs
  <2>4. Unanswered(file')
    BY <2>1, <2>3 DEF OwnerInv, Unanswered, Jobs, Answers
  <2>5. Owned(saved, file')
    <3>1. saved \subseteq Rules
      BY DEF TypeInv, FirewallT
    <3>2. \A r \in saved : r.by = "prompt" =>
            IF r.port = job.port THEN r.id = job.rule
            ELSE file.entries[r.port] # None /\ file.entries[r.port].rule = r.id
      BY <1>4 DEF DecideRecord, OwnerInv
    <3>3. ASSUME NEW r \in saved, r.by = "prompt"
          PROVE  file'.entries[r.port] # None /\ file'.entries[r.port].rule = r.id
      <4>1. r.port \in Ports
        BY <3>1 DEF Rules
      <4>2. CASE r.port = job.port
        BY <2>3, <3>2, <3>3, <4>2, NoneAssumption
      <4>3. CASE r.port # job.port
        BY <2>3, <3>2, <3>3, <4>1, <4>3
      <4> QED
        BY <4>2, <4>3
    <3> QED
      BY <3>3 DEF Owned
  <2> QED
    BY <2>2, <2>4, <2>5 DEF OwnerInv, Owned, Unanswered
<1> QED
  BY <1>1, <1>2, <1>3, <1>4 DEF Handlers

\* The other steps keep the owners.
LEMMA OwnerOthers ==
  ASSUME Excluded \cap Env = {}
  PROVE  AnswerInv /\ (Firewall \/ World \/ UNCHANGED vars) => OwnerInv'
<1> SUFFICES ASSUME AnswerInv, Firewall \/ World \/ UNCHANGED vars PROVE OwnerInv'
  OBVIOUS
<1> USE DEF AnswerInv, host, ruleset, kernel, memory, thread, locals, apply
<1>1. CASE Firewall
  <2>1. ASSUME NEW by, NEW safe, Apply(by, safe) PROVE OwnerInv'
    BY <2>1, OwnersKept DEF Apply
  <2> QED
    BY <1>1, <2>1, OwnersKept DEF Firewall, ApplyRecord, ApplyReply, Commit, Revert, Deadman
<1>2. CASE World
  <2>1. CASE SaveRules
    <3>1. \A r \in saved' : r \in saved \/ r.by = "hand"
      BY <2>1 DEF SaveRules
    <3>2. UNCHANGED <<file, pc, draft, job, loaded>>
      BY <2>1 DEF SaveRules
    <3>3. \A f : Owned(saved, f) => Owned(saved', f)
      BY <3>1 DEF Owned
    <3>4. pc = "record" => \A r \in saved' : r.by = "prompt" =>
            IF r.port = job.port THEN r.id = job.rule
            ELSE file.entries[r.port] # None /\ file.entries[r.port].rule = r.id
      BY <3>1 DEF OwnerInv
    <3> QED
      BY <3>2, <3>3, <3>4 DEF OwnerInv, Owned, Unanswered
  <2>2. CASE ~SaveRules
    BY <1>2, <2>2, OwnersKept DEF World, AppStarts, AppStops, Connect, Restart, Excluded
  <2> QED
    BY <2>1, <2>2
<1>3. CASE UNCHANGED vars
  BY <1>3, OwnersKept DEF vars
<1> QED
  BY <1>1, <1>2, <1>3

\* However saves, edits, applies, dead-men and failures of docker and of the
\* engine interleave, a port never has two rules of the prompt - as long as
\* nothing fails between the two files of an answer and no answer expires.
THEOREM AnswersDoNotStackCorrect ==
  ASSUME Excluded \cap Env = {}
  PROVE  Spec => []AnswersDoNotStack
<1>1. Init => AnswerInv
  <2> SUFFICES ASSUME Init PROVE AnswerInv
    OBVIOUS
  <2>1. saved = {} /\ loaded = {} /\ pc = "idle" /\ \A p \in Ports : file.entries[p] = None
    BY DEF Init, NoFile
  <2>2. IdInv
    BY <2>1 DEF IdInv, Distinct
  <2>3. OwnerInv
    BY <2>1 DEF OwnerInv, Owned, Unanswered
  <2> QED
    BY <2>2, <2>3, TypeInit DEF AnswerInv
<1>2. AnswerInv /\ [Next]_vars => AnswerInv'
  <2> SUFFICES ASSUME AnswerInv, [Next]_vars PROVE AnswerInv'
    OBVIOUS
  <2>1. OwnerInv'
    BY OwnerSync, OwnerHandlers, OwnerOthers DEF Next
  <2> QED
    BY <2>1, IdNext, TypeNext DEF AnswerInv
<1>3. AnswerInv => AnswersDoNotStack
  <2> SUFFICES ASSUME AnswerInv, NEW r \in saved, NEW q \in saved,
                      r.by = "prompt", q.by = "prompt", r.port = q.port
               PROVE  r = q
    BY DEF AnswersDoNotStack
  <2>1. r.id = q.id
    BY DEF AnswerInv, OwnerInv, Owned
  <2> QED
    BY <2>1 DEF AnswerInv, IdInv, Distinct
<1> QED
  BY <1>1, <1>2, <1>3, PTL DEF Spec
=============================================================================
