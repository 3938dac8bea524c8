------------------------------- MODULE ZfwLive -------------------------------
(***************************************************************************)
(* One apply after another, line by line: the scripts of ZfwCompiler write *)
(* the chains of the kernel while packets keep arriving.                   *)
(*                                                                         *)
(* The operator saves a rule set and applies it; the daemon resolves the   *)
(* container-bound rules, compiles and runs the script, either the bash    *)
(* one (a line at a time) or the restore one (a table at a time).  Any     *)
(* command may fail, and then the engine reverts; the dead-man timer or    *)
(* the operator reverts between applies.  A container may start or stop    *)
(* between applies.  The record of applied.sh is live.                     *)
(***************************************************************************)
EXTENDS ZfwCompiler

CONSTANTS
  RuleSets,    \* name -> the rule sets an operator may try to save
  Container,   \* the containers that come and go
  Published    \* container -> [tcp, udp]: the host ports it publishes

ASSUME RuleSetsAssumption == \A name \in DOMAIN RuleSets : RuleSets[name] \in RuleSet
ASSUME PublishedAssumption ==
  Published \in [Container -> [tcp : SUBSET PortNumber, udp : SUBSET PortNumber]]

VARIABLES
  running,     \* the containers that run
  live,        \* what applied.sh records: a configuration, or Nothing
  kernel,      \* chain -> the first n lines of a configuration's, or Stock
  hooked,      \* the chains their built-in chain jumps to
  script       \* the script under way, or Idle

vars == <<running, live, kernel, hooked, script>>

-----------------------------------------------------------------------------
(* Configurations: a saved rule set and the containers at its compilation *)

Inventory(run) == [tcp |-> UNION {Published[c].tcp : c \in run},
                   udp |-> UNION {Published[c].udp : c \in run}]

\* recompileLocked: a rule bound to a running container names its ports.
Resolved(name, run) ==
  LET bind(r) ==
        IF r.container \notin run \/ all(Published[r.container]) = {} THEN r
        ELSE [r EXCEPT !.ports = ListPorts(sortedPorts(all(Published[r.container])))]
  IN  [RuleSets[name] EXCEPT !.rules = [i \in DOMAIN @ |-> bind(@[i])]]

Valid == {name \in DOMAIN RuleSets : Validate(RuleSets[name])}
Configuration == [name : Valid, run : SUBSET Container]

\* f itself, in a form that TLC evaluates once.
Table(f) == CHOOSE g \in {f} : g = f

RulesOf == Table([k \in Configuration |-> Resolved(k.name, k.run)])
LinesOf == Table([k \in Configuration |-> Table(Compiled(RulesOf[k], Inventory(k.run)))])
ChainsOf == Table([k \in Configuration |-> Emitted(RulesOf[k])])

\* LiveSnapshot: what the record of applied.sh says of a configuration.
Snapshot(k) == [rules |-> RulesOf[k], published |-> Inventory(k.run),
                dnatGuard |-> RulesOf[k].policy = "deny"]

-----------------------------------------------------------------------------
(* The scripts *)

Stock == [n |-> 0]            \* an empty chain, or none
Nothing == [name |-> "none"]  \* no record
Idle == [mode |-> "none"]

TableOf(v) == IF v = 4 THEN Chains \ V6Chains ELSE V6Chains
DockerChains == {"DOCKER-USER", "DOCKER-USER6"}  \* Docker's own hooks

BuildOrder == <<"ZFW-IN", "DOCKER-USER", "ZFW-IN6", "DOCKER-USER6",
                "ZFW-OUT", "ZFW-OUT6", "ZFW-FWD-OUT">>

Op(op, c, n) == [op |-> op, chain |-> c, n |-> n]

hookOp(c) == IF c \in DockerChains THEN <<>> ELSE <<Op("hook", c, 0)>>

\* The teardown blocks of emitOutboundChains and of CompileRestoreScript.
TornDown(k) ==
  LET gone == only(BuildOrder, LAMBDA c : c \notin ChainsOf[k])
  IN  Concat([i \in DOMAIN gone |->
        <<Op("unhook", gone[i], 0), Op("flush", gone[i], 0)>>])

\* Compile: flush, append and hook one chain after the other.
BashProgram(k) ==
  LET built == only(BuildOrder, LAMBDA c : c \in ChainsOf[k])
      fill(c) == << Op("flush", c, 0) >>
                 \o [n \in DOMAIN LinesOf[k][c] |-> Op("append", c, n)]
                 \o hookOp(c)
  IN  Concat([i \in DOMAIN built |-> fill(built[i])]) \o TornDown(k)

\* A mutant of RestoreProgram: the chains are flushed first.
RestoreProgramFlushes(k) ==
  LET built == only(BuildOrder, LAMBDA c : c \in ChainsOf[k])
  IN  [i \in DOMAIN built |-> Op("flush", built[i], 0)]
      \o << Op("swap", "none", 4), Op("swap", "none", 6) >>
      \o Concat([i \in DOMAIN built |-> hookOp(built[i])])
      \o TornDown(k)

\* CompileRestoreScript: swap the two tables, then hook and tear down.
RestoreProgram(k) ==
  LET built == only(BuildOrder, LAMBDA c : c \in ChainsOf[k])
  IN  << Op("swap", "none", 4), Op("swap", "none", 6) >>
      \o Concat([i \in DOMAIN built |-> hookOp(built[i])])
      \o TornDown(k)

Programs == Table([k \in Configuration |->
                    [bash |-> BashProgram(k), restore |-> RestoreProgram(k)]])
Program(s) == Programs[s.of][s.mode]
Current == Program(script)[script.at]
Running == script # Idle

\* The chains as a command leaves them.
Written(ch, of, op) ==
  CASE op.op = "flush"  -> [ch EXCEPT ![op.chain] = Stock]
    [] op.op = "append" -> [ch EXCEPT ![op.chain] = [of |-> of, n |-> op.n]]
    [] op.op = "swap"   ->
         [c \in Chains |-> IF c \in TableOf(op.n) \cap ChainsOf[of]
                           THEN [of |-> of, n |-> Len(LinesOf[of][c])] ELSE ch[c]]
    [] OTHER -> ch

\* iptables refuses the line of an append, iptables-restore --test the table.
Rejected(of, op) ==
  LET bad(c, n) == Refused(c, LinesOf[of][c][n])
  IN  CASE op.op = "append" -> bad(op.chain, op.n)
        [] op.op = "swap" -> \E c \in TableOf(op.n) \cap ChainsOf[of] :
                               \E n \in DOMAIN LinesOf[of][c] : bad(c, n)
        [] OTHER -> FALSE

-----------------------------------------------------------------------------
(* Actions *)

Init ==
  /\ running \in SUBSET Container
  /\ live = Nothing
  /\ kernel = [c \in Chains |-> Stock]
  /\ hooked = DockerChains
  /\ script = Idle

StartContainer(c) ==
  /\ ~Running /\ c \notin running
  /\ running' = running \cup {c}
  /\ UNCHANGED <<live, kernel, hooked, script>>

StopContainer(c) ==
  /\ ~Running /\ c \in running
  /\ running' = running \ {c}
  /\ UNCHANGED <<live, kernel, hooked, script>>

\* POST rules (refused unless Validate), then apply: recompile, run the script.
Apply(name, mode) ==
  /\ ~Running /\ Validate(RuleSets[name])
  /\ script' = [of |-> [name |-> name, run |-> running], mode |-> mode, at |-> 1]
  /\ UNCHANGED <<running, live, kernel, hooked>>

\* A mutant of Step: an off-by-one at the last command.
StepBeyond ==
  /\ Running /\ ~Rejected(script.of, Current)
  /\ kernel' = Written(kernel, script.of, Current)
  /\ UNCHANGED <<running, hooked>>
  /\ IF script.at <= Len(Program(script))
     THEN script' = [script EXCEPT !.at = @ + 1] /\ UNCHANGED live
     ELSE script' = Idle /\ live' = script.of

\* The next command of the script succeeds; after the last one the engine
\* records the script as applied.sh.
Step ==
  /\ Running /\ ~Rejected(script.of, Current)
  /\ kernel' = Written(kernel, script.of, Current)
  /\ hooked' = CASE Current.op = "hook"   -> hooked \cup {Current.chain}
                 [] Current.op = "unhook" -> hooked \ {Current.chain}
                 [] OTHER                 -> hooked
  /\ IF script.at < Len(Program(script))
     THEN script' = [script EXCEPT !.at = @ + 1] /\ UNCHANGED live
     ELSE script' = Idle /\ live' = script.of
  /\ UNCHANGED running

\* A mutant of Revert: the IPv6 DOCKER-USER keeps its lines.
RevertKeepsDocker6 ==
  /\ Running \/ live # Nothing
  /\ kernel' = [c \in Chains |-> IF c = "DOCKER-USER6" THEN kernel[c] ELSE Stock]
  /\ hooked' = DockerChains
  /\ live' = Nothing
  /\ script' = Idle
  /\ UNCHANGED running

\* revert of the engine: no chain of zfw remains.  It follows a failed
\* command, a dead-man timer or the operator's Revert.
Revert ==
  /\ Running \/ live # Nothing
  /\ kernel' = [c \in Chains |-> Stock]
  /\ hooked' = DockerChains
  /\ live' = Nothing
  /\ script' = Idle
  /\ UNCHANGED running

Next ==
  \/ \E c \in Container : StartContainer(c) \/ StopContainer(c)
  \/ \E name \in DOMAIN RuleSets, mode \in {"bash", "restore"} : Apply(name, mode)
  \/ Step
  \/ Revert

Spec == Init /\ [][Next]_vars

-----------------------------------------------------------------------------
(* What becomes of the packets *)

Effects == Table([k \in Configuration |->
                   Table([c \in Chains |-> Sifted(c, LinesOf[k][c])])])

Effect(h, c) ==
  IF h = Stock THEN [drop |-> {}, accept |-> {}] ELSE Effects[h.of][c][h.n + 1]

\* ZFW-FWD-OUT is hooked in front of DOCKER-USER: what it accepts is decided.
Drops(ch, hooks) ==
  (UNION {Effect(ch[c], c).drop : c \in hooks})
  \ (IF "ZFW-FWD-OUT" \in hooks THEN Effect(ch["ZFW-FWD-OUT"], "ZFW-FWD-OUT").accept ELSE {})

Dropped == Drops(kernel, hooked)

\* A configuration, or Nothing, fully installed.
Whole(k) == [c \in Chains |-> IF k # Nothing /\ c \in ChainsOf[k]
                              THEN [of |-> k, n |-> Len(LinesOf[k][c])] ELSE Stock]
DroppedBy == Table([k \in Configuration \cup {Nothing} |->
  Drops(Whole(k), DockerChains \cup (IF k = Nothing THEN {} ELSE ChainsOf[k]))])

-----------------------------------------------------------------------------
(* The rules read as a specification *)

\* An enabled rule speaks about p on the way p takes.
SpeaksAbout(r, pub, p) ==
  LET docker == \/ r.zone = "docker"
                \/ r.zone = "auto" /\ r.ports.type = "list" /\ p.port \in all(pub)
      host == \/ r.zone = "host"
              \/ r.zone = "auto" /\ ~(r.ports.type = "list" /\ p.port \in all(pub))
      v6 == Fam(p) = 6
  IN  /\ r.enabled
      /\ IsOutbound(r) = ~FromPeer(p)
      /\ CASE p.flow = "in"     -> IF v6 THEN ~(r.zone = "docker" /\ r.ports.type = "all")
                                   ELSE host
           [] p.flow = "fwd"    -> docker
           [] p.flow = "out"    -> r.zone # "docker"
           [] p.flow = "egress" -> r.zone # "host" /\ ~v6
      /\ IF p.proto = "icmp" THEN r.proto = "both" /\ r.ports.type = "all"
         ELSE protoMatch(r, p.proto) /\ portMatch(r.ports, p.port)
      /\ r.source.type = "any" \/ p.peer \in r.source.of
      /\ r.source.type # "any" => isIPv6Source(r.source) = v6
      /\ r.schedule = "day" => p.when # "night"

\* Traffic no rule is asked about: the host's own, that of containers and the
\* mesh, ping, DHCP and the transport of the mesh, mDNS on the link.
Exempt(rs, p) ==
  \/ FromPeer(p) /\ Iif(p) \in {"lo", "docker", "mesh"}
  \/ p.flow = "fwd" /\ p.peer = rs.hostIP
  \/ p.flow = "in" /\ p.proto = "icmp"
  \/ /\ p.flow = "in" /\ p.proto = "udp"
     /\ \/ p.port \in IF Fam(p) = 6 THEN {546} ELSE {68, 41641, 9993}
        \/ p.peer = "link" /\ p.port = MDNS

\* The rule of the lowest order that speaks about p decides.
Denied(rs, pub, p) ==
  LET about == {i \in DOMAIN rs.rules : SpeaksAbout(rs.rules[i], pub, p)}
      order(i) == rs.rules[i].order
      first == CHOOSE i \in about : \A j \in about :
                 order(i) < order(j) \/ (order(i) = order(j) /\ i <= j)
      r == rs.rules[first]
  IN  /\ ~Exempt(rs, p)
      /\ IF about # {} THEN r.action = "deny" \/ (r.limit = "some" /\ p.when = "burst")
         ELSE /\ FromPeer(p)
              /\ \/ rs.policy = "deny"
                 \/ p.flow = "in" /\ Fam(p) = 6 /\ p.proto = "tcp" /\ p.port \in rs.v6drop

-----------------------------------------------------------------------------
(* Properties *)

TypeOK ==
  /\ running \subseteq Container
  /\ live \in Configuration \cup {Nothing}
  /\ DOMAIN kernel = Chains
  /\ \A c \in Chains : kernel[c] # Stock =>
       kernel[c].of \in Configuration /\ kernel[c].n \in DOMAIN LinesOf[kernel[c].of][c]
  /\ hooked \subseteq Chains
  /\ Running => script.of \in Configuration /\ script.at \in DOMAIN Program(script)

\* (What containers send over IPv6 is left out: dockerUser6Rules asks the rules
\* about it.)
New == {p \in Packet : /\ p.state = "new"
                        /\ ~(p.flow # "in" /\ Iif(p) = "docker" /\ Fam(p) = 6)}

\* Between applies the kernel decides every new connection as the rules read
\* as a specification say: sorted, the first rule wins, zone "auto" resolved
\* against the inventory, outbound chains of earlier applies gone.
DecisionsFollowRules ==
  ~Running => Dropped \cap New =
    IF live = Nothing THEN {}
    ELSE {p \in New : Denied(RulesOf[live], Inventory(live.run), p)}

\* At every moment of an apply, in either mode, a packet is dropped only if
\* the rules before or the rules after the apply drop it: the half-written
\* chains of the bash script lock nobody out.
NothingLostOnTheWay ==
  Running => Dropped \subseteq DroppedBy[live] \cup DroppedBy[script.of]

\* An apply in restore mode never opens what is closed before and after it.
RestoreIsAtomic ==
  Running /\ script.mode = "restore" =>
    DroppedBy[live] \cap DroppedBy[script.of] \subseteq Dropped

\* No apply cuts an established connection: the chains keep the conntrack
\* line first, in front of every deny rule.
EstablishedSurvives ==
  \A p \in Dropped : p.state # "established"

\* A validated rule set never compiles to a line iptables refuses (an address
\* of the other family, more than 15 ports), which would abort the apply.
ScriptsParse == Running => ~Rejected(script.of, Current)

\* liveReach: the record of applied.sh, asked about one listening port.
liveReach(snap, zone, p) ==
  LET known == zone = "docker" => p \in snap.published.tcp \cup snap.published.udp
      rs == IF ~known /\ ~snap.dnatGuard THEN [snap.rules EXCEPT !.policy = "allow"]
            ELSE snap.rules
  IN  ReachOf(rs, zone, "tcp", p, known)

\* The peers beyond the bypasses that can open a TCP connection to port p.
Reaching(zone, p, fam) ==
  {q.peer : q \in {x \in Packet :
     /\ x.flow = (IF zone = "docker" /\ fam = 4 THEN "fwd" ELSE "in")
     /\ x.proto = "tcp" /\ x.port = p /\ x.state = "new"
     /\ Fam(x) = fam /\ ~Exempt(RulesOf[live], x)} \ Dropped}

\* Exposure never claims less reach than the kernel gives, also for a port
\* published after the apply: nobody gets through to a "blocked" port and
\* nobody but the sources listed to a "restricted" one (over IPv4).
ReachHolds(zone, p, fam) ==
  LET lv == liveReach(Snapshot(live), zone, p)
  IN  CASE lv.verdict = "closed"     -> Reaching(zone, p, fam) = {}
        [] lv.verdict = "restricted" -> Reaching(zone, p, fam) \subseteq lv.sources
        [] OTHER                     -> TRUE

zoneOf(p) == IF p \in Inventory(running).tcp THEN "docker" ELSE "host"

ExposureIsHonest ==
  ~Running /\ live # Nothing => \A p \in Ports : ReachHolds(zoneOf(p), p, 4)

\* /api/rules/v6 never warns for nothing: when the audit calls a rule set blind,
\* no new IPv6 connection gets in but the Exempt ones; a rule it reports as not
\* mirrored could be deleted without changing what happens to any IPv6 packet of
\* the host.  What it reports as mirrored is another matter (MirroredIsWritten).
V6AuditHonest ==
  ~Running /\ live # Nothing =>
    LET rs == RulesOf[live]
        without(i) == [rs EXCEPT !.rules[i].enabled = FALSE]
        hostChains == {"ZFW-IN6", "ZFW-OUT6"}
    IN  /\ Blind(rs) => \A p \in New :
             p.flow = "in" /\ Fam(p) = 6 /\ ~Exempt(rs, p) => p \in Dropped
        /\ \A i \in DOMAIN rs.rules : ~Mirrored(rs.rules[i]) =>
             \A c \in hostChains :
               Compiled(without(i), Inventory(live.run))[c] = LinesOf[live][c]

-----------------------------------------------------------------------------
(* What the comments say and the code does not do *)

\* "closed: nothing reaches it" (reach.go), over both families.
NothingReachesClosed ==
  ~Running /\ live # Nothing => \A p \in Ports, fam \in {4, 6} :
    liveReach(Snapshot(live), zoneOf(p), p).verdict = "closed" => Reaching(zoneOf(p), p, fam) = {}

\* "Mirrored is false when the rule contributes no line at all to ZFW-IN6 /
\* ZFW-OUT6" (v6audit.go:6): without a mirrored rule one of them is shorter.
MirroredIsWritten ==
  ~Running /\ live # Nothing =>
    LET rs == RulesOf[live]
        without(i) == [rs EXCEPT !.rules[i].enabled = FALSE]
    IN  \A i \in DOMAIN rs.rules : rs.rules[i].enabled /\ Mirrored(rs.rules[i]) =>
          \E c \in {"ZFW-IN6", "ZFW-OUT6"} :
            Compiled(without(i), Inventory(live.run))[c] # LinesOf[live][c]

\* "Ignoring -s can only ever flush MORE than strictly necessary, never less"
\* (newlyblocked.go): an apply flushes the port of every TCP or UDP connection
\* that could be opened before it and no longer after it.
FlushCovers ==
  [][live \notin {Nothing, live'} /\ live' # Nothing =>
       \A p \in New : FromPeer(p) /\ p.proto \in Protocols /\ p \notin DroppedBy[live]
                       /\ p \in DroppedBy[live'] =>
         <<p.proto, p.port>> \in NewlyBlocked(RulesOf[live], RulesOf[live'])]_vars
=============================================================================
