---------------------------- MODULE ZfwCompiler ----------------------------
(***************************************************************************)
(* The rule compiler (internal/compiler): the chains a rule set becomes,   *)
(* the two scripts that install them, and what the kernel decides about a  *)
(* packet.  A chain is a sequence of lines; a line is the set of packets   *)
(* its match names and a target.  joinArgs of match fragments is the       *)
(* intersection of their packets.                                          *)
(*                                                                         *)
(* Abstractions.  Packets are told apart by flow and peer: "in" is a peer  *)
(* to the host, "fwd" a peer to a published port (after DNAT, published    *)
(* and container port being equal), "egress" a container to a peer, "out"  *)
(* the host to a peer.  A flow that would only pass FORWARD with Docker's  *)
(* IPv6 support on is there as well.  LOG lines and the app chains (see    *)
(* ZfwApps) decide nothing here.  The choice of the iptables backend and   *)
(* the loading of ipsets are left out.                                     *)
(***************************************************************************)
EXTENDS ZfwRules

CONSTANTS
  Peer,          \* address -> [fam, iif]: its family and the interface it uses
  When,          \* "day", "night", and "burst": a peer over every rate limit
  MaxMultiport,  \* maxMultiportPorts
  MDNS           \* the port of linkLocalMDNS, 5353

ASSUME MultiportAssumption == MaxMultiport \in Nat \ {0}
\* "link" stands for the link-local addresses, fe80::/10, "self" for the host's.
ASSUME LinkAssumption == "link" \in V6Address
ASSUME PeerAssumption ==
  /\ Peer \in [Address -> [fam : {4, 6}, iif : {"lo", "docker", "mesh", "eth"}]]
  /\ \A a \in Address : /\ Peer[a].fam = 6 <=> a \in V6Address
                        /\ Peer[a].iif = "lo" => a = "self"

Flows == {"in", "fwd", "egress", "out"}

\* Packets that can exist; only a new TCP or UDP connection varies in time.
Packet ==
  {p \in [flow : Flows, peer : Address, proto : Protocols \cup {"icmp"},
          port : Ports, when : When, state : {"new", "established", "invalid"}] :
     /\ p.flow = "fwd" => p.peer # "self"
     /\ p.flow \in {"egress", "out"} => Peer[p.peer].iif = "eth"
     /\ p.proto = "icmp" \/ p.state # "new" => p.when = "day"}

Fam(p) == Peer[p.peer].fam
Iif(p) == CASE p.flow \in {"in", "fwd"} -> Peer[p.peer].iif
            [] p.flow = "egress"        -> "docker"
            [] OTHER                    -> "none"
FromPeer(p) == p.flow \in {"in", "fwd"}

-----------------------------------------------------------------------------
(* Match fragments *)

\* lit: the families of the addresses and sets it names; n: its multiport size.
Match(S) == [on |-> S, lit |-> {}, n |-> 0]
All == Match(Packet)
a ++ b == [on |-> {p \in a.on : p \in b.on}, lit |-> a.lit \cup b.lit,
           n |-> IF a.n > b.n THEN a.n ELSE b.n]

OnIface(I) == Match({p \in Packet : Iif(p) \in I})
InState(S) == Match({p \in Packet : p.state \in S})
OfProto(q) == Match({p \in Packet : p.proto = q})
\* --dport and conntrack --ctorigdstport, for TCP and UDP.
DPort(S) == Match({p \in Packet : p.port \in S /\ p.proto \in Protocols})
DNATed == Match({p \in Packet : p.flow = "fwd"})
families(A) == {IF a \in V6Address THEN 6 ELSE 4 : a \in A}
SrcIn(A) == [Match({p \in Packet : FromPeer(p) /\ p.peer \in A}) EXCEPT !.lit = families(A)]
DstIn(A) == [Match({p \in Packet : ~FromPeer(p) /\ p.peer \in A}) EXCEPT !.lit = families(A)]

Line(m, target) == [on |-> m.on, lit |-> m.lit, n |-> m.n, to |-> target]

-----------------------------------------------------------------------------
(* One rule *)

scheduleArg(r) ==
  IF r.schedule = "none" THEN All ELSE Match({p \in Packet : p.when # "night"})

sourceArgs(s) ==
  CASE s.type = "any" -> All
    [] s.type \in {"ip", "range"} -> SrcIn(s.of)
    [] OTHER -> [SrcIn(s.of) EXCEPT !.lit = {4}]  \* ipsets of family inet

\* source6Arg = "skip"
v4Only(s) == s.type # "any" /\ ~isIPv6Source(s)

protoList(q) == IF q = "both" THEN <<"tcp", "udp">> ELSE <<q>>

NoPorts == [type |-> "none"]

\* portsForZone: host and docker chain share a rule; auto splits a list (hp, dp).
portsForZone(r, published, want) ==
  LET mine(p) == (p \in published) = (want = "docker")
      list == only(r.ports.list, mine)
  IN  IF r.zone # "auto" THEN IF r.zone = want THEN r.ports ELSE NoPorts
      ELSE IF r.ports.type # "list"
           THEN IF want = "host" THEN r.ports ELSE NoPorts
           ELSE IF list = <<>> THEN NoPorts ELSE ListPorts(list)

\* portsForZone6: IPv6 ends on the host, whatever the zone.
portsForZone6(r) ==
  IF r.ports.type = "all" /\ r.zone = "docker" THEN NoPorts ELSE r.ports

\* A mutant of multiport: one line whatever the length of the list.
multiportUnsplit(list) ==
  << [DPort({list[i] : i \in DOMAIN list}) EXCEPT !.n = Len(list)] >>

\* multiport: chunks of at most MaxMultiport ports.
multiport(list) ==
  [c \in 1 .. (Len(list) + MaxMultiport - 1) \div MaxMultiport |->
     LET from == (c - 1) * MaxMultiport + 1
         to == IF c * MaxMultiport < Len(list) THEN c * MaxMultiport ELSE Len(list)
     IN  [DPort({list[i] : i \in from .. to}) EXCEPT !.n = to - from + 1]]

portArgs(ports) ==
  IF ports.type = "range" THEN <<DPort(ports.from .. ports.to)>>
  ELSE multiport(ports.list)

\* A docker chain names each port of a list on a line of its own.
origPortArgs(ports) ==
  IF ports.type = "range" THEN <<DPort(ports.from .. ports.to)>>
  ELSE [i \in DOMAIN ports.list |-> DPort({ports.list[i]})]

\* wrapEmit: the two rate-limit lines, then the action.
wrapEmit(m, r, target) ==
  (IF r.limit = "none" THEN <<>>
   ELSE << Line(m, "SET"),
           Line(m ++ Match({p \in Packet : p.when = "burst"}), "DROP") >>)
  \o << Line(m, target) >>

\* The lines of a rule for the protocols and ports it names in one chain.
emit(r, m, ports, args, target) ==
  IF ports.type = "all"
  THEN wrapEmit(IF r.proto = "both" THEN m ELSE m ++ OfProto(r.proto), r, target)
  ELSE LET protos == protoList(r.proto)
       IN  Concat([i \in DOMAIN protos |->
             Concat([j \in DOMAIN args |->
               wrapEmit(m ++ OfProto(protos[i]) ++ args[j], r, target)])])

emitZone(r, m, ports, args(_), pass) ==
  IF ports = NoPorts THEN <<>>
  ELSE emit(r, m ++ scheduleArg(r), ports,
            IF ports.type = "all" THEN <<>> ELSE args(ports),
            IF r.action = "deny" THEN "DROP" ELSE pass)

hostLines(r, published) ==
  IF IsOutbound(r) \/ isIPv6Source(r.source) THEN <<>>
  ELSE emitZone(r, sourceArgs(r.source), portsForZone(r, published, "host"),
                portArgs, "ACCEPT")

dockerLines(r, published) ==
  IF IsOutbound(r) \/ isIPv6Source(r.source) THEN <<>>
  ELSE emitZone(r, sourceArgs(r.source), portsForZone(r, published, "docker"),
                origPortArgs, "RETURN")

hostLines6(r) ==
  IF IsOutbound(r) \/ v4Only(r.source) THEN <<>>
  ELSE emitZone(r, sourceArgs(r.source), portsForZone6(r), portArgs, "RETURN")

dockerLines6(r, published) ==
  IF IsOutbound(r) \/ v4Only(r.source) THEN <<>>
  ELSE emitZone(r, sourceArgs(r.source), portsForZone(r, published, "docker"),
                origPortArgs, "RETURN")

\* The source of an outbound rule is the peer the packet goes to.
peerArgs(s) ==
  CASE s.type = "any" -> All
    [] s.type \in {"ip", "range"} -> DstIn(s.of)
    [] OTHER -> [DstIn(s.of) EXCEPT !.lit = {4}]

outboundLines(r) == emitZone(r, peerArgs(r.source), r.ports, portArgs, "ACCEPT")
outboundLines6(r) ==
  IF v4Only(r.source) THEN <<>>
  ELSE emitZone(r, peerArgs(r.source), r.ports, portArgs, "ACCEPT")

-----------------------------------------------------------------------------
(* The chains of a rule set rs, compiled against the inventory pub *)

\* A mutant of sorted: the rules as stored.
sortedNot(rules) == rules

\* sort.SliceStable by Order, then the enabled rules' lines.
sorted(rules) ==
  LET before(i, j) == \/ rules[i].order < rules[j].order
                      \/ rules[i].order = rules[j].order /\ i < j
  IN  [k \in DOMAIN rules |->
         rules[CHOOSE i \in DOMAIN rules :
                 Cardinality({j \in DOMAIN rules : before(j, i)}) = k - 1]]

ruleLines(rs, emitter(_)) ==
  LET rl == sorted(rs.rules)
  IN  Concat([i \in DOMAIN rl |-> IF rl[i].enabled THEN emitter(rl[i]) ELSE <<>>])

all(pub) == pub.tcp \cup pub.udp

\* The interfaces and protocols that bypass the host chains.
hostBypass(pass, dhcp, fixed) ==
  << Line(InState({"established"}), pass),
     Line(InState({"invalid"}), "DROP"),
     Line(OnIface({"lo", "docker", "mesh"}), pass),
     Line(OfProto("icmp"), pass),
     Line(OfProto("udp") ++ DPort(dhcp), pass) >> \o fixed

\* emitHostChain and zfwInRules
zfwInRules(rs, pub) ==
  hostBypass("ACCEPT", {68, 41641, 9993}, <<>>)
  \o ruleLines(rs, LAMBDA r : hostLines(r, all(pub)))
  \o (IF rs.policy = "allow" THEN << Line(All, "RETURN") >>
      ELSE << Line(All, "ZFW-APPS-IN"), Line(All, "DROP") >>)

\* A mutant of linkLocalMDNS: everything from the link, as before v1.0.27.
linkLocalAll == << Line(SrcIn({"link"}), "RETURN") >>

\* Multicast DNS from the link is the only link-local exception.
linkLocalMDNS ==
  << Line(SrcIn({"link"}) ++ OfProto("udp") ++ DPort({MDNS}), "RETURN") >>

\* emitV6Chain and zfwIn6Rules
zfwIn6Rules(rs) ==
  hostBypass("RETURN", {546}, linkLocalMDNS)
  \o ruleLines(rs, hostLines6)
  \o [i \in 1..Cardinality(rs.v6drop) |->
        Line(OfProto("tcp") ++ DPort({sortedPorts(rs.v6drop)[i]}), "DROP")]
  \o (IF rs.policy = "allow" THEN << Line(All, "RETURN") >>
      ELSE << Line(All, "ZFW-APPS-IN6"), Line(All, "DROP") >>)

\* denyLines: a DROP per published port and protocol, for new connections.
denyLines(pub) ==
  LET drop(q, P) ==
        [i \in 1..Cardinality(P) |->
           Line(OfProto(q) ++ DPort({sortedPorts(P)[i]}) ++ InState({"new"}), "DROP")]
  IN  drop("tcp", pub.tcp) \o drop("udp", pub.udp)

\* dnatGuardLines: new DNATed connections towards a Docker bridge.
dnatGuardLines == << Line(DNATed ++ InState({"new"}), "DROP") >>

denyTail(rs, pub, jump) ==
  IF rs.policy = "deny"
  THEN << Line(All, jump) >> \o denyLines(pub) \o dnatGuardLines
  ELSE <<>>

\* A mutant of dockerUserRules: replies return after the rules.
dockerUserRulesLateReply(rs, pub) ==
  << Line(OnIface({"mesh"}), "RETURN"), Line(OnIface({"docker"}), "RETURN") >>
  \o ruleLines(rs, LAMBDA r : dockerLines(r, all(pub)))
  \o << Line(InState({"established"}), "RETURN") >>
  \o denyTail(rs, pub, "ZFW-APPS")
  \o << Line(All, "RETURN") >>

\* dockerUserRules: container traffic returns before any rule is asked.
dockerUserRules(rs, pub) ==
  << Line(InState({"established"}), "RETURN") >>
  \o (IF rs.hostIP = None THEN <<>> ELSE << Line(SrcIn({rs.hostIP}), "RETURN") >>)
  \o << Line(OnIface({"mesh"}), "RETURN"), Line(OnIface({"docker"}), "RETURN") >>
  \o ruleLines(rs, LAMBDA r : dockerLines(r, all(pub)))
  \o denyTail(rs, pub, "ZFW-APPS")
  \o << Line(All, "RETURN") >>

\* dockerUser6Rules: here container traffic returns after the rules.
dockerUser6Rules(rs, pub) ==
  << Line(InState({"established"}), "RETURN"), Line(OnIface({"mesh"}), "RETURN") >>
  \o ruleLines(rs, LAMBDA r : dockerLines6(r, all(pub)))
  \o (IF rs.policy = "deny" THEN << Line(OnIface({"docker"}), "RETURN") >> ELSE <<>>)
  \o denyTail(rs, pub, "ZFW-APPS6")
  \o << Line(All, "RETURN") >>

\* outboundZones
sends(rs, zone) ==
  \E i \in DOMAIN rs.rules :
    LET r == rs.rules[i]
    IN  r.enabled /\ IsOutbound(r) /\ r.zone \in {"auto", zone}

\* zfwOutRules, zfwOut6Rules and zfwFwdOutRules
outChain(rs, zone, pass, lines(_)) ==
  << Line(InState({"established"}), pass) >>
  \o ruleLines(rs, LAMBDA r :
       IF IsOutbound(r) /\ r.zone \in {"auto", zone} THEN lines(r) ELSE <<>>)
  \o << Line(All, "RETURN") >>
v4Lines(r) == IF isIPv6Source(r.source) THEN <<>> ELSE outboundLines(r)

Chains == {"ZFW-IN", "DOCKER-USER", "ZFW-OUT", "ZFW-FWD-OUT",
           "ZFW-IN6", "DOCKER-USER6", "ZFW-OUT6"}

\* CompileRestore / Compile: what every chain of (rs, pub) holds.
Compiled(rs, pub) ==
  [c \in Chains |->
     CASE c = "ZFW-IN"       -> zfwInRules(rs, pub)
       [] c = "DOCKER-USER"  -> dockerUserRules(rs, pub)
       [] c = "ZFW-IN6"      -> zfwIn6Rules(rs)
       [] c = "DOCKER-USER6" -> dockerUser6Rules(rs, pub)
       [] c = "ZFW-OUT"      -> outChain(rs, "host", "ACCEPT", v4Lines)
       [] c = "ZFW-OUT6"     -> outChain(rs, "host", "RETURN", outboundLines6)
       [] c = "ZFW-FWD-OUT"  -> outChain(rs, "docker", "RETURN", v4Lines)]

\* The chains a script installs; it tears the others down.
Emitted(rs) ==
  {"ZFW-IN", "DOCKER-USER", "ZFW-IN6", "DOCKER-USER6"}
  \cup (IF sends(rs, "host") THEN {"ZFW-OUT", "ZFW-OUT6"} ELSE {})
  \cup (IF sends(rs, "docker") THEN {"ZFW-FWD-OUT"} ELSE {})

V6Chains == {"ZFW-IN6", "DOCKER-USER6", "ZFW-OUT6"}

\* iptables refuses a literal of the other family and an over-long multiport.
Refused(c, line) ==
  \/ (IF c \in V6Chains THEN 4 ELSE 6) \in line.lit
  \/ line.n > MaxMultiport

-----------------------------------------------------------------------------
(* What the kernel decides *)

\* The chains the packets of a flow walk through.
Walk == [c \in Chains |->
  {p \in Packet :
     /\ (Fam(p) = 6) = (c \in V6Chains)
     /\ CASE p.flow = "in"  -> c \in {"ZFW-IN", "ZFW-IN6"}
          [] p.flow = "out" -> c \in {"ZFW-OUT", "ZFW-OUT6"}
          [] OTHER          -> c \in {"ZFW-FWD-OUT", "DOCKER-USER", "DOCKER-USER6"}}]

\* What one line does to the packets still in the chain.
Pass(state, line) ==
  LET hit == {p \in state.left : p \in line.on}
      left == {p \in state.left : p \notin line.on}
  IN  CASE line.to = "DROP"   -> [left |-> left, drop |-> UNION {state.drop, hit}, accept |-> state.accept]
        [] line.to = "ACCEPT" -> [left |-> left, drop |-> state.drop, accept |-> UNION {state.accept, hit}]
        [] line.to = "RETURN" -> [left |-> left, drop |-> state.drop, accept |-> state.accept]
        [] OTHER              -> state

\* Sifted(c, lines)[n + 1]: what the first n lines of chain c drop and accept.
Sifted(c, lines) ==
  LET upto[i \in 0..Len(lines)] ==
        IF i = 0 THEN << [left |-> Walk[c], drop |-> {}, accept |-> {}] >>
        ELSE LET t == upto[i - 1] IN Append(t, Pass(t[i], lines[i]))
  IN  upto[Len(lines)]

-----------------------------------------------------------------------------
(* AuditV6 *)

v6Lines(r) == IF IsOutbound(r) THEN outboundLines6(r) ELSE hostLines6(r)
Mirrored(r) == v6Lines(r) # <<>>

v6SkipReason(r) ==
  CASE v4Only(r.source) -> IF r.source.type \in {"country", "feed"}
                           THEN r.source.type ELSE "ipv4-source"
    [] ~v4Only(r.source) /\ ~IsOutbound(r) /\ portsForZone6(r) = NoPorts -> "docker-all-ports"
    [] OTHER -> "not-mirrored"

Blind(rs) ==
  /\ rs.policy # "allow"
  /\ \A i \in DOMAIN rs.rules :
       LET r == rs.rules[i]
       IN  ~(r.enabled /\ Mirrored(r) /\ ~IsOutbound(r) /\ r.action # "deny")
=============================================================================
