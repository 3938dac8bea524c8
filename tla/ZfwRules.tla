------------------------------ MODULE ZfwRules ------------------------------
(***************************************************************************)
(* The rule model (internal/rules): what a rule set may hold (Validate),   *)
(* where rule sets come from (Defaults, FromTiers, Templates) and the      *)
(* questions the daemon answers from a rule set without looking at the     *)
(* kernel: Disposition, NewlyBlocked, ReachOf and Decides.                 *)
(*                                                                         *)
(* Abstractions.  An address is a model value; a source is the set of      *)
(* addresses it matches, so a value that does not parse, an empty country  *)
(* list and an unknown feed are the empty set.  The times of a schedule    *)
(* are "day"; names, notes, LOG flags and the character sets of ids are    *)
(* left out.  Port numbers, orders and port lists are the code's own.      *)
(***************************************************************************)
EXTENDS Integers, Sequences, FiniteSets

CONSTANTS
  Address,          \* every address of the model
  V6Address,        \* those of IPv6
  None,             \* an empty lan or host_ip
  Ports,            \* the ports packets are sent to
  MaxPortsPerRule   \* maxPortsPerRule

ASSUME AddressAssumption == V6Address \subseteq Address /\ None \notin Address
MaxPort == 65535
PortNumber == 1..MaxPort

ASSUME PortsAssumption == Ports \subseteq PortNumber /\ MaxPortsPerRule \in Nat

Protocols == {"tcp", "udp"}

\* ss[1] \o ss[2] \o ...
Concat(ss) ==
  LET upto[i \in 0..Len(ss)] == IF i = 0 THEN <<>> ELSE upto[i - 1] \o ss[i]
  IN  upto[Len(ss)]

\* The elements of a sequence that satisfy a test, in order.
only(s, keep(_)) ==
  Concat([i \in DOMAIN s |-> IF keep(s[i]) THEN << s[i] >> ELSE <<>>])

-----------------------------------------------------------------------------
(* Rules *)

AnySource == [type |-> "any", of |-> {}, narrow |-> FALSE]
IpSource(a) == [type |-> "ip", of |-> {a}, narrow |-> TRUE]
\* small: an IPv4 prefix of /24 or longer, an IPv6 prefix of /64 or longer.
RangeSource(A, small) == [type |-> "range", of |-> A, narrow |-> small]
SetSource(kind, A) == [type |-> kind, of |-> A, narrow |-> FALSE]

AllPorts == [type |-> "all"]
ListPorts(list) == [type |-> "list", list |-> list]
RangePorts(from, to) == [type |-> "range", from |-> from, to |-> to]

\* A rule as the editor's form starts it; Save gives it an id.
NewRule(action, source, ports, proto, zone) ==
  [id |-> None, order |-> 0, enabled |-> TRUE, action |-> action,
   source |-> source, ports |-> ports, proto |-> proto, zone |-> zone,
   schedule |-> "none", limit |-> "none", direction |-> "inbound",
   container |-> None]

\* saveRules of the editor numbers the rules in the order shown.
Renumbered(rules) ==
  [i \in DOMAIN rules |-> [rules[i] EXCEPT !.order = 10 * i]]

\* Save: a rule without an id gets a fresh one.
Stamped(rs) ==
  [rs EXCEPT !.rules = [i \in DOMAIN @ |->
     IF @[i].id = None THEN [@[i] EXCEPT !.id = 100 + i] ELSE @[i]]]

NewRuleSet(lan, hostIP, policy, v6drop, rules) ==
  [lan |-> lan, hostIP |-> hostIP, policy |-> policy, v6drop |-> v6drop,
   rules |-> rules]

\* The types of rules.go; an address or a prefix is of one family.
Source ==
  {s \in [type : STRING, of : SUBSET Address, narrow : BOOLEAN] :
     s.type \in {"ip", "range"} => s.of \subseteq V6Address \/ s.of \cap V6Address = {}}
PortSpec == [type : {"all"}] \cup [type : {"list"}, list : Seq(Int)]
            \cup [type : {"range"}, from : Int, to : Int]
Rule ==
  [id : Nat \cup {None}, order : Int, enabled : BOOLEAN, action : STRING,
   source : Source, ports : PortSpec, proto : STRING, zone : STRING,
   schedule : STRING, limit : STRING, direction : STRING,
   container : STRING \cup {None}]
RuleSet ==
  [lan : Source \cup {None}, hostIP : Address \cup {None}, policy : STRING,
   v6drop : SUBSET Int, rules : Seq(Rule)]

isIPv6Source(s) == s.type \in {"ip", "range"} /\ s.of \subseteq V6Address
IsOutbound(r) == r.direction = "outbound"
inbound(r) == r.enabled /\ ~IsOutbound(r)
protoMatch(r, q) == r.proto \in {"both", q}
expandProto(q) == IF q = "both" THEN Protocols ELSE {q}
portMatch(ports, p) ==
  \/ ports.type = "all"
  \/ ports.type = "list" /\ (\E i \in DOMAIN ports.list : ports.list[i] = p)
  \/ ports.type = "range" /\ p \in ports.from .. ports.to

-----------------------------------------------------------------------------
(* Validate *)

validateSource(s) ==
  /\ s.type \in {"any", "ip", "range", "country", "feed"}
  /\ s.type # "any" => s.of # {}

validatePorts(ports) ==
  \/ ports.type = "all"
  \/ /\ ports.type = "list"
     /\ Len(ports.list) \in 1..MaxPortsPerRule
     /\ \A i \in DOMAIN ports.list : ports.list[i] \in PortNumber
  \/ /\ ports.type = "range"
     /\ {ports.from, ports.to} \subseteq PortNumber
     /\ ports.from <= ports.to

validateSchedule(s) == s \in {"none", "day"}
validateRateLimit(l) == l \in {"none", "some"}

validateRule(r) ==
  /\ r.action \in {"allow", "deny"}
  /\ validateSource(r.source)
  /\ validatePorts(r.ports)
  /\ r.proto \in {"tcp", "udp", "both"}
  /\ r.zone \in {"auto", "host", "docker"}
  /\ validateSchedule(r.schedule)
  /\ validateRateLimit(r.limit)
  /\ r.direction \in {"inbound", "outbound"}

\* lan is a RangeSource or None, hostIP an address or None.
Validate(rs) ==
  /\ rs.policy \in {"deny", "allow"}
  /\ rs.lan # None => rs.lan.of # {} /\ rs.lan.of \cap V6Address = {}
  /\ rs.hostIP # None => rs.hostIP \notin V6Address
  /\ rs.v6drop \subseteq PortNumber
  /\ \A i \in DOMAIN rs.rules : validateRule(rs.rules[i])
  /\ \A i, j \in DOMAIN rs.rules :
       rs.rules[i].id = rs.rules[j].id => i = j \/ rs.rules[i].id = None

-----------------------------------------------------------------------------
(* Where rule sets come from *)

\* The published ports of an inventory, in ascending order.
sortedPorts(P) ==
  [k \in 1..Cardinality(P) |->
     CHOOSE p \in P : Cardinality({q \in P : q < p}) = k - 1]

\* Defaults: the five baseline rules, then one rule per published port.
Defaults(lan, hostIP, pub) ==
  LET mk(proto, zone, list) ==
        NewRule("allow", lan, ListPorts(list), proto, zone)
      baseline == << mk("tcp", "host", <<80, 443>>),
                     mk("tcp", "host", <<22>>),
                     mk("tcp", "host", <<139, 445>>),
                     mk("udp", "host", <<137, 138>>),
                     mk("udp", "host", <<5353>>) >>
      app(p) == mk(IF p \notin pub.udp THEN "tcp"
                   ELSE IF p \notin pub.tcp THEN "udp" ELSE "both",
                   "docker", <<p>>)
      ports == sortedPorts(pub.tcp \cup pub.udp)
  IN  NewRuleSet(lan, hostIP, "deny", {},
        Renumbered(baseline \o [k \in DOMAIN ports |-> app(ports[k])]))

\* FromTiers: the legacy allowlist.conf, one rule per tier that names a port.
FromTiers(cfg, published) ==
  LET src == IF cfg.lan = None THEN AnySource ELSE cfg.lan
      tier(proto, zone, P) ==
        IF P = {} THEN <<>>
        ELSE << NewRule("allow", src, ListPorts(sortedPorts(P)), proto, zone) >>
  IN  NewRuleSet(cfg.lan, cfg.hostIP, "deny", cfg.v6drop,
        Renumbered(tier("tcp", "host", cfg.hostTCP)
                   \o tier("udp", "host", cfg.hostUDP)
                   \o tier("tcp", "docker", published \ cfg.dockerDrop)))

\* Templates: a service template allows the LAN (anyone, when no LAN is
\* known) in zone auto; a blocking template denies everyone in zone host.
lanSource(lan) == IF lan = None THEN AnySource ELSE lan
ServiceTemplate(lan, proto, list) ==
  NewRule("allow", lanSource(lan), ListPorts(list), proto, "auto")
BlockTemplate(proto, ports) ==
  NewRule("deny", AnySource, ports, proto, "host")

-----------------------------------------------------------------------------
(* Questions answered from a rule set, in the order its rules are stored *)

firstOf(I) == CHOOSE i \in I : \A j \in I : i <= j

\* Disposition: sources and schedules are ignored; zone "" is any zone.
Disposition(rs, zone, q, p) ==
  LET hits == {i \in DOMAIN rs.rules :
                 LET r == rs.rules[i] IN
                 /\ inbound(r)
                 /\ zone # "" => r.zone \in {"auto", zone}
                 /\ protoMatch(r, q)
                 /\ portMatch(r.ports, p)}
  IN  IF hits # {} THEN rs.rules[firstOf(hits)].action
      ELSE IF rs.policy = "allow" THEN "allow" ELSE "deny"

\* collectCandidates: the pairs that inbound lists and ranges name.
\* (maxRangeExpand, 4096, is beyond the ranges of this model.)
collectCandidates(rs) ==
  {pp \in Protocols \X Ports :
     \E i \in DOMAIN rs.rules :
       LET r == rs.rules[i] IN
       /\ inbound(r)
       /\ pp[1] \in expandProto(r.proto)
       /\ r.ports.type # "all"
       /\ portMatch(r.ports, pp[2])}

NewlyBlocked(old, new) ==
  {pp \in collectCandidates(old) \cup collectCandidates(new) :
     /\ Disposition(old, "", pp[1], pp[2]) = "allow"
     /\ Disposition(new, "", pp[1], pp[2]) = "deny"}

\* The chain a rule lands in (portsForZone's split, in the queries' words).
reachesChain(r, zone, dockerKnown) ==
  IF zone = "host" THEN r.zone \in {"host", "auto"}
  ELSE \/ r.zone = "docker"
       \/ r.zone = "auto" /\ r.ports.type = "list" /\ dockerKnown

coversLAN(s, lan) == lan # None /\ lan.of \subseteq s.of

narrowSource(s, lan) ==
  \/ s.type = "ip"
  \/ s.type = "range" /\ s.narrow /\ ~coversLAN(s, lan)

\* The rules that speak about one port of one zone.
concerning(rs, zone, q, p, dockerKnown) ==
  {i \in DOMAIN rs.rules :
     LET r == rs.rules[i] IN
     /\ inbound(r)
     /\ protoMatch(r, q)
     /\ portMatch(r.ports, p)
     /\ reachesChain(r, zone, dockerKnown)}

\* A mutant of ReachOf: a deny for some sources ends the walk as well.
ReachOfStopsEarly(rs, zone, q, p, dockerKnown) ==
  LET about == concerning(rs, zone, q, p, dockerKnown)
      stops == {i \in about : rs.rules[i].action = "deny"}
      allows == {i \in about : /\ rs.rules[i].action = "allow"
                               /\ \A j \in stops : i < j}
      wide == {i \in allows : ~narrowSource(rs.rules[i].source, rs.lan)}
      verdict(v, A) == [verdict |-> v, sources |-> A]
  IN  IF wide # {} \/ (stops = {} /\ rs.policy = "allow") THEN verdict("open", {})
      ELSE IF allows # {}
           THEN verdict("restricted", UNION {rs.rules[i].source.of : i \in allows})
           ELSE verdict("closed", {})

\* ReachOf: "open", "restricted" to some sources, or "closed".
ReachOf(rs, zone, q, p, dockerKnown) ==
  LET about == concerning(rs, zone, q, p, dockerKnown)
      stops == {i \in about : /\ rs.rules[i].action = "deny"
                              /\ rs.rules[i].source.type = "any"
                              /\ rs.rules[i].schedule = "none"}
      allows == {i \in about : /\ rs.rules[i].action = "allow"
                               /\ \A j \in stops : i < j}
      wide == {i \in allows : ~narrowSource(rs.rules[i].source, rs.lan)}
      verdict(v, A) == [verdict |-> v, sources |-> A]
  IN  IF wide # {} \/ (stops = {} /\ rs.policy = "allow") THEN verdict("open", {})
      ELSE IF allows # {}
           THEN verdict("restricted", UNION {rs.rules[i].source.of : i \in allows})
           ELSE verdict("closed", {})

\* speaksForLAN: the rule matches every LAN source at every hour.
speaksForLAN(r, lan) ==
  /\ r.schedule = "none"
  /\ \/ r.source.type = "any"
     \/ r.source.type = "range" /\ coversLAN(r.source, lan)

\* Decides: somebody already chose who may reach this port.
Decides(rs, zone, q, p) ==
  \E i \in concerning(rs, zone, q, p, TRUE) :
    rs.rules[i].ports.type # "all" \/ speaksForLAN(rs.rules[i], rs.lan)
=============================================================================
