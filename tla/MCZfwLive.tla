----------------------------- MODULE MCZfwLive -----------------------------
(* Rule sets of every kind the editor, the defaults, the legacy file and   *)
(* the templates produce, and one container that publishes 80/tcp, 80/udp. *)
EXTENDS ZfwLive

MCAddress == {"self", "box", "mesh", "admin", "guest", "wan", "six", "link"}
MCV6Address == {"six", "link"}
MCPeer ==
  [a \in MCAddress |->
     [fam |-> IF a \in MCV6Address THEN 6 ELSE 4,
      iif |-> CASE a = "self" -> "lo" [] a = "box" -> "docker"
                [] a = "mesh" -> "mesh" [] OTHER -> "eth"]]
MCPublished == [c \in {"web"} |-> [tcp |-> {80}, udp |-> {80}]]

LAN == RangeSource({"self", "admin", "guest"}, FALSE)
Guests == RangeSource({"guest"}, TRUE)
in(action, src, ports, proto, zone) == NewRule(action, src, ports, proto, zone)
out(action, src, ports, proto, zone) ==
  [NewRule(action, src, ports, proto, zone) EXCEPT !.direction = "outbound"]
lan(policy, v6drop, rules) ==
  Stamped(NewRuleSet(LAN, "self", policy, v6drop, Renumbered(rules)))

MCRuleSets ==
  [ defaults |-> Stamped(Defaults(LAN, "self", MCPublished["web"])),
    tiers |-> Stamped(FromTiers([lan |-> LAN, hostIP |-> "self", v6drop |-> {22},
                hostTCP |-> {22}, hostUDP |-> {5353}, dockerDrop |-> {}], {80})),
    narrow |-> lan("deny", {},
      << in("allow", IpSource("admin"), ListPorts(<<22>>), "tcp", "host"),
         in("deny", Guests, AllPorts, "both", "auto"),
         in("allow", AnySource, ListPorts(<<22, 80, 5353>>), "both", "auto") >>),
    lax |-> Stamped(NewRuleSet(LAN, "self", "allow", {22},   \* pushed by a peer: not in order
      << [in("allow", Guests, ListPorts(<<22, 80>>), "tcp", "auto") EXCEPT !.order = 30],
         [in("deny", AnySource, RangePorts(22, 80), "tcp", "host") EXCEPT !.order = 20],
         [in("deny", IpSource("wan"), AllPorts, "both", "docker") EXCEPT !.order = 10] >>)),
    timed |-> lan("deny", {},
      << [in("allow", LAN, ListPorts(<<22>>), "tcp", "auto") EXCEPT !.limit = "some"],
         [in("allow", AnySource, ListPorts(<<80>>), "tcp", "docker") EXCEPT !.schedule = "day"] >>),
    geo |-> lan("deny", {},
      << in("deny", SetSource("feed", {"guest"}), AllPorts, "both", "docker"),
         in("allow", SetSource("country", {"wan", "guest"}), ListPorts(<<22, 80>>), "tcp", "auto"),
         ServiceTemplate(LAN, "tcp", <<80>>) >>),
    six |-> lan("deny", {},
      << in("deny", RangeSource({"link"}, TRUE), ListPorts(<<22>>), "tcp", "host"),
         in("allow", IpSource("six"), RangePorts(22, 80), "both", "docker"),
         in("allow", AnySource, AllPorts, "both", "docker"),
         BlockTemplate("tcp", RangePorts(80, 80)) >>),
    sends |-> lan("deny", {},
      << out("deny", SetSource("feed", {"wan"}), AllPorts, "both", "auto"),
         out("allow", IpSource("six"), ListPorts(<<22>>), "tcp", "host"),
         out("deny", RangeSource({"six", "link"}, TRUE), RangePorts(22, 80), "tcp", "host"),
         in("allow", LAN, ListPorts(<<22>>), "tcp", "host") >>),
    bound |-> lan("deny", {},
      << out("deny", IpSource("admin"), ListPorts(<<80>>), "tcp", "docker"),
         [in("allow", LAN, ListPorts(<<22>>), "both", "auto") EXCEPT !.container = "web"],
         [in("allow", AnySource, AllPorts, "tcp", "host") EXCEPT !.enabled = FALSE] >>),
    refused |-> Stamped(NewRuleSet(LAN, "six", "deny", {},
      << in("allow", AnySource, RangePorts(80, 22), "tcp", "host") >>)) ]

\* A port that was open to everyone is narrowed to one address.
MCNarrowing ==
  [ wide |-> lan("deny", {}, << in("allow", AnySource, ListPorts(<<22>>), "tcp", "host") >>),
    narrow |-> lan("deny", {}, << in("allow", IpSource("admin"), ListPorts(<<22>>), "tcp", "host") >>) ]

\* Containers may fetch over port 80; nobody was meant to get in.
MCFetching ==
  [ fetch |-> lan("deny", {}, << out("allow", AnySource, ListPorts(<<80>>), "tcp", "docker") >>) ]
=============================================================================
