-------------------------- MODULE ZfwDecisionsProofs --------------------------
(***************************************************************************)
(* Theorems about ZfwLive: what the installed chains decide is what the    *)
(* rules say, and the two audits say no more than that.                    *)
(***************************************************************************)
EXTENDS ZfwLiveProofs

-----------------------------------------------------------------------------
(* What becomes of one packet in a sequence of lines *)

Stops(l, p) == p \in l.on /\ l.to \in {"DROP", "ACCEPT", "RETURN"}

Silent(s, p) == \A i \in DOMAIN s : ~Stops(s[i], p)

\* The first line that stops p drops it.
Sinks(s, p) ==
  \E i \in DOMAIN s : /\ Stops(s[i], p) /\ s[i].to = "DROP"
                      /\ \A j \in DOMAIN s : j < i => ~Stops(s[j], p)

Fate(s, p) == IF Silent(s, p) THEN "silent" ELSE IF Sinks(s, p) THEN "drop" ELSE "pass"

LEMMA FateJoin ==
  ASSUME NEW X, NEW s \in Seq(X), NEW t \in Seq(X), NEW p
  PROVE  Fate(s \o t, p) = IF Fate(s, p) = "silent" THEN Fate(t, p) ELSE Fate(s, p)
<1> DEFINE u == s \o t
           n == Len(s)
<1>1. /\ n \in Nat /\ DOMAIN s = 1 .. n /\ DOMAIN t = 1 .. Len(t) /\ Len(t) \in Nat
      /\ DOMAIN u = 1 .. n + Len(t)
      /\ \A i \in 1 .. n : u[i] = s[i]
      /\ \A i \in 1 .. Len(t) : u[n + i] = t[i]
  OBVIOUS
<1> DEFINE m == Len(t)
<1> HIDE DEF u, n, m
<1>2. /\ n \in Nat /\ m \in Nat /\ DOMAIN s = 1 .. n /\ DOMAIN t = 1 .. m /\ DOMAIN u = 1 .. n + m
      /\ \A i \in 1 .. n : u[i] = s[i]
      /\ \A i \in 1 .. m : u[n + i] = t[i]
  BY <1>1 DEF m
<1>3. \A i \in 1 .. n + m : i \notin 1 .. n => i - n \in 1 .. m /\ n + (i - n) = i
  BY <1>2
<1>4. /\ \A i \in 1 .. n : i \in 1 .. n + m
      /\ \A i \in 1 .. m : n + i \in 1 .. n + m /\ n + i \notin 1 .. n
      /\ \A i \in 1 .. n + m, j \in 1 .. n : i \notin 1 .. n => j < i
      /\ \A i, j \in 1 .. m : j < i <=> n + j < n + i
      /\ \A j \in 1 .. n + m, i \in 1 .. n : j < i => j \in 1 .. n
  BY <1>2
<1>5. Silent(u, p) <=> Silent(s, p) /\ Silent(t, p)
  <2>1. ASSUME Silent(s, p), Silent(t, p), NEW i \in 1 .. n + m PROVE ~Stops(u[i], p)
    <3>1. CASE i \in 1 .. n
      BY <1>2, <2>1, <3>1 DEF Silent
    <3>2. CASE i \notin 1 .. n
      <4>1. i - n \in 1 .. m /\ u[i] = t[i - n]
        BY <1>2, <1>3, <3>2
      <4> QED
        BY <1>2, <2>1, <4>1 DEF Silent
    <3> QED
      BY <3>1, <3>2
  <2>2. ASSUME Silent(u, p) PROVE Silent(s, p)
    BY <1>2, <1>4, <2>2 DEF Silent
  <2>3. ASSUME Silent(u, p), NEW i \in 1 .. m PROVE ~Stops(t[i], p)
    <3>1. n + i \in 1 .. n + m /\ u[n + i] = t[i]
      BY <1>2, <1>4
    <3> QED
      BY <1>2, <2>3, <3>1 DEF Silent
  <2>4. Silent(u, p) => Silent(t, p)
    BY <1>2, <2>3 DEF Silent
  <2>5. Silent(s, p) /\ Silent(t, p) => Silent(u, p)
    BY <1>2, <2>1 DEF Silent
  <2> QED
    BY <2>2, <2>4, <2>5
<1>6. ASSUME ~Silent(s, p) PROVE Sinks(u, p) <=> Sinks(s, p)
  <2>1. ASSUME Sinks(u, p) PROVE Sinks(s, p)
    <3>1. PICK i \in 1 .. n + m : /\ Stops(u[i], p) /\ u[i].to = "DROP"
                                  /\ \A j \in 1 .. n + m : j < i => ~Stops(u[j], p)
      BY <1>2, <2>1 DEF Sinks
    <3>2. PICK j \in 1 .. n : Stops(s[j], p)
      BY <1>2, <1>6 DEF Silent
    <3>3. i \in 1 .. n
      BY <1>2, <1>4, <3>1, <3>2
    <3> QED
      BY <1>2, <1>4, <3>1, <3>3 DEF Sinks
  <2>2. ASSUME Sinks(s, p) PROVE Sinks(u, p)
    <3>1. PICK i \in 1 .. n : /\ Stops(s[i], p) /\ s[i].to = "DROP"
                              /\ \A j \in 1 .. n : j < i => ~Stops(s[j], p)
      BY <1>2, <2>2 DEF Sinks
    <3> QED
      BY <1>2, <1>4, <3>1 DEF Sinks
  <2> QED
    BY <2>1, <2>2
<1>7. ASSUME Silent(s, p) PROVE Sinks(u, p) <=> Sinks(t, p)
  <2>1. ASSUME Sinks(u, p) PROVE Sinks(t, p)
    <3>1. PICK i \in 1 .. n + m : /\ Stops(u[i], p) /\ u[i].to = "DROP"
                                  /\ \A j \in 1 .. n + m : j < i => ~Stops(u[j], p)
      BY <1>2, <2>1 DEF Sinks
    <3>2. i \notin 1 .. n
      BY <1>2, <1>7, <3>1 DEF Silent
    <3>3. PICK k \in 1 .. m : n + k = i
      BY <1>3, <3>1, <3>2
    <3>4. \A j \in 1 .. m : j < k => ~Stops(t[j], p)
      BY <1>2, <1>4, <3>1, <3>3
    <3> QED
      BY <1>2, <3>1, <3>3, <3>4 DEF Sinks
  <2>2. ASSUME Sinks(t, p) PROVE Sinks(u, p)
    <3>1. PICK i \in 1 .. m : /\ Stops(t[i], p) /\ t[i].to = "DROP"
                              /\ \A j \in 1 .. m : j < i => ~Stops(t[j], p)
      BY <1>2, <2>2 DEF Sinks
    <3>2. ASSUME NEW j \in 1 .. n + m, j < n + i PROVE ~Stops(u[j], p)
      <4>1. CASE j \in 1 .. n
        BY <1>2, <1>7, <4>1 DEF Silent
      <4>2. CASE j \notin 1 .. n
        <5>1. PICK k \in 1 .. m : n + k = j
          BY <1>3, <4>2
        <5> QED
          BY <1>2, <1>4, <3>1, <3>2, <5>1
      <4> QED
        BY <4>1, <4>2
    <3>3. n + i \in DOMAIN u /\ u[n + i] = t[i]
      BY <1>2, <1>4
    <3> QED
      BY <1>2, <3>1, <3>2, <3>3 DEF Sinks
  <2> QED
    BY <2>1, <2>2
<1> QED
  BY <1>5, <1>6, <1>7 DEF Fate, u

LEMMA FateOfNone ==
  ASSUME NEW p
  PROVE  Fate(<<>>, p) = "silent"
BY DEF Silent, Fate

LEMMA FateOfOne ==
  ASSUME NEW l, NEW p
  PROVE  Fate(<< l >>, p) = IF ~Stops(l, p) THEN "silent" ELSE IF l.to = "DROP" THEN "drop" ELSE "pass"
<1>1. DOMAIN << l >> = {1} /\ << l >>[1] = l /\ ~(1 < 1)
  OBVIOUS
<1>2. Silent(<< l >>, p) <=> ~Stops(l, p)
  BY <1>1 DEF Silent
<1>3. Sinks(<< l >>, p) <=> Stops(l, p) /\ l.to = "DROP"
  BY <1>1 DEF Sinks
<1> QED
  BY <1>2, <1>3 DEF Fate

\* In a concatenation the first piece that is not silent decides.
LEMMA FateOfFirst ==
  ASSUME NEW X, NEW ss \in Seq(Seq(X)), NEW p
  PROVE  /\ (\A i \in DOMAIN ss : Fate(ss[i], p) = "silent") => Fate(Concat(ss), p) = "silent"
         /\ \A j \in DOMAIN ss :
              /\ Fate(ss[j], p) # "silent"
              /\ \A i \in DOMAIN ss : i < j => Fate(ss[i], p) = "silent"
              => Fate(Concat(ss), p) = Fate(ss[j], p)
<1>0. Len(ss) \in Nat /\ DOMAIN ss = 1 .. Len(ss) /\ \A i \in 1 .. Len(ss) : ss[i] \in Seq(X)
  OBVIOUS
<1>1. PICK f : /\ f = [i \in 0 .. Len(ss) |-> IF i = 0 THEN <<>> ELSE f[i - 1] \o ss[i]]
               /\ Concat(ss) = f[Len(ss)]
  BY <1>0, ConcatIs
<1> DEFINE quiet(n) == \A i \in 1 .. n : Fate(ss[i], p) = "silent"
           Good(n) == /\ f[n] \in Seq(X)
                      /\ quiet(n) => Fate(f[n], p) = "silent"
                      /\ \A j \in 1 .. n : Fate(ss[j], p) # "silent" /\ quiet(j - 1)
                                             => Fate(f[n], p) = Fate(ss[j], p)
           S == {n \in Nat : n <= Len(ss) => Good(n)}
<1>2. 0 \in S
  <2>1. f[0] = <<>>
    BY <1>0, <1>1
  <2>2. <<>> \in Seq(X)
    OBVIOUS
  <2>3. Fate(<<>>, p) = "silent"
    BY FateOfNone
  <2>4. Good(0)
    BY <2>1, <2>2, <2>3
  <2> HIDE DEF Good
  <2> QED
    BY <2>4
<1>3. ASSUME NEW n \in Nat, n \in S PROVE n + 1 \in S
  <2> HIDE DEF Good
  <2> SUFFICES ASSUME n + 1 <= Len(ss) PROVE Good(n + 1)
    OBVIOUS
  <2>1. n <= Len(ss) /\ Good(n)
    BY <1>0, <1>3
  <2> USE DEF Good
  <2>2. f[n + 1] = f[n] \o ss[n + 1]
    <3>1. n + 1 \in 0 .. Len(ss) /\ n + 1 # 0 /\ (n + 1) - 1 = n
      BY <1>0
    <3> QED
      BY <1>1, <3>1
  <2>3. ss[n + 1] \in Seq(X)
    BY <1>0
  <2>4. /\ f[n + 1] \in Seq(X)
        /\ Fate(f[n + 1], p) = IF Fate(f[n], p) = "silent" THEN Fate(ss[n + 1], p) ELSE Fate(f[n], p)
    BY <2>1, <2>2, <2>3, FateJoin
  <2>5. /\ quiet(n + 1) => quiet(n) /\ Fate(ss[n + 1], p) = "silent"
        /\ \A j \in 1 .. n + 1 : j \in 1 .. n \/ j = n + 1
        /\ (n + 1) - 1 = n
    OBVIOUS
  <2> HIDE DEF quiet
  <2>6. quiet(n + 1) => Fate(f[n + 1], p) = "silent"
    BY <2>1, <2>4, <2>5
  <2>7. ASSUME NEW j \in 1 .. n + 1, Fate(ss[j], p) # "silent", quiet(j - 1)
        PROVE  Fate(f[n + 1], p) = Fate(ss[j], p)
    <3>1. CASE j \in 1 .. n
      <4>1. Fate(f[n], p) = Fate(ss[j], p)
        BY <2>1, <2>7, <3>1
      <4> QED
        BY <2>4, <2>7, <4>1
    <3>2. CASE j = n + 1
      <4>1. quiet(n)
        BY <2>5, <2>7, <3>2
      <4> QED
        BY <2>1, <2>4, <3>2, <4>1
    <3> QED
      BY <2>5, <3>1, <3>2
  <2> QED
    BY <2>4, <2>6, <2>7
<1> HIDE DEF S
<1>4. Len(ss) \in S
  BY <1>0, <1>2, <1>3, SetInduction
<1>5. Good(Len(ss))
  BY <1>0, <1>4 DEF S
<1>6. ASSUME NEW j \in 1 .. Len(ss), \A i \in 1 .. Len(ss) : i < j => Fate(ss[i], p) = "silent"
      PROVE  quiet(j - 1)
  BY <1>0, <1>6
<1> QED
  BY <1>0, <1>1, <1>5, <1>6

LEMMA Least ==
  ASSUME NEW S \in SUBSET Nat, S # {}
  PROVE  \E m \in S : \A n \in S : m <= n
<1> DEFINE R == OpToRel(<, Nat)
<1>1. IsWellFoundedOn(R, Nat)
  BY NatLessThanWellFounded
<1>2. ASSUME NEW x \in Nat, NEW y \in Nat, y < x PROVE <<y, x>> \in R
  BY <1>2 DEF OpToRel
<1> HIDE DEF R
<1>3. PICK m \in S : \A n \in S : <<n, m>> \notin R
  BY <1>1, WFMin
<1>4. \A n \in S : ~(n < m)
  BY <1>2, <1>3
<1> QED
  BY <1>4

\* In a concatenation whose pieces agree, any piece that is not silent decides.
LEMMA FateOfAny ==
  ASSUME NEW X, NEW ss \in Seq(Seq(X)), NEW p, NEW fate, fate # "silent",
         \A i \in DOMAIN ss : Fate(ss[i], p) \in {"silent", fate}
  PROVE  Fate(Concat(ss), p) =
           IF \E i \in DOMAIN ss : Fate(ss[i], p) # "silent" THEN fate ELSE "silent"
<1>1. CASE \A i \in DOMAIN ss : Fate(ss[i], p) = "silent"
  BY <1>1, FateOfFirst
<1>2. ASSUME NEW k \in DOMAIN ss, Fate(ss[k], p) # "silent"
      PROVE  Fate(Concat(ss), p) = fate
  <2> DEFINE S == {i \in DOMAIN ss : Fate(ss[i], p) # "silent"}
  <2>1. DOMAIN ss \subseteq Nat
    OBVIOUS
  <2>2. S \in SUBSET Nat /\ S # {}
    BY <1>2, <2>1
  <2> HIDE DEF S
  <2>3. PICK m \in S : \A n \in S : m <= n
    BY <2>2, Least
  <2>4. m \in DOMAIN ss /\ Fate(ss[m], p) # "silent"
    BY <2>3 DEF S
  <2>5. \A i \in DOMAIN ss : i < m => Fate(ss[i], p) = "silent"
    BY <2>1, <2>2, <2>3 DEF S
  <2>6. Fate(Concat(ss), p) = Fate(ss[m], p)
    BY <2>4, <2>5, FateOfFirst
  <2> QED
    BY <2>4, <2>6
<1> QED
  BY <1>1, <1>2

\* A chain drops the packets that walk through it and meet this fate.
LEMMA SiftedFate ==
  ASSUME NEW c \in Chains, NEW v, NEW lines \in Seq(LineOf(v, Packet)), NEW p
  PROVE  p \in Sifted(c, lines)[Len(lines) + 1].drop <=> p \in Walk[c] /\ Fate(lines, p) = "drop"
<1> DEFINE s == Sifted(c, lines)
           quiet(n) == \A i \in 1 .. n : ~Stops(lines[i], p)
           sunk(n) == \E i \in 1 .. n : Stops(lines[i], p) /\ lines[i].to = "DROP" /\ quiet(i - 1)
<1>0. Len(lines) \in Nat /\ DOMAIN lines = 1 .. Len(lines)
      /\ \A i \in 1 .. Len(lines) : lines[i] \in LineOf(v, Packet)
  OBVIOUS
<1>1. /\ s \in Seq(Decided) /\ Len(s) = Len(lines) + 1 /\ s[1] = Start(c)
      /\ \A m \in 1 .. Len(lines) : s[m + 1] = Pass(s[m], lines[m])
  BY SiftedSteps
<1> HIDE DEF s
<1> DEFINE Good(n) == /\ p \in s[n + 1].left <=> p \in Walk[c] /\ quiet(n)
                      /\ p \in s[n + 1].drop <=> p \in Walk[c] /\ sunk(n)
           S == {n \in Nat : n <= Len(lines) => Good(n)}
<1>2. 0 \in S
  <2>1. s[0 + 1].left = Walk[c] /\ s[0 + 1].drop = {}
    BY <1>1 DEF Start
  <2>2. quiet(0) /\ ~sunk(0)
    OBVIOUS
  <2> HIDE DEF quiet, sunk
  <2>3. Good(0)
    BY <2>1, <2>2
  <2> HIDE DEF Good
  <2> QED
    BY <2>3
<1>3. ASSUME NEW n \in Nat, n \in S PROVE n + 1 \in S
  <2> HIDE DEF Good
  <2> SUFFICES ASSUME n + 1 <= Len(lines) PROVE Good(n + 1)
    OBVIOUS
  <2>1. Good(n)
    BY <1>0, <1>3
  <2>2. n + 1 \in 1 .. Len(lines) /\ n + 1 \in 1 .. Len(s)
    BY <1>0, <1>1
  <2> DEFINE a == s[n + 1]
             l == lines[n + 1]
             b == s[(n + 1) + 1]
  <2>3. b = Pass(a, l) /\ a \in Decided /\ l \in LineOf(v, Packet)
    BY <1>0, <1>1, <2>2
  <2>4. (p \in a.left <=> p \in Walk[c] /\ quiet(n)) /\ (p \in a.drop <=> p \in Walk[c] /\ sunk(n))
    BY <2>1 DEF Good
  <2>5. quiet(n + 1) <=> quiet(n) /\ ~Stops(l, p)
    <3>1. \A i \in 1 .. n + 1 : i \in 1 .. n \/ i = n + 1
      OBVIOUS
    <3>2. \A i \in 1 .. n : i \in 1 .. n + 1
      OBVIOUS
    <3>3. n + 1 \in 1 .. n + 1
      OBVIOUS
    <3> QED
      BY <3>1, <3>2, <3>3
  <2>6. sunk(n + 1) <=> sunk(n) \/ (Stops(l, p) /\ l.to = "DROP" /\ quiet(n))
    <3>1. \A i \in 1 .. n + 1 : i \in 1 .. n \/ i = n + 1
      OBVIOUS
    <3>2. \A i \in 1 .. n : i \in 1 .. n + 1
      OBVIOUS
    <3>3. n + 1 \in 1 .. n + 1 /\ (n + 1) - 1 = n
      OBVIOUS
    <3> HIDE DEF quiet
    <3> QED
      BY <3>1, <3>2, <3>3
  <2> HIDE DEF a, b, l, quiet, sunk
  <2>7. p \in b.left <=> p \in a.left /\ ~Stops(l, p)
    BY <2>3 DEF Pass, Decided, LineOf, Stops
  <2>8. p \in b.drop <=> p \in a.drop \/ (p \in a.left /\ Stops(l, p) /\ l.to = "DROP")
    BY <2>3 DEF Pass, Decided, LineOf, Stops
  <2>9. /\ p \in b.left <=> p \in Walk[c] /\ quiet(n + 1)
        /\ p \in b.drop <=> p \in Walk[c] /\ sunk(n + 1)
    BY <2>4, <2>5, <2>6, <2>7, <2>8
  <2> QED
    BY <2>9 DEF Good, b
<1> HIDE DEF S
<1>4. Len(lines) \in S
  BY <1>0, <1>2, <1>3, SetInduction
<1>5. p \in s[Len(lines) + 1].drop <=> p \in Walk[c] /\ sunk(Len(lines))
  BY <1>0, <1>4 DEF S
<1>6. sunk(Len(lines)) <=> Fate(lines, p) = "drop"
  <2>1. sunk(Len(lines)) <=> Sinks(lines, p)
    <3>1. \A i \in 1 .. Len(lines) : quiet(i - 1) <=> \A j \in 1 .. Len(lines) : j < i => ~Stops(lines[j], p)
      BY <1>0
    <3> HIDE DEF quiet
    <3> QED
      BY <1>0, <3>1 DEF Sinks
  <2>2. Sinks(lines, p) => ~Silent(lines, p)
    BY DEF Sinks, Silent
  <2> HIDE DEF sunk
  <2> QED
    BY <2>1, <2>2 DEF Fate
<1> QED
  BY <1>5, <1>6 DEF s

-----------------------------------------------------------------------------
(* The packets that a fragment and a rule's lines name *)

LEMMA OnIs ==
  ASSUME NEW p \in Packet
  PROVE  /\ p \in All.on
         /\ p \in DNATed.on <=> p.flow = "fwd"
         /\ \A S : p \in InState(S).on <=> p.state \in S
         /\ \A S : p \in OnIface(S).on <=> Iif(p) \in S
         /\ \A S : p \in DPort(S).on <=> p.port \in S /\ p.proto \in Protocols
         /\ \A q : p \in OfProto(q).on <=> p.proto = q
         /\ \A A : p \in SrcIn(A).on <=> FromPeer(p) /\ p.peer \in A
         /\ \A A : p \in DstIn(A).on <=> ~FromPeer(p) /\ p.peer \in A
BY DEF All, DNATed, InState, OnIface, DPort, OfProto, SrcIn, DstIn, Match

LEMMA OnBoth ==
  ASSUME NEW a, NEW b, NEW p
  PROVE  p \in (a ++ b).on <=> p \in a.on /\ p \in b.on
BY DEF ++

LEMMA StopsAt ==
  ASSUME NEW m, NEW to, NEW p
  PROVE  Stops(Line(m, to), p) <=> p \in m.on /\ to \in {"DROP", "ACCEPT", "RETURN"}
BY DEF Stops, Line

LEMMA FateOfLine ==
  ASSUME NEW m, NEW to \in {"DROP", "ACCEPT", "RETURN"}, NEW p
  PROVE  Fate(<< Line(m, to) >>, p) =
           IF p \notin m.on THEN "silent" ELSE IF to = "DROP" THEN "drop" ELSE "pass"
<1>1. Line(m, to).to = to
  BY DEF Line
<1> QED
  BY <1>1, StopsAt, FateOfOne

\* What Validate asks of a rule, its ports aside: a bound rule's are resolved.
Sound(r) ==
  /\ r.action \in {"allow", "deny"}
  /\ validateSource(r.source)
  /\ r.proto \in {"tcp", "udp", "both"}
  /\ r.zone \in {"auto", "host", "docker"}
  /\ validateSchedule(r.schedule)
  /\ validateRateLimit(r.limit)
  /\ r.direction \in {"inbound", "outbound"}

\* What a rule whose line names p does with it.
Verdict(r, p) ==
  IF r.action = "deny" \/ (r.limit = "some" /\ p.when = "burst") THEN "drop" ELSE "pass"

Fated(r, pass) == IF r.action = "deny" THEN "DROP" ELSE pass

LEMMA FateOfWrap ==
  ASSUME NEW v, NEW m \in FragOf(v, Packet), NEW r, Sound(r), NEW pass \in {"ACCEPT", "RETURN"},
         NEW p \in Packet
  PROVE  Fate(wrapEmit(m, r, Fated(r, pass)), p) = IF p \in m.on THEN Verdict(r, p) ELSE "silent"
<1> DEFINE burst == Match({q \in Packet : q.when = "burst"})
           target == Fated(r, pass)
           a == << Line(m, "SET") >>
           b == << Line(m ++ burst, "DROP") >>
           d == << Line(m, target) >>
<1>1. r.limit \in {"none", "some"} /\ r.action \in {"allow", "deny"}
  BY DEF Sound, validateRateLimit
<1>2. target \in {"DROP", "ACCEPT", "RETURN"} /\ (target = "DROP" <=> r.action = "deny")
  BY DEF Fated
<1>3. burst \in FragOf(v, Packet) /\ (p \in burst.on <=> p.when = "burst")
  BY NamesNoAddress DEF Match
<1> HIDE DEF burst, target
<1>4. Fate(d, p) = IF p \notin m.on THEN "silent" ELSE IF r.action = "deny" THEN "drop" ELSE "pass"
  BY <1>2, FateOfLine
<1>5. CASE r.limit = "none"
  <2>1. wrapEmit(m, r, target) = d
    BY <1>5 DEF wrapEmit
  <2> QED
    BY <1>4, <1>5, <2>1 DEF Verdict, target
<1>6. CASE r.limit = "some"
  <2>1. wrapEmit(m, r, target) = (a \o b) \o d
    BY <1>6 DEF wrapEmit, burst
  <2>2. m ++ burst \in FragOf(v, Packet)
    BY <1>3, JoinIs
  <2>3. a \in Seq(LineOf(v, Packet)) /\ b \in Seq(LineOf(v, Packet)) /\ d \in Seq(LineOf(v, Packet))
    BY <1>2, <2>2, OneLine DEF Target
  <2>4. Fate(a, p) = "silent"
    BY StopsAt, FateOfOne
  <2>5. Fate(b, p) = IF p \in m.on /\ p.when = "burst" THEN "drop" ELSE "silent"
    <3> DEFINE both == m ++ burst
    <3>1. p \in both.on <=> p \in m.on /\ p.when = "burst"
      BY <1>3, OnBoth
    <3> HIDE DEF both
    <3>2. Fate(<< Line(both, "DROP") >>, p) = IF p \notin both.on THEN "silent" ELSE "drop"
      BY FateOfLine
    <3> QED
      BY <3>1, <3>2 DEF both
  <2> DEFINE ab == a \o b
  <2> HIDE DEF a, b, d
  <2>6. Fate(ab, p) = Fate(b, p) /\ ab \in Seq(LineOf(v, Packet))
    BY <2>3, <2>4, FateJoin
  <2> HIDE DEF ab
  <2>7. Fate(ab \o d, p) = IF Fate(b, p) = "silent" THEN Fate(d, p) ELSE Fate(b, p)
    BY <2>3, <2>6, FateJoin
  <2> QED
    BY <1>1, <1>4, <1>6, <2>1, <2>5, <2>7 DEF Verdict, target, ab
<1> QED
  BY <1>1, <1>5, <1>6

\* The protocols and ports of a rule in one chain.
Names(r, ports, p) ==
  /\ portMatch(ports, p.port)
  /\ IF ports.type = "all" THEN r.proto = "both" \/ p.proto = r.proto
     ELSE p.proto \in Protocols /\ protoMatch(r, p.proto)

Covers(args, ports, p) ==
  (\E j \in DOMAIN args : p \in args[j].on) <=> portMatch(ports, p.port) /\ p.proto \in Protocols

LEMMA FateOfEmit ==
  ASSUME NEW v, NEW m \in FragOf(v, Packet), NEW r, Sound(r), NEW pass \in {"ACCEPT", "RETURN"},
         NEW p \in Packet, NEW ports, NEW args \in Seq(FragOf(v, Packet)),
         ports.type # "all" => Covers(args, ports, p)
  PROVE  Fate(emit(r, m, ports, args, Fated(r, pass)), p) =
           IF p \in m.on /\ Names(r, ports, p) THEN Verdict(r, p) ELSE "silent"
<1> DEFINE target == Fated(r, pass)
<1>0. r.proto \in {"tcp", "udp", "both"} /\ target \in Target
  BY DEF Sound, Target, Fated
<1>1. CASE ports.type = "all"
  <2> DEFINE at == IF r.proto = "both" THEN m ELSE m ++ OfProto(r.proto)
  <2>1. at \in FragOf(v, Packet)
    BY NamesNoAddress, JoinIs
  <2>2. p \in at.on <=> p \in m.on /\ Names(r, ports, p)
    BY <1>0, <1>1, OnBoth, OnIs DEF Names, portMatch
  <2>3. emit(r, m, ports, args, target) = wrapEmit(at, r, target)
    BY <1>1 DEF emit
  <2> HIDE DEF at
  <2> QED
    BY <2>1, <2>2, <2>3, FateOfWrap
<1>2. CASE ports.type # "all"
  <2> DEFINE protos == protoList(r.proto)
             at(i, j) == m ++ OfProto(protos[i]) ++ args[j]
             w(i, j) == wrapEmit(at(i, j), r, target)
             f(i) == [j \in DOMAIN args |-> w(i, j)]
             g == [i \in DOMAIN protos |-> Concat(f(i))]
             named == \E j \in DOMAIN args : p \in args[j].on
             fate(i) == IF p \in m.on /\ p.proto = protos[i] /\ named THEN Verdict(r, p) ELSE "silent"
  <2>1. emit(r, m, ports, args, target) = Concat(g)
    BY <1>2 DEF emit
  <2>2. protos \in Seq({"tcp", "udp"})
        /\ \A q \in {"tcp", "udp"} : (\E i \in DOMAIN protos : protos[i] = q) <=> protoMatch(r, q)
    <3> DEFINE Q == {"tcp", "udp"}
    <3>1. <<"tcp", "udp">> \in Seq(Q) /\ <<"tcp">> \in Seq(Q) /\ <<"udp">> \in Seq(Q)
      OBVIOUS
    <3>2. /\ <<"tcp", "udp">>[1] = "tcp" /\ <<"tcp", "udp">>[2] = "udp" /\ DOMAIN <<"tcp", "udp">> = {1, 2}
          /\ \A q : << q >>[1] = q /\ DOMAIN << q >> = {1}
      OBVIOUS
    <3>3. CASE r.proto = "both"
      BY <3>1, <3>2, <3>3 DEF protoList, protoMatch
    <3>4. CASE r.proto # "both"
      BY <1>0, <3>1, <3>2, <3>4 DEF protoList, protoMatch
    <3> QED
      BY <3>3, <3>4
  <2> HIDE DEF protos
  <2>3. ASSUME NEW i \in DOMAIN protos, NEW j \in DOMAIN args
        PROVE  /\ w(i, j) \in Seq(LineOf(v, Packet))
               /\ Fate(w(i, j), p) = IF p \in m.on /\ p.proto = protos[i] /\ p \in args[j].on
                                     THEN Verdict(r, p) ELSE "silent"
    <3>1. args[j] \in FragOf(v, Packet) /\ OfProto(protos[i]) \in FragOf(v, Packet)
      BY NamesNoAddress
    <3>2. m ++ OfProto(protos[i]) \in FragOf(v, Packet)
      BY <3>1, JoinIs
    <3>3. at(i, j) \in FragOf(v, Packet)
      BY <3>1, <3>2, JoinIs
    <3>4. p \in at(i, j).on <=> p \in m.on /\ p.proto = protos[i] /\ p \in args[j].on
      BY OnBoth, OnIs
    <3> HIDE DEF at, target
    <3>5. w(i, j) \in Seq(LineOf(v, Packet))
      BY <1>0, <3>3, WrapEmitIs
    <3>6. Fate(w(i, j), p) = IF p \in at(i, j).on THEN Verdict(r, p) ELSE "silent"
      BY <3>3, FateOfWrap DEF target
    <3> QED
      BY <3>4, <3>5, <3>6
  <2>4. Verdict(r, p) # "silent"
    BY DEF Verdict
  <2> HIDE DEF w
  <2>5. ASSUME NEW i \in DOMAIN protos
        PROVE  Concat(f(i)) \in Seq(LineOf(v, Packet)) /\ Fate(Concat(f(i)), p) = fate(i)
    <3>1. f(i) \in Seq(Seq(LineOf(v, Packet))) /\ DOMAIN f(i) = DOMAIN args
      <4>1. f(i) \in [DOMAIN args -> Seq(LineOf(v, Packet))]
        BY <2>3
      <4> HIDE DEF f
      <4> QED
        BY <4>1, SameLength
    <3>2. \A j \in DOMAIN args : Fate(f(i)[j], p) = IF p \in m.on /\ p.proto = protos[i] /\ p \in args[j].on
                                                    THEN Verdict(r, p) ELSE "silent"
      BY <2>3
    <3> HIDE DEF f
    <3>3. \A j \in DOMAIN f(i) : Fate(f(i)[j], p) \in {"silent", Verdict(r, p)}
      BY <3>1, <3>2
    <3>4. Fate(Concat(f(i)), p) = IF \E j \in DOMAIN f(i) : Fate(f(i)[j], p) # "silent"
                                  THEN Verdict(r, p) ELSE "silent"
      BY <2>4, <3>1, <3>3, FateOfAny
    <3> QED
      BY <2>4, <3>1, <3>2, <3>4, ConcatSeq
  <2> HIDE DEF f
  <2>6. g \in Seq(Seq(LineOf(v, Packet))) /\ DOMAIN g = DOMAIN protos
    <3>1. g \in [DOMAIN protos -> Seq(LineOf(v, Packet))]
      BY <2>5
    <3> HIDE DEF g
    <3> QED
      BY <2>2, <3>1, SameLength
  <2>7. \A i \in DOMAIN protos : Fate(g[i], p) = fate(i)
    BY <2>5
  <2> HIDE DEF g
  <2>8. \A i \in DOMAIN g : Fate(g[i], p) \in {"silent", Verdict(r, p)}
    BY <2>6, <2>7
  <2>9. Fate(Concat(g), p) = IF \E i \in DOMAIN g : Fate(g[i], p) # "silent"
                             THEN Verdict(r, p) ELSE "silent"
    BY <2>4, <2>6, <2>8, FateOfAny
  <2>10. named <=> portMatch(ports, p.port) /\ p.proto \in Protocols
    BY <1>2 DEF Covers
  <2> HIDE DEF named
  <2>11. (\E i \in DOMAIN g : Fate(g[i], p) # "silent") <=> p \in m.on /\ Names(r, ports, p)
    BY <1>2, <2>2, <2>4, <2>6, <2>7, <2>10 DEF Names, Protocols
  <2> QED
    BY <2>1, <2>9, <2>11
<1> QED
  BY <1>1, <1>2

-----------------------------------------------------------------------------
(* The ports *)

\* Chunks of M cover every place.
LEMMA ChunkOf ==
  ASSUME NEW M \in Nat \ {0}, NEW i \in Nat \ {0}
  PROVE  \E c \in Nat \ {0} : (c - 1) * M + 1 <= i /\ i <= c * M
<1> DEFINE In(c, j) == (c - 1) * M + 1 <= j /\ j <= c * M
           S == {j \in Nat : j # 0 => \E c \in Nat \ {0} : In(c, j)}
<1>1. 0 \in S
  OBVIOUS
<1>2. ASSUME NEW j \in Nat, j \in S PROVE j + 1 \in S
  <2>1. CASE j = 0
    <3>1. In(1, j + 1)
      BY <2>1
    <3> QED
      BY <3>1
  <2>2. CASE j # 0
    <3>1. PICK c \in Nat \ {0} : In(c, j)
      BY <1>2, <2>2
    <3>2. (c - 1) * M = c * M - M /\ ((c + 1) - 1) * M = c * M /\ (c + 1) * M = c * M + M /\ c * M \in Int
      OBVIOUS
    <3>3. CASE j + 1 <= c * M
      <4>1. In(c, j + 1)
        BY <3>1, <3>2, <3>3
      <4> QED
        BY <4>1
    <3>4. CASE ~(j + 1 <= c * M)
      <4>1. In(c + 1, j + 1)
        BY <3>1, <3>2, <3>4
      <4>2. c + 1 \in Nat \ {0}
        OBVIOUS
      <4> HIDE DEF In
      <4> QED
        BY <4>1, <4>2
    <3> QED
      BY <3>3, <3>4
  <2> QED
    BY <2>1, <2>2
<1> HIDE DEF S
<1>3. i \in S
  BY <1>1, <1>2, SetInduction
<1> QED
  BY <1>3 DEF S

\* A chunk that begins within n places is one of those counted for n.
LEMMA ChunkCounted ==
  ASSUME NEW M \in Nat \ {0}, NEW n \in Nat, NEW c \in Nat \ {0}, (c - 1) * M + 1 <= n
  PROVE  c \in 1 .. (n + M - 1) \div M
<1> DEFINE a == n + M - 1
           q == a \div M
<1>1. a \in Nat
  OBVIOUS
<1>2. q \in Nat /\ M * q <= a /\ a < M * q + M
  <2> HIDE DEF a
  <2> QED
    BY <1>1
<1>3. c * M = (c - 1) * M + M /\ c * M \in Int
  OBVIOUS
<1>4. c * M <= a
  BY <1>3
<1> HIDE DEF a, q
<1>5. ASSUME q + 1 <= c PROVE FALSE
  <2>1. (q + 1) * M <= c * M
    <3>1. PICK d \in Nat : c = (q + 1) + d
      <4>1. c - (q + 1) \in Nat /\ c = (q + 1) + (c - (q + 1))
        BY <1>2, <1>5
      <4> QED
        BY <4>1
    <3>2. c * M = (q + 1) * M + d * M
      BY <1>2, <3>1
    <3>3. d * M >= 0
      BY <3>1
    <3> QED
      BY <1>2, <3>2, <3>3
  <2>2. (q + 1) * M = M * q + M
    BY <1>2
  <2> QED
    BY <1>1, <1>2, <1>3, <1>4, <2>1, <2>2
<1>6. c <= q
  BY <1>2, <1>5
<1> QED
  BY <1>2, <1>6 DEF a, q

\* The chunks of a list name its ports and no other.
LEMMA MultiportCovers ==
  ASSUME NEW list \in Seq(Int), NEW p \in Packet
  PROVE  (\E j \in DOMAIN multiport(list) : p \in multiport(list)[j].on)
           <=> (\E i \in DOMAIN list : list[i] = p.port) /\ p.proto \in Protocols
<1> DEFINE M == MaxMultiport
           n == Len(list)
           top == (n + M - 1) \div M
           from(c) == (c - 1) * M + 1
           to(c) == IF c * M < n THEN c * M ELSE n
           chunk(c) == [DPort({list[i] : i \in from(c) .. to(c)}) EXCEPT !.n = to(c) - from(c) + 1]
<1>1. M \in Nat \ {0} /\ n \in Nat /\ DOMAIN list = 1 .. n
  BY MultiportAssumption
<1>2. multiport(list) = [c \in 1 .. top |-> chunk(c)]
  BY DEF multiport
<1>3. ASSUME NEW c PROVE p \in chunk(c).on <=> (\E i \in from(c) .. to(c) : list[i] = p.port) /\ p.proto \in Protocols
  <2> DEFINE S == {list[i] : i \in from(c) .. to(c)}
             k == to(c) - from(c) + 1
  <2>1. chunk(c) = [DPort(S) EXCEPT !.n = k]
    OBVIOUS
  <2>2. p.port \in S <=> \E i \in from(c) .. to(c) : list[i] = p.port
    BY Zenon
  <2> HIDE DEF S, k, chunk
  <2>3. chunk(c).on = DPort(S).on
    BY <2>1 DEF DPort, Match
  <2>4. p \in DPort(S).on <=> p.port \in S /\ p.proto \in Protocols
    BY OnIs
  <2> QED
    BY <2>2, <2>3, <2>4
<1>4. ASSUME NEW c \in 1 .. top, NEW i \in from(c) .. to(c) PROVE i \in 1 .. n
  <2>1. top \in Int
    <3>1. n + M - 1 \in Int
      BY <1>1
    <3> HIDE DEF n, M
    <3> QED
      BY <1>1, <3>1
  <2>2. c \in Int /\ c - 1 \in Nat /\ c * M \in Int
    BY <1>1, <2>1
  <2>3. (c - 1) * M \in Nat
    BY <1>1, <2>2
  <2> HIDE DEF top, M, n
  <2>4. from(c) \in Int /\ from(c) >= 1 /\ to(c) \in Int /\ to(c) <= n
    BY <1>1, <2>2, <2>3
  <2> HIDE DEF from, to
  <2> QED
    BY <1>1, <2>4
<1>5. ASSUME NEW i \in 1 .. n PROVE \E c \in 1 .. top : i \in from(c) .. to(c)
  <2>5. M \in Nat \ {0} /\ i \in Nat \ {0}
    <3> HIDE DEF M, n
    <3> QED
      BY <1>1
  <2>1. PICK c \in Nat \ {0} : (c - 1) * M + 1 <= i /\ i <= c * M
    <3> HIDE DEF M, n
    <3> QED
      BY <2>5, ChunkOf
  <2>2. (c - 1) * M + 1 <= n /\ (c - 1) * M \in Int /\ c * M \in Int
    BY <1>1, <2>1
  <2>3. c \in 1 .. top
    BY <1>1, <2>1, <2>2, ChunkCounted
  <2>4. i \in from(c) .. to(c)
    <3> HIDE DEF M, n
    <3> QED
      BY <1>1, <2>1, <2>2
  <2> QED
    BY <2>3, <2>4
<1> HIDE DEF chunk, from, to, top, n
<1>6. DOMAIN multiport(list) = 1 .. top /\ \A c \in 1 .. top : multiport(list)[c] = chunk(c)
  BY <1>2
<1>7. ASSUME NEW c \in 1 .. top, p \in chunk(c).on PROVE (\E i \in 1 .. n : list[i] = p.port) /\ p.proto \in Protocols
  BY <1>3, <1>4, <1>7
<1>8. ASSUME NEW i \in 1 .. n, list[i] = p.port, p.proto \in Protocols PROVE \E c \in 1 .. top : p \in chunk(c).on
  <2>1. PICK c \in 1 .. top : i \in from(c) .. to(c)
    BY <1>5
  <2> QED
    BY <1>3, <1>8, <2>1
<1>9. DOMAIN list = 1 .. n
  BY <1>1
<1> QED
  BY <1>6, <1>7, <1>8, <1>9

LEMMA PortArgsCover ==
  ASSUME NEW ports \in PortSpec, ports.type # "all", NEW p \in Packet
  PROVE  Covers(portArgs(ports), ports, p) /\ Covers(origPortArgs(ports), ports, p)
<1>1. CASE ports.type = "range"
  <2> DEFINE I == ports.from .. ports.to
             a == DPort(I)
  <2>1. portArgs(ports) = << a >> /\ origPortArgs(ports) = << a >>
    BY <1>1 DEF portArgs, origPortArgs
  <2>5. portMatch(ports, p.port) <=> p.port \in I
    BY <1>1 DEF portMatch
  <2> HIDE DEF I
  <2>2. p \in a.on <=> p.port \in I /\ p.proto \in Protocols
    BY OnIs
  <2> HIDE DEF a
  <2>3. DOMAIN << a >> = {1} /\ << a >>[1] = a
    OBVIOUS
  <2> QED
    BY <2>1, <2>2, <2>3, <2>5 DEF Covers
<1>2. CASE ports.type = "list"
  <2>1. ports.list \in Seq(Int)
    BY <1>2 DEF PortSpec
  <2>2. portMatch(ports, p.port) <=> \E i \in DOMAIN ports.list : ports.list[i] = p.port
    BY <1>2 DEF portMatch
  <2>3. portArgs(ports) = multiport(ports.list)
    BY <1>2 DEF portArgs
  <2>4. Covers(portArgs(ports), ports, p)
    BY <2>1, <2>2, <2>3, MultiportCovers DEF Covers
  <2>5. origPortArgs(ports) = [i \in DOMAIN ports.list |-> DPort({ports.list[i]})]
    BY <1>2 DEF origPortArgs
  <2>6. \A i \in DOMAIN ports.list : p \in origPortArgs(ports)[i].on <=> ports.list[i] = p.port /\ p.proto \in Protocols
    BY <2>5, OnIs
  <2>7. Covers(origPortArgs(ports), ports, p)
    BY <2>2, <2>5, <2>6 DEF Covers
  <2> QED
    BY <2>4, <2>7
<1> QED
  BY <1>1, <1>2 DEF PortSpec

\* The elements that Concat keeps of a sequence.
LEMMA KeptAre ==
  ASSUME NEW list \in Seq(Int), NEW K
  PROVE  LET kept == Concat([i \in DOMAIN list |-> IF list[i] \in K THEN << list[i] >> ELSE <<>>])
         IN  /\ kept \in Seq(Int)
             /\ \A x : (\E j \in DOMAIN kept : kept[j] = x) <=> x \in K /\ \E i \in DOMAIN list : list[i] = x
<1> DEFINE f == [i \in DOMAIN list |-> IF list[i] \in K THEN << list[i] >> ELSE <<>>]
           kept == Concat(f)
           n == Len(list)
<1>1. n \in Nat /\ DOMAIN list = 1 .. n /\ \A i \in 1 .. n : list[i] \in Int
  OBVIOUS
<1>2. f \in [DOMAIN list -> Seq(Int)]
  <2>1. \A x \in Int : << x >> \in Seq(Int)
    OBVIOUS
  <2>2. <<>> \in Seq(Int)
    OBVIOUS
  <2> QED
    BY <1>1, <2>1, <2>2
<1>3. \A i \in 1 .. n : f[i] = IF list[i] \in K THEN << list[i] >> ELSE <<>>
  BY <1>1
<1> HIDE DEF f, n
<1>4. f \in Seq(Seq(Int)) /\ Len(f) = n
  BY <1>2, SameLength DEF n
<1>5. kept \in Seq(Int) /\ MadeOf(kept, f, n)
  BY <1>4, ConcatSeq
<1> HIDE DEF kept
<1>6. ASSUME NEW j \in DOMAIN kept PROVE kept[j] \in K /\ \E i \in 1 .. n : list[i] = kept[j]
  <2>1. PICK i \in 1 .. n, from \in Nat : j - from \in DOMAIN f[i] /\ At(kept, f[i], from)
    BY <1>5 DEF MadeOf
  <2>2. list[i] \in K /\ f[i] = << list[i] >>
    <3>1. DOMAIN <<>> = {}
      OBVIOUS
    <3> QED
      BY <1>3, <2>1, <3>1
  <2>3. j - from = 1 /\ f[i][1] = list[i]
    <3>1. DOMAIN << list[i] >> = {1} /\ << list[i] >>[1] = list[i]
      OBVIOUS
    <3> QED
      BY <2>1, <2>2, <3>1
  <2>4. j = from + 1
    <3>1. j \in Int
      BY <1>5
    <3> QED
      BY <2>3, <3>1
  <2>5. kept[j] = list[i]
    BY <2>1, <2>3, <2>4 DEF At
  <2> QED
    BY <2>2, <2>5
<1>7. ASSUME NEW i \in 1 .. n, list[i] \in K PROVE \E j \in DOMAIN kept : kept[j] = list[i]
  <2>1. PICK from \in Nat : At(kept, f[i], from)
    BY <1>5 DEF MadeOf
  <2>2. 1 \in DOMAIN f[i] /\ f[i][1] = list[i]
    <3>1. f[i] = << list[i] >>
      BY <1>3, <1>7
    <3>2. 1 \in DOMAIN << list[i] >> /\ << list[i] >>[1] = list[i]
      OBVIOUS
    <3> QED
      BY <3>1, <3>2
  <2> QED
    BY <2>1, <2>2 DEF At
<1> QED
  BY <1>1, <1>5, <1>6, <1>7 DEF kept, f

\* Where a rule's port lands.
Lands(r, P, want, port) ==
  \/ r.zone = want
  \/ r.zone = "auto" /\ IF r.ports.type = "list" THEN (port \in P) = (want = "docker") ELSE want = "host"

LEMMA NoPortsMatch ==
  ASSUME NEW port
  PROVE  ~portMatch(NoPorts, port) /\ NoPorts.type # "all"
BY DEF NoPorts, portMatch

LEMMA ZoneMatch ==
  ASSUME NEW r \in Rule, NEW P, NEW want \in {"host", "docker"}, NEW port
  PROVE  LET ports == portsForZone(r, P, want)
         IN  /\ portMatch(ports, port) <=> portMatch(r.ports, port) /\ Lands(r, P, want, port)
             /\ portMatch(ports, port) => (ports.type = "all" <=> r.ports.type = "all")
<1> DEFINE mine(p) == (p \in P) = (want = "docker")
           K == IF want = "docker" THEN P ELSE Int \ P
           kept == Concat([i \in DOMAIN r.ports.list |->
                     IF r.ports.list[i] \in K THEN << r.ports.list[i] >> ELSE <<>>])
           only1 == only(r.ports.list, mine)
           ports == portsForZone(r, P, want)
<1>1. ports = IF r.zone # "auto" THEN IF r.zone = want THEN r.ports ELSE NoPorts
              ELSE IF r.ports.type # "list"
                   THEN IF want = "host" THEN r.ports ELSE NoPorts
                   ELSE IF only1 = <<>> THEN NoPorts ELSE ListPorts(only1)
  BY DEF portsForZone
<1>2. r.ports \in PortSpec
  BY DEF Rule
<1>3. CASE r.zone # "auto" \/ r.ports.type # "list"
  <2>1. ports = IF Lands(r, P, want, port) THEN r.ports ELSE NoPorts
    BY <1>1, <1>3 DEF Lands
  <2> HIDE DEF ports
  <2> QED
    BY <2>1, NoPortsMatch DEF ports
<1>4. CASE r.zone = "auto" /\ r.ports.type = "list"
  <2>1. r.ports.list \in Seq(Int)
    BY <1>2, <1>4 DEF PortSpec
  <2>2. only1 = kept
    <3>1. \A i \in DOMAIN r.ports.list : r.ports.list[i] \in Int
      BY <2>1
    <3>2. \A x \in Int : mine(x) <=> x \in K
      OBVIOUS
    <3>3. only1 = Concat([i \in DOMAIN r.ports.list |->
                    IF mine(r.ports.list[i]) THEN << r.ports.list[i] >> ELSE <<>>])
      BY DEF only
    <3> HIDE DEF mine, K
    <3>4. [i \in DOMAIN r.ports.list |-> IF mine(r.ports.list[i]) THEN << r.ports.list[i] >> ELSE <<>>]
          = [i \in DOMAIN r.ports.list |-> IF r.ports.list[i] \in K THEN << r.ports.list[i] >> ELSE <<>>]
      BY <3>1, <3>2
    <3> QED
      BY <3>3, <3>4
  <2>3. /\ kept \in Seq(Int)
        /\ \A x : (\E j \in DOMAIN kept : kept[j] = x)
                    <=> x \in K /\ \E i \in DOMAIN r.ports.list : r.ports.list[i] = x
    <3> HIDE DEF K
    <3> QED
      BY ZenonT(60), <2>1, KeptAre
  <2>4. ports = IF kept = <<>> THEN NoPorts ELSE ListPorts(kept)
    BY <1>1, <1>4, <2>2
  <2>5. port \in Int => (port \in K <=> Lands(r, P, want, port))
    BY <1>4 DEF Lands
  <2>6. portMatch(r.ports, port) <=> \E i \in DOMAIN r.ports.list : r.ports.list[i] = port
    BY <1>4 DEF portMatch
  <2>7. portMatch(r.ports, port) => port \in Int
    BY <2>1, <2>6
  <2> HIDE DEF kept, K, ports, only1
  <2>8. CASE kept = <<>>
    <3>1. DOMAIN kept = {}
      BY <2>8
    <3> QED
      BY <2>3, <2>4, <2>5, <2>6, <2>7, <2>8, <3>1, NoPortsMatch DEF ports
  <2>9. CASE kept # <<>>
    <3>1. ports.type = "list" /\ ports.list = kept
      BY <2>4, <2>9 DEF ListPorts
    <3>2. portMatch(ports, port) <=> \E j \in DOMAIN kept : kept[j] = port
      BY <3>1 DEF portMatch
    <3> QED
      BY <1>4, <2>3, <2>5, <2>6, <2>7, <3>1, <3>2 DEF ports
  <2> QED
    BY <2>8, <2>9
<1> QED
  BY <1>3, <1>4

\* The protocol and the port that a rule asks for.
Asks(r, p) ==
  IF p.proto = "icmp" THEN r.proto = "both" /\ r.ports.type = "all"
  ELSE protoMatch(r, p.proto) /\ portMatch(r.ports, p.port)

LEMMA NamesIs ==
  ASSUME NEW r, Sound(r), NEW p \in Packet, NEW ports, NEW lands \in BOOLEAN,
         portMatch(ports, p.port) <=> portMatch(r.ports, p.port) /\ lands,
         portMatch(ports, p.port) => (ports.type = "all" <=> r.ports.type = "all")
  PROVE  Names(r, ports, p) <=> Asks(r, p) /\ lands
<1>1. r.proto \in {"tcp", "udp", "both"} /\ p.proto \in {"tcp", "udp", "icmp"}
  BY DEF Sound, Packet, Protocols
<1>2. r.ports.type = "all" => portMatch(r.ports, p.port)
  BY DEF portMatch
<1>3. CASE p.proto = "icmp"
  BY <1>1, <1>2, <1>3 DEF Names, Asks, Protocols, protoMatch
<1>4. CASE p.proto # "icmp"
  BY <1>1, <1>2, <1>4 DEF Names, Asks, Protocols, protoMatch
<1> QED
  BY <1>3, <1>4

\* The peers that a rule's source names.
LEMMA SourceOn ==
  ASSUME NEW r \in Rule, Sound(r), NEW p \in Packet
  PROVE  /\ p \in sourceArgs(r.source).on <=> r.source.type = "any" \/ (FromPeer(p) /\ p.peer \in r.source.of)
         /\ p \in peerArgs(r.source).on <=> r.source.type = "any" \/ (~FromPeer(p) /\ p.peer \in r.source.of)
<1>1. /\ p \in All.on
      /\ p \in SrcIn(r.source.of).on <=> FromPeer(p) /\ p.peer \in r.source.of
      /\ p \in DstIn(r.source.of).on <=> ~FromPeer(p) /\ p.peer \in r.source.of
  BY OnIs
<1>2. [SrcIn(r.source.of) EXCEPT !.lit = {4}].on = SrcIn(r.source.of).on
      /\ [DstIn(r.source.of) EXCEPT !.lit = {4}].on = DstIn(r.source.of).on
  BY DEF SrcIn, DstIn, Match
<1> QED
  BY <1>1, <1>2 DEF sourceArgs, peerArgs

Timely(r, p) == r.schedule = "day" => p.when # "night"

\* The lines of a rule in one chain stop a packet at the rule's verdict.
LEMMA FateOfZone ==
  ASSUME NEW v, NEW m \in FragOf(v, Packet), NEW r, Sound(r), NEW pass \in {"ACCEPT", "RETURN"},
         NEW p \in Packet, NEW ports \in PortSpec \cup {NoPorts}, NEW lands \in BOOLEAN,
         portMatch(ports, p.port) <=> portMatch(r.ports, p.port) /\ lands,
         portMatch(ports, p.port) => (ports.type = "all" <=> r.ports.type = "all")
  PROVE  LET fate == IF p \in m.on /\ Timely(r, p) /\ Asks(r, p) /\ lands THEN Verdict(r, p) ELSE "silent"
         IN  /\ Fate(emitZone(r, m, ports, portArgs, pass), p) = fate
             /\ Fate(emitZone(r, m, ports, origPortArgs, pass), p) = fate
<1>1. Names(r, ports, p) <=> Asks(r, p) /\ lands
  BY NamesIs
<1>2. CASE ports = NoPorts
  <2>1. ~Names(r, ports, p)
    BY <1>2, NoPortsMatch DEF Names
  <2>2. emitZone(r, m, ports, portArgs, pass) = <<>> /\ emitZone(r, m, ports, origPortArgs, pass) = <<>>
    BY <1>2 DEF emitZone
  <2> QED
    BY <1>1, <2>1, <2>2, FateOfNone
<1>3. CASE ports # NoPorts
  <2> DEFINE at == m ++ scheduleArg(r)
             a == IF ports.type = "all" THEN <<>> ELSE portArgs(ports)
             o == IF ports.type = "all" THEN <<>> ELSE origPortArgs(ports)
  <2>1. scheduleArg(r) \in FragOf(v, Packet) /\ (p \in scheduleArg(r).on <=> Timely(r, p))
    <3>1. r.schedule \in {"none", "day"}
      BY DEF Sound, validateSchedule
    <3>2. CASE r.schedule = "none"
      BY <3>2, NamesNoAddress, OnIs DEF scheduleArg, Timely
    <3>3. CASE r.schedule = "day"
      BY <3>3, NamesNoAddress DEF scheduleArg, Timely, Match
    <3> QED
      BY <3>1, <3>2, <3>3
  <2>2. at \in FragOf(v, Packet) /\ (p \in at.on <=> p \in m.on /\ Timely(r, p))
    BY <2>1, JoinIs, OnBoth
  <2>3. ports \in PortSpec
    BY <1>3
  <2>4. a \in Seq(FragOf(v, Packet)) /\ o \in Seq(FragOf(v, Packet))
    <3>1. <<>> \in Seq(FragOf(v, Packet))
      OBVIOUS
    <3> QED
      BY <2>3, <3>1, PortArgsAre
  <2>5. ports.type # "all" => Covers(a, ports, p) /\ Covers(o, ports, p)
    BY <2>3, PortArgsCover
  <2>6. /\ emitZone(r, m, ports, portArgs, pass) = emit(r, at, ports, a, Fated(r, pass))
        /\ emitZone(r, m, ports, origPortArgs, pass) = emit(r, at, ports, o, Fated(r, pass))
    BY <1>3 DEF emitZone, Fated
  <2> HIDE DEF at, a, o
  <2>7. /\ Fate(emit(r, at, ports, a, Fated(r, pass)), p) =
             IF p \in at.on /\ Names(r, ports, p) THEN Verdict(r, p) ELSE "silent"
        /\ Fate(emit(r, at, ports, o, Fated(r, pass)), p) =
             IF p \in at.on /\ Names(r, ports, p) THEN Verdict(r, p) ELSE "silent"
    BY <2>2, <2>4, <2>5, FateOfEmit
  <2> QED
    BY <1>1, <2>2, <2>6, <2>7
<1> QED
  BY <1>2, <1>3

-----------------------------------------------------------------------------
(* A rule's lines decide about a packet if the rule speaks about it *)

\* What the lines of a rule do with a packet that the rule may speak about.
Says(r, pub, p) == IF SpeaksAbout(r, pub, p) THEN Verdict(r, p) ELSE "silent"

\* The same, clause by clause.
LEMMA SpeaksIs ==
  ASSUME NEW r \in Rule, Sound(r), NEW pub, NEW p \in Packet, NEW lands \in BOOLEAN,
         (CASE p.flow = "in"     -> IF Fam(p) = 6 THEN ~(r.zone = "docker" /\ r.ports.type = "all")
                                    ELSE Lands(r, all(pub), "host", p.port)
            [] p.flow = "fwd"    -> Lands(r, all(pub), "docker", p.port)
            [] p.flow = "out"    -> r.zone # "docker"
            [] p.flow = "egress" -> r.zone # "host" /\ Fam(p) # 6) = lands
  PROVE  SpeaksAbout(r, pub, p) <=>
           /\ r.enabled /\ IsOutbound(r) = ~FromPeer(p)
           /\ Asks(r, p) /\ lands /\ Timely(r, p)
           /\ r.source.type = "any" \/ p.peer \in r.source.of
           /\ r.source.type # "any" => isIPv6Source(r.source) = (Fam(p) = 6)
<1>1. /\ r.zone \in {"auto", "host", "docker"} /\ p.flow \in {"in", "fwd", "egress", "out"}
  BY DEF Sound, Packet, Flows
<1> DEFINE docker == \/ r.zone = "docker"
                     \/ r.zone = "auto" /\ r.ports.type = "list" /\ p.port \in all(pub)
           host == \/ r.zone = "host"
                   \/ r.zone = "auto" /\ ~(r.ports.type = "list" /\ p.port \in all(pub))
           where == CASE p.flow = "in"     -> IF Fam(p) = 6 THEN ~(r.zone = "docker" /\ r.ports.type = "all")
                                              ELSE host
                      [] p.flow = "fwd"    -> docker
                      [] p.flow = "out"    -> r.zone # "docker"
                      [] p.flow = "egress" -> r.zone # "host" /\ ~(Fam(p) = 6)
<1>2. docker = Lands(r, all(pub), "docker", p.port) /\ host = Lands(r, all(pub), "host", p.port)
  BY <1>1 DEF Lands
<1> HIDE DEF docker, host
<1>3. where = lands
  <2>1. CASE p.flow = "in"
    BY <1>2, <2>1
  <2>2. CASE p.flow = "fwd"
    BY <1>2, <2>2
  <2>3. CASE p.flow = "out"
    BY <2>3
  <2>4. CASE p.flow = "egress"
    BY <2>4
  <2> QED
    BY <1>1, <2>1, <2>2, <2>3, <2>4
<1> DEFINE asks == IF p.proto = "icmp" THEN r.proto = "both" /\ r.ports.type = "all"
                   ELSE protoMatch(r, p.proto) /\ portMatch(r.ports, p.port)
<1>4. SpeaksAbout(r, pub, p) <=>
        /\ r.enabled
        /\ IsOutbound(r) = ~FromPeer(p)
        /\ where
        /\ asks
        /\ r.source.type = "any" \/ p.peer \in r.source.of
        /\ r.source.type # "any" => isIPv6Source(r.source) = (Fam(p) = 6)
        /\ r.schedule = "day" => p.when # "night"
  BY DEF SpeaksAbout, docker, host
<1>5. asks <=> Asks(r, p)
  BY DEF Asks
<1> HIDE DEF where, asks
<1> QED
  BY <1>3, <1>4, <1>5 DEF Timely

LEMMA HostRuleFate ==
  ASSUME NEW r \in Rule, Sound(r), NEW pub, NEW p \in Packet, p.flow = "in", Fam(p) # 6
  PROVE  Fate(IF r.enabled THEN hostLines(r, all(pub)) ELSE <<>>, p) = Says(r, pub, p)
<1> DEFINE ports == portsForZone(r, all(pub), "host")
           lands == Lands(r, all(pub), "host", p.port)
           m == sourceArgs(r.source)
<1>1. SpeaksAbout(r, pub, p) <=>
           /\ r.enabled /\ IsOutbound(r) = ~FromPeer(p)
           /\ Asks(r, p) /\ lands /\ Timely(r, p)
           /\ r.source.type = "any" \/ p.peer \in r.source.of
           /\ r.source.type # "any" => isIPv6Source(r.source) = (Fam(p) = 6)
  <2>1. lands \in BOOLEAN
    BY DEF Lands
  <2> HIDE DEF lands
  <2> QED
    BY <2>1, SpeaksIs DEF lands
<1>2. FromPeer(p) /\ isIPv6Source(r.source) \in BOOLEAN /\ IsOutbound(r) \in BOOLEAN
  BY DEF FromPeer, isIPv6Source, IsOutbound
<1>3. CASE ~r.enabled \/ IsOutbound(r) \/ isIPv6Source(r.source)
  <2>1. ~SpeaksAbout(r, pub, p)
    <3>1. isIPv6Source(r.source) => r.source.type # "any"
      BY DEF isIPv6Source
    <3> QED
      BY <1>1, <1>2, <1>3, <3>1
  <2>2. (IF r.enabled THEN hostLines(r, all(pub)) ELSE <<>>) = <<>>
    BY <1>3 DEF hostLines
  <2> QED
    BY <2>1, <2>2, FateOfNone DEF Says
<1>4. CASE r.enabled /\ ~IsOutbound(r) /\ ~isIPv6Source(r.source)
  <2>1. m \in FragOf(4, Packet) /\ (p \in m.on <=> r.source.type = "any" \/ p.peer \in r.source.of)
    BY <1>2, <1>4, SourceFrags, SourceOn
  <2>2. /\ portMatch(ports, p.port) <=> portMatch(r.ports, p.port) /\ lands
        /\ portMatch(ports, p.port) => (ports.type = "all" <=> r.ports.type = "all")
        /\ ports \in PortSpec \cup {NoPorts} /\ lands \in BOOLEAN
    BY ZoneMatch, ZonePorts DEF Lands
  <2>3. (IF r.enabled THEN hostLines(r, all(pub)) ELSE <<>>) = emitZone(r, m, ports, portArgs, "ACCEPT")
    BY <1>4 DEF hostLines
  <2> HIDE DEF m, ports, lands
  <2>4. Fate(emitZone(r, m, ports, portArgs, "ACCEPT"), p) =
          IF p \in m.on /\ Timely(r, p) /\ Asks(r, p) /\ lands THEN Verdict(r, p) ELSE "silent"
    BY <2>1, <2>2, FateOfZone
  <2> QED
    BY <1>1, <1>2, <1>4, <2>1, <2>3, <2>4 DEF Says
<1> QED
  BY <1>3, <1>4

LEMMA DockerRuleFate ==
  ASSUME NEW r \in Rule, Sound(r), NEW pub, NEW p \in Packet, p.flow = "fwd"
  PROVE  /\ Fam(p) # 6 => Fate(IF r.enabled THEN dockerLines(r, all(pub)) ELSE <<>>, p) = Says(r, pub, p)
         /\ Fam(p) = 6 => Fate(IF r.enabled THEN dockerLines6(r, all(pub)) ELSE <<>>, p) = Says(r, pub, p)
<1> DEFINE ports == portsForZone(r, all(pub), "docker")
           lands == Lands(r, all(pub), "docker", p.port)
           m == sourceArgs(r.source)
           six == Fam(p) = 6
           other == IF six THEN v4Only(r.source) ELSE isIPv6Source(r.source)
           lines == IF six THEN dockerLines6(r, all(pub)) ELSE dockerLines(r, all(pub))
<1>1. SpeaksAbout(r, pub, p) <=>
           /\ r.enabled /\ IsOutbound(r) = ~FromPeer(p)
           /\ Asks(r, p) /\ lands /\ Timely(r, p)
           /\ r.source.type = "any" \/ p.peer \in r.source.of
           /\ r.source.type # "any" => isIPv6Source(r.source) = six
  <2>1. lands \in BOOLEAN
    BY DEF Lands
  <2> HIDE DEF lands
  <2> QED
    BY <2>1, SpeaksIs DEF lands
<1>2. FromPeer(p) /\ isIPv6Source(r.source) \in BOOLEAN /\ IsOutbound(r) \in BOOLEAN
  BY DEF FromPeer, isIPv6Source, IsOutbound
<1>3. (r.source.type # "any" => isIPv6Source(r.source) = six) <=> ~other
  BY DEF v4Only, isIPv6Source
<1>4. lines = IF IsOutbound(r) \/ other THEN <<>> ELSE emitZone(r, m, ports, origPortArgs, "RETURN")
  BY DEF dockerLines, dockerLines6
<1>5. CASE ~r.enabled \/ IsOutbound(r) \/ other
  <2>1. ~SpeaksAbout(r, pub, p)
    BY <1>1, <1>2, <1>3, <1>5
  <2>2. (IF r.enabled THEN lines ELSE <<>>) = <<>>
    BY <1>4, <1>5
  <2>3. Fate(IF r.enabled THEN lines ELSE <<>>, p) = Says(r, pub, p)
    BY <2>1, <2>2, FateOfNone DEF Says
  <2> QED
    BY <2>3
<1>6. CASE r.enabled /\ ~IsOutbound(r) /\ ~other
  <2>1. /\ m \in FragOf(IF six THEN 6 ELSE 4, Packet)
        /\ p \in m.on <=> r.source.type = "any" \/ p.peer \in r.source.of
    BY <1>2, <1>6, SourceFrags, SourceOn
  <2>2. /\ portMatch(ports, p.port) <=> portMatch(r.ports, p.port) /\ lands
        /\ portMatch(ports, p.port) => (ports.type = "all" <=> r.ports.type = "all")
        /\ ports \in PortSpec \cup {NoPorts} /\ lands \in BOOLEAN
    BY ZoneMatch, ZonePorts DEF Lands
  <2>3. (IF r.enabled THEN lines ELSE <<>>) = emitZone(r, m, ports, origPortArgs, "RETURN")
    BY <1>4, <1>6
  <2> HIDE DEF m, ports, lands, lines, other, six
  <2>4. Fate(emitZone(r, m, ports, origPortArgs, "RETURN"), p) =
          IF p \in m.on /\ Timely(r, p) /\ Asks(r, p) /\ lands THEN Verdict(r, p) ELSE "silent"
    BY <2>1, <2>2, FateOfZone
  <2>5. Fate(IF r.enabled THEN lines ELSE <<>>, p) = Says(r, pub, p)
    BY <1>1, <1>2, <1>3, <1>6, <2>1, <2>3, <2>4 DEF Says
  <2> QED
    BY <2>5 DEF lines, six
<1> QED
  BY <1>5, <1>6

LEMMA HostRuleFate6 ==
  ASSUME NEW r \in Rule, Sound(r), NEW pub, NEW p \in Packet, p.flow = "in", Fam(p) = 6
  PROVE  Fate(IF r.enabled THEN hostLines6(r) ELSE <<>>, p) = Says(r, pub, p)
<1> DEFINE ports == portsForZone6(r)
           lands == ~(r.zone = "docker" /\ r.ports.type = "all")
           m == sourceArgs(r.source)
<1>1. SpeaksAbout(r, pub, p) <=>
           /\ r.enabled /\ IsOutbound(r) = ~FromPeer(p)
           /\ Asks(r, p) /\ lands /\ Timely(r, p)
           /\ r.source.type = "any" \/ p.peer \in r.source.of
           /\ r.source.type # "any" => isIPv6Source(r.source) = (Fam(p) = 6)
  <2>1. lands \in BOOLEAN
    OBVIOUS
  <2> HIDE DEF lands
  <2> QED
    BY <2>1, SpeaksIs DEF lands
<1>2. FromPeer(p) /\ isIPv6Source(r.source) \in BOOLEAN /\ IsOutbound(r) \in BOOLEAN
  BY DEF FromPeer, isIPv6Source, IsOutbound
<1>3. (r.source.type # "any" => isIPv6Source(r.source) = (Fam(p) = 6)) <=> ~v4Only(r.source)
  BY DEF v4Only, isIPv6Source
<1>4. CASE ~r.enabled \/ IsOutbound(r) \/ v4Only(r.source)
  <2>1. ~SpeaksAbout(r, pub, p)
    BY <1>1, <1>2, <1>3, <1>4
  <2>2. (IF r.enabled THEN hostLines6(r) ELSE <<>>) = <<>>
    BY <1>4 DEF hostLines6
  <2> QED
    BY <2>1, <2>2, FateOfNone DEF Says
<1>5. CASE r.enabled /\ ~IsOutbound(r) /\ ~v4Only(r.source)
  <2>1. m \in FragOf(6, Packet) /\ (p \in m.on <=> r.source.type = "any" \/ p.peer \in r.source.of)
    BY <1>2, <1>5, SourceFrags, SourceOn
  <2>2. /\ portMatch(ports, p.port) <=> portMatch(r.ports, p.port) /\ lands
        /\ portMatch(ports, p.port) => (ports.type = "all" <=> r.ports.type = "all")
        /\ ports \in PortSpec \cup {NoPorts} /\ lands \in BOOLEAN
    BY NoPortsMatch, ZonePorts DEF portsForZone6
  <2>3. (IF r.enabled THEN hostLines6(r) ELSE <<>>) = emitZone(r, m, ports, portArgs, "RETURN")
    BY <1>5 DEF hostLines6
  <2> HIDE DEF m, ports, lands
  <2>4. Fate(emitZone(r, m, ports, portArgs, "RETURN"), p) =
          IF p \in m.on /\ Timely(r, p) /\ Asks(r, p) /\ lands THEN Verdict(r, p) ELSE "silent"
    BY <2>1, <2>2, FateOfZone
  <2> QED
    BY <1>1, <1>2, <1>3, <1>5, <2>1, <2>3, <2>4 DEF Says
<1> QED
  BY <1>4, <1>5

\* The zone of the chain that the packets of a flow leave through.
LEMMA OutRuleFate ==
  ASSUME NEW r \in Rule, Sound(r), NEW pub, NEW p \in Packet,
         p.flow = "out" \/ (p.flow = "egress" /\ Fam(p) # 6),
         NEW sent \in BOOLEAN,
         sent = (IsOutbound(r) /\ r.zone # IF p.flow = "out" THEN "docker" ELSE "host")
  PROVE  /\ Fam(p) # 6 => Fate(IF r.enabled THEN IF sent THEN v4Lines(r) ELSE <<>> ELSE <<>>, p)
                            = Says(r, pub, p)
         /\ Fam(p) = 6 => Fate(IF r.enabled THEN IF sent THEN outboundLines6(r) ELSE <<>> ELSE <<>>, p)
                            = Says(r, pub, p)
<1> DEFINE six == Fam(p) = 6
           lands == r.zone # IF p.flow = "out" THEN "docker" ELSE "host"
           m == peerArgs(r.source)
           other == IF six THEN v4Only(r.source) ELSE isIPv6Source(r.source)
           lines == IF six THEN outboundLines6(r) ELSE v4Lines(r)
           fate == Fate(IF r.enabled THEN IF sent THEN lines ELSE <<>> ELSE <<>>, p)
<1>0. r.zone \in {"auto", "host", "docker"} /\ p.flow \in {"out", "egress"}
  BY DEF Sound
<1>1. SpeaksAbout(r, pub, p) <=>
           /\ r.enabled /\ IsOutbound(r) = ~FromPeer(p)
           /\ Asks(r, p) /\ lands /\ Timely(r, p)
           /\ r.source.type = "any" \/ p.peer \in r.source.of
           /\ r.source.type # "any" => isIPv6Source(r.source) = six
  <2>1. CASE p.flow = "out"
    <3> DEFINE l == r.zone # "docker"
    <3>1. l \in BOOLEAN
      OBVIOUS
    <3>2. l = lands
      BY <1>0, <2>1
    <3> HIDE DEF l, lands
    <3> QED
      BY <2>1, <3>1, <3>2, SpeaksIs DEF l
  <2>2. CASE p.flow = "egress"
    <3> DEFINE l == r.zone # "host" /\ Fam(p) # 6
    <3>1. l \in BOOLEAN
      OBVIOUS
    <3>2. l = lands
      BY <1>0, <2>2
    <3> HIDE DEF l, lands
    <3> QED
      BY <2>2, <3>1, <3>2, SpeaksIs DEF l
  <2> QED
    BY <1>0, <2>1, <2>2
<1>2. ~FromPeer(p) /\ isIPv6Source(r.source) \in BOOLEAN /\ IsOutbound(r) \in BOOLEAN
  BY <1>0 DEF FromPeer, isIPv6Source, IsOutbound
<1>3. (r.source.type # "any" => isIPv6Source(r.source) = six) <=> ~other
  BY DEF v4Only, isIPv6Source
<1>4. lines = IF other THEN <<>> ELSE emitZone(r, m, r.ports, portArgs, "ACCEPT")
  BY DEF v4Lines, outboundLines, outboundLines6
<1>5. CASE ~r.enabled \/ ~sent \/ other
  <2>1. ~SpeaksAbout(r, pub, p)
    BY <1>1, <1>2, <1>3, <1>5
  <2>2. (IF r.enabled THEN IF sent THEN lines ELSE <<>> ELSE <<>>) = <<>>
    BY <1>4, <1>5
  <2>3. fate = Says(r, pub, p)
    BY <2>1, <2>2, FateOfNone DEF Says
  <2> QED
    BY <2>3
<1>6. CASE r.enabled /\ sent /\ ~other
  <2>1. /\ m \in FragOf(IF six THEN 6 ELSE 4, Packet)
        /\ p \in m.on <=> r.source.type = "any" \/ p.peer \in r.source.of
    BY <1>2, <1>6, SourceFrags, SourceOn
  <2>2. r.ports \in PortSpec \cup {NoPorts} /\ TRUE \in BOOLEAN
    BY DEF Rule
  <2>3. (IF r.enabled THEN IF sent THEN lines ELSE <<>> ELSE <<>>) = emitZone(r, m, r.ports, portArgs, "ACCEPT")
    BY <1>4, <1>6
  <2> HIDE DEF m, lines, other, six
  <2>4. Fate(emitZone(r, m, r.ports, portArgs, "ACCEPT"), p) =
          IF p \in m.on /\ Timely(r, p) /\ Asks(r, p) /\ TRUE THEN Verdict(r, p) ELSE "silent"
    BY <2>1, <2>2, FateOfZone
  <2>5. fate = Says(r, pub, p)
    BY <1>1, <1>2, <1>3, <1>6, <2>1, <2>3, <2>4 DEF Says
  <2> QED
    BY <2>5 DEF lines, six
<1> QED
  BY <1>5, <1>6

-----------------------------------------------------------------------------
(* The rules in their order *)

LEMMA RankGrows ==
  ASSUME NEW S, IsFiniteSet(S), NEW R,
         \A x \in S : <<x, x>> \notin R,
         \A x, y, z \in S : <<x, y>> \in R /\ <<y, z>> \in R => <<x, z>> \in R
  PROVE  /\ \A x \in S : Cardinality(BeforeIn(S, R, x)) \in 0 .. Cardinality(S) - 1
         /\ \A x, y \in S : <<x, y>> \in R =>
              Cardinality(BeforeIn(S, R, x)) < Cardinality(BeforeIn(S, R, y))
<1> DEFINE below(x) == BeforeIn(S, R, x)
<1>1. Cardinality(S) \in Nat
  BY FS_CardinalityType
<1>2. ASSUME NEW x \in S PROVE IsFiniteSet(below(x)) /\ Cardinality(below(x)) \in 0 .. Cardinality(S) - 1
  <2>1. /\ IsFiniteSet(below(x)) /\ Cardinality(below(x)) <= Cardinality(S)
        /\ Cardinality(S) = Cardinality(below(x)) => S = below(x)
    BY FS_Subset DEF BeforeIn
  <2>2. Cardinality(below(x)) \in Nat
    BY <2>1, FS_CardinalityType
  <2>3. x \notin below(x)
    BY DEF BeforeIn
  <2> HIDE DEF below
  <2> QED
    BY <1>1, <2>1, <2>2, <2>3
<1>3. ASSUME NEW x \in S, NEW y \in S, <<x, y>> \in R
      PROVE  Cardinality(below(x)) < Cardinality(below(y))
  <2>1. below(x) \in SUBSET below(y) /\ x \in below(y) /\ x \notin below(x)
    BY <1>3 DEF BeforeIn
  <2> HIDE DEF below
  <2>2. Cardinality(below(x)) <= Cardinality(below(y)) /\ Cardinality(below(x)) # Cardinality(below(y))
    BY <1>2, <2>1, FS_Subset
  <2> QED
    BY <1>2, <1>1, <2>2
<1> QED
  BY <1>2, <1>3

Before(rules, i, j) ==
  \/ rules[i].order < rules[j].order
  \/ rules[i].order = rules[j].order /\ i < j

Rank(rules, i) == Cardinality({j \in DOMAIN rules : Before(rules, j, i)})

\* sorted moves each rule to a place of its own, in the order of Before.
Places(rules, at) ==
  /\ at \in [DOMAIN rules -> DOMAIN rules]
  /\ \A i \in DOMAIN rules : at[i] = Rank(rules, i) + 1
  /\ \A i \in DOMAIN rules : sorted(rules)[at[i]] = rules[i]
  /\ \A i, j \in DOMAIN rules : Before(rules, i, j) => at[i] < at[j]
  /\ \A k \in DOMAIN rules : \E i \in DOMAIN rules : at[i] = k

LEMMA SortedPlaces ==
  ASSUME NEW X, NEW rules \in Seq(X), \A i \in DOMAIN rules : rules[i].order \in Int
  PROVE  \E at : Places(rules, at)
<1> DEFINE D == DOMAIN rules
           before(i, j) == Before(rules, i, j)
           R == {ij \in D \X D : before(ij[1], ij[2])}
           rank(i) == Cardinality(BeforeIn(D, R, i))
           at == [i \in D |-> rank(i) + 1]
<1>1. Len(rules) \in Nat /\ D = 1 .. Len(rules)
  OBVIOUS
<1>2. IsFiniteSet(D) /\ Cardinality(D) = Len(rules)
  <2> HIDE DEF D
  <2>1. 1 \in Int /\ Len(rules) \in Int /\ (1 > Len(rules) => Len(rules) = 0)
        /\ Len(rules) - 1 + 1 = Len(rules)
    BY <1>1
  <2>2. IsFiniteSet(1 .. Len(rules))
        /\ Cardinality(1 .. Len(rules)) = IF 1 > Len(rules) THEN 0 ELSE Len(rules) - 1 + 1
    BY <2>1, FS_Interval
  <2> QED
    BY <1>1, <2>1, <2>2
<1>3. \A i, j \in D : <<i, j>> \in R <=> before(i, j)
  OBVIOUS
<1>4. /\ \A i \in D : ~before(i, i)
      /\ \A i, j \in D : i # j => before(i, j) \/ before(j, i)
      /\ \A i, j, m \in D : before(i, j) /\ before(j, m) => before(i, m)
  BY <1>1 DEF Before
<1> HIDE DEF R, D, before
<1>5. /\ \A i \in D : <<i, i>> \notin R
      /\ \A i, j \in D : i # j => <<i, j>> \in R \/ <<j, i>> \in R
      /\ \A i, j, m \in D : <<i, j>> \in R /\ <<j, m>> \in R => <<i, m>> \in R
  BY <1>3, <1>4
<1>6. \A i \in D : BeforeIn(D, R, i) = {j \in D : before(j, i)}
  BY <1>3 DEF BeforeIn
<1>7. \A k \in D : \E i \in D : rank(i) = k - 1
  BY ZenonT(60), <1>1, <1>2, <1>5, Ranked
<1>8. /\ \A i \in D : rank(i) \in 0 .. Len(rules) - 1
      /\ \A i, j \in D : before(i, j) => rank(i) < rank(j)
  BY <1>2, <1>3, <1>5, RankGrows
<1>9. sorted(rules) = [k \in D |-> rules[CHOOSE i \in D : Cardinality({j \in D : before(j, i)}) = k - 1]]
  BY DEF sorted, D, before, Before
<1>10. ASSUME NEW k \in D, NEW i \in D, rank(i) = k - 1
       PROVE  sorted(rules)[k] = rules[i]
  <2> DEFINE m == CHOOSE j \in D : Cardinality({l \in D : before(l, j)}) = k - 1
  <2>1. \E j \in D : Cardinality({l \in D : before(l, j)}) = k - 1
    BY <1>6, <1>10
  <2>2. m \in D /\ Cardinality({l \in D : before(l, m)}) = k - 1
    <3> HIDE DEF D, before
    <3> QED
      BY <2>1
  <2>3. sorted(rules)[k] = rules[m]
    BY <1>9
  <2> HIDE DEF m
  <2>4. rank(m) = rank(i)
    BY <1>6, <1>10, <2>2
  <2> HIDE DEF rank
  <2>5. m = i
    <3>1. rank(m) \in Int /\ rank(i) \in Int /\ m \in D
      BY <1>1, <1>8, <2>2
    <3>2. ~before(m, i)
      <4>1. before(m, i) => rank(m) < rank(i)
        BY <1>8, <3>1
      <4> QED
        BY <2>4, <3>1, <4>1
    <3>3. ~before(i, m)
      <4>1. before(i, m) => rank(i) < rank(m)
        BY <1>8, <3>1
      <4> QED
        BY <2>4, <3>1, <4>1
    <3> QED
      BY <1>4, <3>1, <3>2, <3>3
  <2> QED
    BY <2>3, <2>5
<1> HIDE DEF rank
<1>11. at \in [D -> D] /\ \A i \in D : at[i] = rank(i) + 1 /\ rank(i) = at[i] - 1
  <2>1. \A i \in D : rank(i) + 1 \in D /\ rank(i) = (rank(i) + 1) - 1
    BY <1>1, <1>8
  <2> QED
    BY <2>1
<1> HIDE DEF at
<1>12. \A i \in D : sorted(rules)[at[i]] = rules[i]
  BY <1>10, <1>11
<1>13. \A i, j \in D : before(i, j) => at[i] < at[j]
  BY <1>1, <1>8, <1>11
<1>14. ASSUME NEW k \in D PROVE \E i \in D : at[i] = k
  <2>1. PICK i \in D : rank(i) = k - 1
    BY <1>7
  <2>2. at[i] = k
    BY <1>1, <1>11, <2>1
  <2> QED
    BY <2>2
<1>15. \A i \in D : at[i] = Rank(rules, i) + 1
  BY <1>6, <1>11 DEF Rank, rank, D, before
<1> QED
  BY <1>11, <1>12, <1>13, <1>14, <1>15 DEF Places, D, before

\* The rule of the lowest order among those of a set.
Foremost(rs, A, i) ==
  i \in A /\ \A j \in A : rs.rules[i].order < rs.rules[j].order
                          \/ (rs.rules[i].order = rs.rules[j].order /\ i <= j)

LEMMA ForemostIs ==
  ASSUME NEW rs, Compilable(rs), NEW A \in SUBSET DOMAIN rs.rules, A # {}
  PROVE  /\ \E i : Foremost(rs, A, i)
         /\ \A i, j : Foremost(rs, A, i) /\ Foremost(rs, A, j) => i = j
<1> DEFINE rules == rs.rules
<1>1. rules \in Seq(Rule) /\ DOMAIN rules \subseteq Nat
  BY DEF Compilable
<1>2. \A i \in DOMAIN rules : rules[i].order \in Int
  <2>1. \A r \in Rule : r.order \in Int
    BY DEF Rule
  <2> QED
    BY <1>1, <2>1
<1>3. PICK at : Places(rules, at)
  BY <1>1, <1>2, SortedPlaces
<1> DEFINE S == {at[i] : i \in A}
<1> HIDE DEF rules
<1>4. A \subseteq DOMAIN rules /\ \A i \in A : at[i] \in DOMAIN rules
  BY <1>3 DEF Places, rules
<1>5. S \in SUBSET Nat /\ S # {}
  BY <1>1, <1>4
<1>6. PICK m \in S : \A n \in S : m <= n
  <2> HIDE DEF S
  <2> QED
    BY <1>5, Least
<1>7. PICK i \in A : at[i] = m
  OBVIOUS
<1>8. \A j \in A : at[i] <= at[j]
  BY <1>6, <1>7
<1>9. ASSUME NEW j \in A PROVE ~Before(rules, j, i)
  <2>1. at[i] \in Int /\ at[j] \in Int
    BY <1>1, <1>4
  <2> QED
    BY <1>3, <1>4, <1>8, <2>1 DEF Places
<1>10. Foremost(rs, A, i)
  <2>1. ASSUME NEW j \in A
        PROVE  rules[i].order < rules[j].order \/ (rules[i].order = rules[j].order /\ i <= j)
    <3>1. rules[i].order \in Int /\ rules[j].order \in Int /\ i \in Int /\ j \in Int
      BY <1>1, <1>2, <1>4
    <3> QED
      BY <1>9, <3>1 DEF Before
  <2> QED
    BY <2>1 DEF Foremost, rules
<1>11. ASSUME NEW x, NEW y, Foremost(rs, A, x), Foremost(rs, A, y) PROVE x = y
  <2>1. /\ x \in A /\ y \in A
        /\ rules[x].order < rules[y].order \/ (rules[x].order = rules[y].order /\ x <= y)
        /\ rules[y].order < rules[x].order \/ (rules[y].order = rules[x].order /\ y <= x)
    BY <1>11 DEF Foremost, rules
  <2>2. rules[x].order \in Int /\ rules[y].order \in Int /\ x \in Int /\ y \in Int
    BY <1>1, <1>2, <1>4, <2>1
  <2> QED
    BY <2>1, <2>2
<1> QED
  BY <1>10, <1>11

-----------------------------------------------------------------------------
(* The rules of a rule set, in one chain *)

\* What the lemmas ask of a rule set; every configuration's is like this.
Ruly(rs) ==
  /\ Compilable(rs)
  /\ rs.policy \in {"deny", "allow"}
  /\ \A i \in DOMAIN rs.rules : Sound(rs.rules[i])

LEMMA ConfigurationsRuly ==
  ASSUME NEW k \in Configuration
  PROVE  Ruly(RulesOf[k])
<1> DEFINE rs == RuleSets[k.name]
           list(r) == ListPorts(sortedPorts(all(Published[r.container])))
           bind(r) == IF r.container \notin k.run \/ all(Published[r.container]) = {} THEN r
                      ELSE [r EXCEPT !.ports = list(r)]
<1>1. k.name \in DOMAIN RuleSets /\ Validate(rs)
  BY DEF Configuration, Valid
<1>2. rs \in RuleSet
  BY SMTT(30), <1>1, RuleSetsAssumption
<1>3. RulesOf[k] = [rs EXCEPT !.rules = [i \in DOMAIN rs.rules |-> bind(rs.rules[i])]]
  <2>1. RulesOf = [j \in Configuration |-> Resolved(j.name, j.run)]
    BY TableIs DEF RulesOf
  <2>2. RulesOf[k] = Resolved(k.name, k.run)
    BY <2>1
  <2> QED
    BY <2>2 DEF Resolved
<1> HIDE DEF list
<1>4. ASSUME NEW r \in Rule, Sound(r)
      PROVE  Sound(bind(r))
  BY <1>4 DEF Rule, Sound
<1>5. \A i \in DOMAIN rs.rules : Sound(rs.rules[i])
  BY <1>1 DEF Validate, validateRule, Sound
<1>6. rs.policy \in {"deny", "allow"}
  BY <1>1 DEF Validate
<1> HIDE DEF bind, rs
<1>7. RulesOf[k].rules = [i \in DOMAIN rs.rules |-> bind(rs.rules[i])] /\ RulesOf[k].policy = rs.policy
  BY <1>2, <1>3 DEF RuleSet
<1>8. \A i \in DOMAIN rs.rules : rs.rules[i] \in Rule
  BY <1>2 DEF RuleSet
<1> QED
  BY <1>4, <1>5, <1>6, <1>7, <1>8, ConfigurationsCompile DEF Ruly

About(rs, pub, p) == {i \in DOMAIN rs.rules : SpeaksAbout(rs.rules[i], pub, p)}

\* The verdict of the foremost rule that speaks about p.
RulesSay(rs, pub, p) ==
  IF About(rs, pub, p) = {} THEN "silent"
  ELSE Verdict(rs.rules[CHOOSE i \in About(rs, pub, p) : Foremost(rs, About(rs, pub, p), i)], p)

LEMMA RulesSayIs ==
  ASSUME NEW rs, Compilable(rs), NEW pub, NEW p, NEW i, Foremost(rs, About(rs, pub, p), i)
  PROVE  RulesSay(rs, pub, p) = Verdict(rs.rules[i], p)
<1> DEFINE A == About(rs, pub, p)
           f == CHOOSE j \in A : Foremost(rs, A, j)
<1>1. A \in SUBSET DOMAIN rs.rules /\ i \in A
  BY DEF About, Foremost
<1> HIDE DEF A
<1>2. Foremost(rs, A, f)
  BY <1>1 DEF A
<1>3. f = i
  <2> HIDE DEF f
  <2> QED
    BY <1>1, <1>2, ForemostIs DEF A
<1> QED
  BY <1>1, <1>3 DEF RulesSay, A

\* Sorted, the lines of the rules give the verdict of the foremost one.
LEMMA RulesFate ==
  ASSUME NEW rs, Ruly(rs), NEW pub, NEW p \in Packet, NEW X,
         NEW ss \in [DOMAIN sorted(rs.rules) -> Seq(X)],
         \A k \in DOMAIN sorted(rs.rules) : Fate(ss[k], p) = Says(sorted(rs.rules)[k], pub, p)
  PROVE  Fate(Concat(ss), p) = RulesSay(rs, pub, p)
<1> DEFINE rules == rs.rules
           D == DOMAIN rules
           A == About(rs, pub, p)
<1>1. rules \in Seq(Rule) /\ Compilable(rs)
  BY DEF Ruly, Compilable
<1>2. \A i \in D : rules[i].order \in Int
  <2>1. \A r \in Rule : r.order \in Int
    BY DEF Rule
  <2> QED
    BY <1>1, <2>1
<1>3. PICK at : Places(rules, at)
  BY <1>1, <1>2, SortedPlaces
<1>4. sorted(rules) \in Seq(Rule) /\ DOMAIN sorted(rules) = D /\ D \subseteq Nat
  <2>1. sorted(rules) \in Seq(Rule) /\ Len(sorted(rules)) = Len(rules)
    BY <1>1, SortedRules
  <2> QED
    BY <1>1, <2>1
<1>5. ss \in Seq(Seq(X)) /\ DOMAIN ss = D
  BY <1>4, SameLength
<1>12. \A k \in D : k \in Int
  BY <1>4
<1> HIDE DEF D
<1>6. /\ \A i \in D : at[i] \in D /\ Fate(ss[at[i]], p) = Says(rules[i], pub, p)
      /\ \A k \in D : \E i \in D : at[i] = k
  BY <1>3, <1>4 DEF Places, D
<1>7. \A i \in D : i \in A <=> SpeaksAbout(rules[i], pub, p)
  BY DEF About, D
<1>8. \A i \in D : Verdict(rules[i], p) # "silent"
  BY DEF Verdict
<1>9. \A i \in D : i \notin A => Fate(ss[at[i]], p) = "silent"
  BY <1>6, <1>7 DEF Says
<1>10. CASE A = {}
  <2>1. \A k \in D : Fate(ss[k], p) = "silent"
    BY <1>6, <1>9, <1>10
  <2> QED
    BY <1>5, <1>10, <2>1, FateOfFirst DEF RulesSay
<1>11. CASE A # {}
  <2>1. A \in SUBSET DOMAIN rs.rules
    BY DEF About
  <2> HIDE DEF A
  <2>2. PICK f : Foremost(rs, A, f)
    BY <1>1, <1>11, <2>1, ForemostIs
  <2>3. f \in A /\ f \in D
    BY <2>1, <2>2 DEF Foremost, D
  <2>4. Fate(ss[at[f]], p) = Verdict(rules[f], p) /\ Fate(ss[at[f]], p) # "silent" /\ at[f] \in D
    BY <1>6, <1>7, <1>8, <2>3 DEF Says
  <2>5. ASSUME NEW k \in D, k < at[f] PROVE Fate(ss[k], p) = "silent"
    <3>1. PICK i \in D : at[i] = k
      BY <1>6
    <3>2. ~Before(rules, f, i)
      <4>1. at[f] \in Int /\ at[i] \in Int
        BY <1>12, <2>4, <3>1
      <4> QED
        BY <1>3, <2>3, <2>5, <3>1, <4>1 DEF Places, D
    <3>3. i # f
      <4>1. at[f] \in Int
        BY <1>12, <2>4
      <4> QED
        BY <2>5, <3>1, <4>1
    <3>4. i \notin A
      <4>1. i \in Int /\ f \in Int /\ rules[i].order \in Int /\ rules[f].order \in Int
        BY <1>2, <1>12, <2>3 DEF D
      <4> QED
        BY <2>2, <3>2, <3>3, <4>1 DEF Foremost, Before
    <3> QED
      BY <1>9, <3>1, <3>4
  <2>6. Fate(Concat(ss), p) = Fate(ss[at[f]], p)
    BY <1>5, <2>4, <2>5, FateOfFirst
  <2>7. RulesSay(rs, pub, p) = Verdict(rules[f], p)
    BY <1>1, <2>2, RulesSayIs DEF A
  <2> QED
    BY <2>4, <2>6, <2>7
<1> QED
  BY <1>10, <1>11

\* What the rules of a rule set do in the chain their packets walk through.
LEMMA PartsSay ==
  ASSUME NEW rs, Ruly(rs), NEW pub, NEW p \in Packet
  PROVE  LET said == RulesSay(rs, pub, p)
         IN  /\ p.flow = "in" /\ Fam(p) # 6 => Fate(HostPart(rs, all(pub)), p) = said
             /\ p.flow = "in" /\ Fam(p) = 6 => Fate(HostPart6(rs), p) = said
             /\ p.flow = "fwd" /\ Fam(p) # 6 => Fate(DockerPart(rs, all(pub)), p) = said
             /\ p.flow = "fwd" /\ Fam(p) = 6 => Fate(DockerPart6(rs, all(pub)), p) = said
             /\ p.flow = "out" /\ Fam(p) # 6 => Fate(OutPart(rs, "host"), p) = said
             /\ p.flow = "out" /\ Fam(p) = 6 => Fate(OutPart6(rs, "host"), p) = said
             /\ p.flow = "egress" /\ Fam(p) # 6 => Fate(OutPart(rs, "docker"), p) = said
<1> DEFINE rl == sorted(rs.rules)
           D == DOMAIN rl
           P == all(pub)
           lines4 == Seq(LineOf(4, Packet))
           lines6 == Seq(LineOf(6, Packet))
<1>1. rl \in Seq(Rule) /\ Compilable(rs)
  BY SortedRules DEF Ruly
<1>2. \A i \in D : rl[i] \in Rule
  BY <1>1
<1>3. \A i \in D : Sound(rl[i])
  <2>1. rs.rules \in Seq(Rule) /\ \A i \in DOMAIN rs.rules : rs.rules[i].order \in Int
    <3>1. \A r \in Rule : r.order \in Int
      BY DEF Rule
    <3>2. rs.rules \in Seq(Rule)
      BY <1>1 DEF Compilable
    <3> QED
      BY <3>1, <3>2
  <2>2. PICK at : Places(rs.rules, at)
    BY <2>1, SortedPlaces
  <2>3. Len(rl) = Len(rs.rules)
    BY <1>1, SortedRules
  <2>4. DOMAIN rl = DOMAIN rs.rules
    BY <1>1, <2>1, <2>3
  <2> QED
    BY <2>2, <2>4 DEF Places, Ruly
<1>4. <<>> \in lines4 /\ <<>> \in lines6
  OBVIOUS
<1> DEFINE out(z) == [i \in D |-> IF rl[i].enabled
                              THEN IF IsOutbound(rl[i]) /\ rl[i].zone \in {"auto", z}
                                   THEN v4Lines(rl[i]) ELSE <<>> ELSE <<>>]
           f1 == [i \in D |-> IF rl[i].enabled THEN hostLines(rl[i], P) ELSE <<>>]
           f2 == [i \in D |-> IF rl[i].enabled THEN dockerLines(rl[i], P) ELSE <<>>]
           f3 == out("host")
           f4 == [i \in D |-> IF rl[i].enabled THEN hostLines6(rl[i]) ELSE <<>>]
           f5 == [i \in D |-> IF rl[i].enabled THEN dockerLines6(rl[i], P) ELSE <<>>]
           f6 == [i \in D |-> IF rl[i].enabled
                              THEN IF IsOutbound(rl[i]) /\ rl[i].zone \in {"auto", "host"}
                                   THEN outboundLines6(rl[i]) ELSE <<>> ELSE <<>>]
           f7 == out("docker")
<1>5. /\ HostPart(rs, P) = Concat(f1) /\ DockerPart(rs, P) = Concat(f2)
      /\ OutPart(rs, "host") = Concat(f3) /\ HostPart6(rs) = Concat(f4)
      /\ DockerPart6(rs, P) = Concat(f5) /\ OutPart6(rs, "host") = Concat(f6)
      /\ OutPart(rs, "docker") = Concat(f7)
  BY DEF ruleLines, HostPart, DockerPart, OutPart, HostPart6, DockerPart6, OutPart6
<1> DEFINE E == sorted(rs.rules)
<1>6. E = rl
  OBVIOUS
<1> HIDE DEF rl, E, P, lines4, lines6
<1>7. /\ f1 \in [D -> lines4] /\ f2 \in [D -> lines4] /\ f3 \in [D -> lines4]
      /\ f4 \in [D -> lines6] /\ f5 \in [D -> lines6] /\ f6 \in [D -> lines6]
      /\ f7 \in [D -> lines4]
  BY <1>2, <1>4, RuleLinesFit DEF lines4, lines6
<1>8. ASSUME NEW i \in D
      PROVE  LET said == Says(rl[i], pub, p)
             IN  /\ p.flow = "in" /\ Fam(p) # 6 => Fate(f1[i], p) = said
                 /\ p.flow = "in" /\ Fam(p) = 6 => Fate(f4[i], p) = said
                 /\ p.flow = "fwd" /\ Fam(p) # 6 => Fate(f2[i], p) = said
                 /\ p.flow = "fwd" /\ Fam(p) = 6 => Fate(f5[i], p) = said
                 /\ p.flow = "out" /\ Fam(p) # 6 => Fate(f3[i], p) = said
                 /\ p.flow = "out" /\ Fam(p) = 6 => Fate(f6[i], p) = said
                 /\ p.flow = "egress" /\ Fam(p) # 6 => Fate(f7[i], p) = said
  <2>1. rl[i] \in Rule /\ Sound(rl[i])
    BY <1>2, <1>3, <1>8
  <2> HIDE DEF D
  <2>2. p.flow = "in" /\ Fam(p) # 6 => Fate(f1[i], p) = Says(rl[i], pub, p)
    BY <2>1, HostRuleFate DEF P
  <2>3. p.flow = "in" /\ Fam(p) = 6 => Fate(f4[i], p) = Says(rl[i], pub, p)
    BY <2>1, HostRuleFate6
  <2>4. /\ p.flow = "fwd" /\ Fam(p) # 6 => Fate(f2[i], p) = Says(rl[i], pub, p)
        /\ p.flow = "fwd" /\ Fam(p) = 6 => Fate(f5[i], p) = Says(rl[i], pub, p)
    BY <2>1, DockerRuleFate DEF P
  <2> DEFINE sent(z) == IsOutbound(rl[i]) /\ rl[i].zone \in {"auto", z}
             host == sent("host")
             docker == sent("docker")
  <2>5. host \in BOOLEAN /\ docker \in BOOLEAN
    BY DEF IsOutbound
  <2>6. ASSUME p.flow = "out"
        PROVE  /\ Fam(p) # 6 => Fate(f3[i], p) = Says(rl[i], pub, p)
               /\ Fam(p) = 6 => Fate(f6[i], p) = Says(rl[i], pub, p)
    <3>1. host = (IsOutbound(rl[i]) /\ rl[i].zone # IF p.flow = "out" THEN "docker" ELSE "host")
      BY <2>1, <2>6 DEF Sound
    <3>2. /\ f3[i] = IF rl[i].enabled THEN IF host THEN v4Lines(rl[i]) ELSE <<>> ELSE <<>>
          /\ f6[i] = IF rl[i].enabled THEN IF host THEN outboundLines6(rl[i]) ELSE <<>> ELSE <<>>
      OBVIOUS
    <3> HIDE DEF f3, f6, host
    <3> QED
      BY ZenonT(60), <2>1, <2>5, <2>6, <3>1, <3>2, OutRuleFate
  <2>7. ASSUME p.flow = "egress", Fam(p) # 6
        PROVE  Fate(f7[i], p) = Says(rl[i], pub, p)
    <3>1. docker = (IsOutbound(rl[i]) /\ rl[i].zone # IF p.flow = "out" THEN "docker" ELSE "host")
      BY <2>1, <2>7 DEF Sound
    <3>2. f7[i] = IF rl[i].enabled THEN IF docker THEN v4Lines(rl[i]) ELSE <<>> ELSE <<>>
      OBVIOUS
    <3> HIDE DEF f7, docker
    <3> QED
      BY ZenonT(60), <2>1, <2>5, <2>7, <3>1, <3>2, OutRuleFate
  <2> QED
    BY <2>2, <2>3, <2>4, <2>6, <2>7
<1> HIDE DEF f1, f2, f3, f4, f5, f6, f7
<1>9. /\ f1 \in [DOMAIN E -> lines4] /\ f2 \in [DOMAIN E -> lines4] /\ f3 \in [DOMAIN E -> lines4]
      /\ f4 \in [DOMAIN E -> lines6] /\ f5 \in [DOMAIN E -> lines6] /\ f6 \in [DOMAIN E -> lines6]
      /\ f7 \in [DOMAIN E -> lines4]
  BY <1>6, <1>7
<1>10. /\ p.flow = "in" /\ Fam(p) # 6 => Fate(Concat(f1), p) = RulesSay(rs, pub, p)
       /\ p.flow = "in" /\ Fam(p) = 6 => Fate(Concat(f4), p) = RulesSay(rs, pub, p)
       /\ p.flow = "fwd" /\ Fam(p) # 6 => Fate(Concat(f2), p) = RulesSay(rs, pub, p)
       /\ p.flow = "fwd" /\ Fam(p) = 6 => Fate(Concat(f5), p) = RulesSay(rs, pub, p)
  BY <1>6, <1>8, <1>9, RulesFate DEF lines4, lines6, E
<1>11. /\ p.flow = "out" /\ Fam(p) # 6 => Fate(Concat(f3), p) = RulesSay(rs, pub, p)
       /\ p.flow = "out" /\ Fam(p) = 6 => Fate(Concat(f6), p) = RulesSay(rs, pub, p)
       /\ p.flow = "egress" /\ Fam(p) # 6 => Fate(Concat(f7), p) = RulesSay(rs, pub, p)
  BY <1>6, <1>8, <1>9, RulesFate DEF lines4, lines6, E
<1> QED
  BY <1>5, <1>10, <1>11 DEF P

\* Denied, in the same words.
LEMMA DeniedIs ==
  ASSUME NEW rs, Ruly(rs), NEW pub, NEW p \in Packet
  PROVE  Denied(rs, pub, p) <=>
           /\ ~Exempt(rs, p)
           /\ IF RulesSay(rs, pub, p) # "silent" THEN RulesSay(rs, pub, p) = "drop"
              ELSE /\ FromPeer(p)
                   /\ \/ rs.policy = "deny"
                      \/ p.flow = "in" /\ Fam(p) = 6 /\ p.proto = "tcp" /\ p.port \in rs.v6drop
<1> DEFINE about == {i \in DOMAIN rs.rules : SpeaksAbout(rs.rules[i], pub, p)}
           order(i) == rs.rules[i].order
           f == CHOOSE i \in about : \A j \in about :
                  order(i) < order(j) \/ (order(i) = order(j) /\ i <= j)
<1>1. about = About(rs, pub, p) /\ Compilable(rs)
  BY DEF About, Ruly
<1>2. CASE about = {}
  <2>1. RulesSay(rs, pub, p) = "silent"
    BY <1>1, <1>2 DEF RulesSay
  <2> QED
    BY <1>2, <2>1 DEF Denied
<1>3. CASE about # {}
  <2>1. about \in SUBSET DOMAIN rs.rules
    OBVIOUS
  <2>2. \E i \in about : \A j \in about : order(i) < order(j) \/ (order(i) = order(j) /\ i <= j)
    <3> HIDE DEF about
    <3>1. PICK i : Foremost(rs, about, i)
      BY <1>1, <1>3, <2>1, ForemostIs
    <3> QED
      BY <3>1 DEF Foremost
  <2>3. f \in about /\ \A j \in about : order(f) < order(j) \/ (order(f) = order(j) /\ f <= j)
    <3> HIDE DEF about, order
    <3> QED
      BY <2>2
  <2>4. Denied(rs, pub, p) <=>
          ~Exempt(rs, p) /\ (rs.rules[f].action = "deny" \/ (rs.rules[f].limit = "some" /\ p.when = "burst"))
    BY <1>3 DEF Denied
  <2> HIDE DEF about, f
  <2>5. Foremost(rs, about, f)
    BY <2>3 DEF Foremost
  <2>6. RulesSay(rs, pub, p) = Verdict(rs.rules[f], p)
    BY <1>1, <2>5, RulesSayIs
  <2>7. RulesSay(rs, pub, p) # "silent" /\ (RulesSay(rs, pub, p) = "drop" <=>
          (rs.rules[f].action = "deny" \/ (rs.rules[f].limit = "some" /\ p.when = "burst")))
    BY <2>6 DEF Verdict
  <2> QED
    BY <2>4, <2>7
<1> QED
  BY <1>2, <1>3

-----------------------------------------------------------------------------
(* The lines around the rules *)

\* Lines that stop p without dropping it.
LEMMA FateOfPassing ==
  ASSUME NEW s, NEW p, \A i \in DOMAIN s : Stops(s[i], p) => s[i].to # "DROP"
  PROVE  Fate(s, p) = IF \E i \in DOMAIN s : Stops(s[i], p) THEN "pass" ELSE "silent"
BY DEF Fate, Silent, Sinks

\* Lines that drop whatever they stop.
LEMMA FateOfDropping ==
  ASSUME NEW X, NEW s \in Seq(X), NEW p, \A i \in DOMAIN s : Stops(s[i], p) => s[i].to = "DROP"
  PROVE  Fate(s, p) = IF \E i \in DOMAIN s : Stops(s[i], p) THEN "drop" ELSE "silent"
<1>1. CASE Silent(s, p)
  BY <1>1 DEF Fate, Silent
<1>2. ASSUME NEW k \in DOMAIN s, Stops(s[k], p)
      PROVE  Sinks(s, p) /\ ~Silent(s, p)
  <2> DEFINE S == {i \in DOMAIN s : Stops(s[i], p)}
  <2>1. \A i \in DOMAIN s : i \in Nat
    OBVIOUS
  <2>2. S \in SUBSET Nat /\ S # {}
    BY <1>2, <2>1
  <2> HIDE DEF S
  <2>3. PICK m \in S : \A n \in S : m <= n
    BY <2>2, Least
  <2>4. m \in DOMAIN s /\ Stops(s[m], p) /\ s[m].to = "DROP"
    BY <2>3 DEF S
  <2>5. \A j \in DOMAIN s : j < m => ~Stops(s[j], p)
    <3>1. ASSUME NEW j \in DOMAIN s, j < m, Stops(s[j], p) PROVE FALSE
      <4>1. j \in S
        BY <3>1 DEF S
      <4>2. m <= j /\ j \in Int /\ m \in Int
        BY <2>1, <2>3, <2>4, <4>1
      <4> QED
        BY <3>1, <4>2
    <3> QED
      BY <3>1
  <2> QED
    BY <2>4, <2>5 DEF Sinks, Silent
<1> QED
  BY <1>1, <1>2 DEF Fate, Silent

\* The end of a chain under either policy.
LEMMA FateOfEnd ==
  ASSUME NEW p \in Packet
  PROVE  /\ Fate(<< Line(All, "RETURN") >>, p) = "pass"
         /\ \A j \in {"ZFW-APPS-IN", "ZFW-APPS-IN6"} : Fate(<< Line(All, j), Line(All, "DROP") >>, p) = "drop"
<1>1. p \in All.on
  BY OnIs
<1>2. Fate(<< Line(All, "RETURN") >>, p) = "pass"
  BY <1>1, FateOfLine
<1>3. ASSUME NEW j \in {"ZFW-APPS-IN", "ZFW-APPS-IN6"}
      PROVE  Fate(<< Line(All, j), Line(All, "DROP") >>, p) = "drop"
  <2> DEFINE a == Line(All, j)
             b == Line(All, "DROP")
             s == << a, b >>
  <2>1. ~Stops(a, p) /\ Stops(b, p) /\ b.to = "DROP"
    BY <1>1, StopsAt DEF Line
  <2> HIDE DEF a, b
  <2>2. s \in Seq({a, b}) /\ DOMAIN s = {1, 2} /\ s[1] = a /\ s[2] = b
    OBVIOUS
  <2> HIDE DEF s
  <2>3. (\A i \in DOMAIN s : Stops(s[i], p) => s[i].to = "DROP") /\ \E i \in DOMAIN s : Stops(s[i], p)
    BY <2>1, <2>2
  <2>4. Fate(s, p) = "drop"
    BY <2>2, <2>3, FateOfDropping
  <2> QED
    BY <2>4 DEF s, a, b
<1> QED
  BY <1>2, <1>3

\* The interfaces and protocols that bypass the rules of the host.
LEMMA FateOfBypass ==
  ASSUME NEW v, NEW pass \in {"ACCEPT", "RETURN"}, NEW dhcp, NEW fixed \in Seq(LineOf(v, Packet)),
         NEW p \in Packet, p.state = "new"
  PROVE  Fate(hostBypass(pass, dhcp, fixed), p) =
           IF \/ Iif(p) \in {"lo", "docker", "mesh"} \/ p.proto = "icmp"
              \/ p.proto = "udp" /\ p.port \in dhcp
           THEN "pass" ELSE Fate(fixed, p)
<1> DEFINE a == Line(InState({"established"}), pass)
           b == Line(InState({"invalid"}), "DROP")
           c == Line(OnIface({"lo", "docker", "mesh"}), pass)
           d == Line(OfProto("icmp"), pass)
           e == Line(OfProto("udp") ++ DPort(dhcp), pass)
           s == << a, b, c, d, e >>
           X == LineOf(v, Packet)
<1>1. "DROP" \in Target /\ pass \in Target /\ pass # "DROP"
  BY DEF Target
<1>2. OfProto("udp") ++ DPort(dhcp) \in FragOf(v, Packet)
  BY NamesNoAddress, JoinIs
<1>3. a \in X /\ b \in X /\ c \in X /\ d \in X /\ e \in X
  BY <1>1, <1>2, NamesNoAddress, LineIs
<1>4. ~Stops(a, p) /\ ~Stops(b, p)
  <2>1. p \notin InState({"established"}).on /\ p \notin InState({"invalid"}).on
    BY OnIs
  <2> QED
    BY <2>1, StopsAt
<1>5. /\ Stops(c, p) <=> Iif(p) \in {"lo", "docker", "mesh"}
      /\ Stops(d, p) <=> p.proto = "icmp"
      /\ Stops(e, p) <=> p.proto = "udp" /\ p.port \in dhcp
  <2>1. /\ p \in OnIface({"lo", "docker", "mesh"}).on <=> Iif(p) \in {"lo", "docker", "mesh"}
        /\ p \in OfProto("icmp").on <=> p.proto = "icmp"
        /\ p \in (OfProto("udp") ++ DPort(dhcp)).on <=> p.proto = "udp" /\ p.port \in dhcp
    BY OnIs, OnBoth DEF Protocols
  <2> QED
    BY <2>1, StopsAt
<1>6. c.to # "DROP" /\ d.to # "DROP" /\ e.to # "DROP"
  BY <1>1 DEF Line
<1>7. hostBypass(pass, dhcp, fixed) = s \o fixed
  BY DEF hostBypass
<1> HIDE DEF a, b, c, d, e, X
<1>8. s \in Seq(X) /\ DOMAIN s = {1, 2, 3, 4, 5}
      /\ s[1] = a /\ s[2] = b /\ s[3] = c /\ s[4] = d /\ s[5] = e
  BY <1>3
<1> HIDE DEF s
<1>9. Fate(s, p) = IF \E i \in DOMAIN s : Stops(s[i], p) THEN "pass" ELSE "silent"
  <2>1. \A i \in DOMAIN s : Stops(s[i], p) => s[i].to # "DROP"
    BY <1>4, <1>6, <1>8
  <2> QED
    BY <2>1, FateOfPassing
<1>10. (\E i \in DOMAIN s : Stops(s[i], p)) <=> Stops(c, p) \/ Stops(d, p) \/ Stops(e, p)
  BY <1>4, <1>8
<1>11. Fate(s \o fixed, p) = IF Fate(s, p) = "silent" THEN Fate(fixed, p) ELSE Fate(s, p)
  BY <1>8, FateJoin DEF X
<1> QED
  BY <1>5, <1>7, <1>9, <1>10, <1>11

\* sortedPorts lists every port of the set.
LEMMA SortedPortsAll ==
  ASSUME NEW P \in SUBSET Int, IsFiniteSet(P), NEW q \in P
  PROVE  \E k \in 1 .. Cardinality(P) : sortedPorts(P)[k] = q
<1> DEFINE below(x) == {y \in P : y < x}
           rank(x) == Cardinality(below(x))
           R == {xy \in P \X P : xy[1] < xy[2]}
<1>1. \A x, y \in P : <<x, y>> \in R <=> x < y
  OBVIOUS
<1> HIDE DEF R
<1>2. /\ \A x \in P : <<x, x>> \notin R
      /\ \A x, y \in P : x # y => <<x, y>> \in R \/ <<y, x>> \in R
      /\ \A x, y, z \in P : <<x, y>> \in R /\ <<y, z>> \in R => <<x, z>> \in R
  BY <1>1
<1>3. \A x \in P : BeforeIn(P, R, x) = below(x)
  BY <1>1 DEF BeforeIn
<1>4. /\ \A x \in P : rank(x) \in 0 .. Cardinality(P) - 1
      /\ \A x, y \in P : x < y => rank(x) < rank(y)
  <2>1. /\ \A x \in P : Cardinality(BeforeIn(P, R, x)) \in 0 .. Cardinality(P) - 1
        /\ \A x, y \in P : <<x, y>> \in R => Cardinality(BeforeIn(P, R, x)) < Cardinality(BeforeIn(P, R, y))
    BY <1>2, RankGrows
  <2> HIDE DEF below
  <2> QED
    BY <1>1, <1>3, <2>1
<1>5. Cardinality(P) \in Nat
  BY FS_CardinalityType
<1> DEFINE k == rank(q) + 1
           m == CHOOSE p \in P : Cardinality({y \in P : y < p}) = k - 1
<1>6. k \in 1 .. Cardinality(P) /\ rank(q) = k - 1
  <2> HIDE DEF rank
  <2> QED
    BY <1>4, <1>5
<1>7. sortedPorts(P)[k] = m
  <2> HIDE DEF k
  <2> QED
    BY <1>6 DEF sortedPorts
<1>8. m \in P /\ rank(m) = k - 1
  <2> HIDE DEF k
  <2> QED
    BY <1>6
<1> HIDE DEF m, k, rank
<1>9. m = q
  <2>1. rank(m) \in Int /\ rank(q) \in Int /\ m \in Int /\ q \in Int
    BY <1>4, <1>5, <1>8
  <2>2. ~(m < q) /\ ~(q < m)
    BY <1>4, <1>6, <1>8, <2>1
  <2> QED
    BY <2>1, <2>2
<1> QED
  BY <1>6, <1>7, <1>9

\* The TCP ports that are dropped for IPv6 under either policy.
DropList(P) ==
  [i \in 1..Cardinality(P) |-> Line(OfProto("tcp") ++ DPort({sortedPorts(P)[i]}), "DROP")]

LEMMA FateOfDropList ==
  ASSUME NEW P \in SUBSET Int, IsFiniteSet(P), NEW p \in Packet, NEW v
  PROVE  /\ DropList(P) \in Seq(LineOf(v, Packet))
         /\ Fate(DropList(P), p) = IF p.proto = "tcp" /\ p.port \in P THEN "drop" ELSE "silent"
<1> DEFINE line(i) == Line(OfProto("tcp") ++ DPort({sortedPorts(P)[i]}), "DROP")
           n == Cardinality(P)
           s == [i \in 1 .. n |-> line(i)]
<1>1. n \in Nat
  BY FS_CardinalityType
<1>2. ASSUME NEW i
      PROVE  /\ line(i) \in LineOf(v, Packet) /\ line(i).to = "DROP"
             /\ Stops(line(i), p) <=> p.proto = "tcp" /\ p.port = sortedPorts(P)[i]
  <2>1. OfProto("tcp") ++ DPort({sortedPorts(P)[i]}) \in FragOf(v, Packet)
    BY NamesNoAddress, JoinIs
  <2>2. p \in (OfProto("tcp") ++ DPort({sortedPorts(P)[i]})).on <=> p.proto = "tcp" /\ p.port = sortedPorts(P)[i]
    BY OnIs, OnBoth DEF Protocols
  <2>3. line(i) \in LineOf(v, Packet) /\ line(i).to = "DROP"
    BY <2>1, LineIs DEF Target
  <2> QED
    BY <2>2, <2>3, StopsAt
<1>3. sortedPorts(P) \in Seq(P) /\ Len(sortedPorts(P)) = n
  BY SortedPortsIs
<1>4. \A i \in 1 .. n : sortedPorts(P)[i] \in P
  BY <1>3
<1>5. \A q \in P : \E i \in 1 .. n : sortedPorts(P)[i] = q
  BY SortedPortsAll
<1>6. DropList(P) = s
  BY DEF DropList
<1> HIDE DEF line, n
<1>7. s \in [1 .. n -> LineOf(v, Packet)]
  BY <1>2
<1>8. \A i \in 1 .. n : s[i] = line(i)
  OBVIOUS
<1> HIDE DEF s
<1>9. s \in Seq(LineOf(v, Packet)) /\ DOMAIN s = 1 .. n
  BY <1>1, <1>7, AsSequence
<1>10. \A i \in DOMAIN s : Stops(s[i], p) => s[i].to = "DROP"
  BY <1>2, <1>8, <1>9
<1>11. Fate(s, p) = IF \E i \in DOMAIN s : Stops(s[i], p) THEN "drop" ELSE "silent"
  BY <1>9, <1>10, FateOfDropping
<1>12. (\E i \in DOMAIN s : Stops(s[i], p)) <=> p.proto = "tcp" /\ p.port \in P
  <2>1. \A i \in 1 .. n : Stops(s[i], p) <=> p.proto = "tcp" /\ p.port = sortedPorts(P)[i]
    BY <1>2, <1>8
  <2>2. (\E i \in 1 .. n : p.port = sortedPorts(P)[i]) <=> p.port \in P
    BY <1>4, <1>5
  <2> QED
    BY <1>9, <2>1, <2>2
<1> QED
  BY <1>6, <1>9, <1>11, <1>12

\* Under the policy "deny" nothing new gets past the end of DOCKER-USER.
LEMMA FateOfDenyTail ==
  ASSUME NEW v, NEW rs, NEW pub \in Inventories, NEW jump \in {"ZFW-APPS", "ZFW-APPS6"},
         NEW p \in Packet, p.flow = "fwd", p.state = "new"
  PROVE  Fate(denyTail(rs, pub, jump), p) = IF rs.policy = "deny" THEN "drop" ELSE "silent"
<1> DEFINE line(q, P, i) == Line(OfProto(q) ++ DPort({sortedPorts(P)[i]}) ++ InState({"new"}), "DROP")
           drop(q, P) == [i \in 1 .. Cardinality(P) |-> line(q, P, i)]
           X == LineOf(v, Packet)
<1>1. ASSUME NEW q, NEW P, IsFiniteSet(P)
      PROVE  drop(q, P) \in Seq(X) /\ Fate(drop(q, P), p) \in {"drop", "silent"}
  <2>1. Cardinality(P) \in Nat
    BY <1>1, FS_CardinalityType
  <2>2. ASSUME NEW i PROVE line(q, P, i) \in X /\ line(q, P, i).to = "DROP"
    <3>1. OfProto(q) ++ DPort({sortedPorts(P)[i]}) \in FragOf(v, Packet)
      BY NamesNoAddress, JoinIs
    <3>2. OfProto(q) ++ DPort({sortedPorts(P)[i]}) ++ InState({"new"}) \in FragOf(v, Packet)
      BY <3>1, NamesNoAddress, JoinIs
    <3> QED
      BY <3>2, LineIs DEF Target
  <2> DEFINE s == drop(q, P)
  <2> HIDE DEF line
  <2>3. s \in [1 .. Cardinality(P) -> X] /\ \A i \in 1 .. Cardinality(P) : s[i] = line(q, P, i)
    BY <2>2
  <2> HIDE DEF s, X
  <2>4. s \in Seq(X) /\ DOMAIN s = 1 .. Cardinality(P)
    BY <2>1, <2>3, AsSequence
  <2>5. \A i \in DOMAIN s : Stops(s[i], p) => s[i].to = "DROP"
    BY <2>2, <2>3, <2>4
  <2>6. Fate(s, p) = IF \E i \in DOMAIN s : Stops(s[i], p) THEN "drop" ELSE "silent"
    BY <2>4, <2>5, FateOfDropping
  <2> QED
    BY <2>4, <2>6 DEF s
<1>2. IsFiniteSet(pub.tcp) /\ IsFiniteSet(pub.udp)
  BY DEF Inventories
<1>3. denyLines(pub) = drop("tcp", pub.tcp) \o drop("udp", pub.udp)
  BY DEF denyLines
<1> HIDE DEF drop
<1>4. denyLines(pub) \in Seq(X) /\ Fate(denyLines(pub), p) \in {"drop", "silent"}
  <2>1. Fate(denyLines(pub), p) = IF Fate(drop("tcp", pub.tcp), p) = "silent"
                                  THEN Fate(drop("udp", pub.udp), p) ELSE Fate(drop("tcp", pub.tcp), p)
    BY <1>1, <1>2, <1>3, FateJoin
  <2> QED
    BY <1>1, <1>2, <1>3, <2>1
<1>5. << Line(All, jump) >> \in Seq(X) /\ dnatGuardLines \in Seq(X)
  BY Singles DEF Target
<1>6. Fate(<< Line(All, jump) >>, p) = "silent"
  <2>1. ~Stops(Line(All, jump), p)
    BY DEF Stops, Line
  <2> QED
    BY <2>1, FateOfOne
<1>7. Fate(dnatGuardLines, p) = "drop"
  <2>1. p \in (DNATed ++ InState({"new"})).on
    BY OnIs, OnBoth
  <2> QED
    BY <2>1, FateOfLine DEF dnatGuardLines
<1> HIDE DEF X
<1>8. CASE rs.policy = "deny"
  <2> DEFINE a == << Line(All, jump) >>
             b == denyLines(pub)
  <2>1. denyTail(rs, pub, jump) = (a \o b) \o dnatGuardLines
    BY <1>8 DEF denyTail
  <2> HIDE DEF a, b
  <2>2. a \in Seq(X) /\ b \in Seq(X) /\ a \o b \in Seq(X)
    BY <1>4, <1>5 DEF a, b
  <2>3. Fate(a \o b, p) = Fate(b, p)
    BY <1>6, <2>2, FateJoin DEF a
  <2>4. Fate((a \o b) \o dnatGuardLines, p) =
          IF Fate(a \o b, p) = "silent" THEN Fate(dnatGuardLines, p) ELSE Fate(a \o b, p)
    BY <1>5, <2>2, FateJoin
  <2> QED
    BY <1>4, <1>7, <1>8, <2>1, <2>3, <2>4 DEF b
<1>9. CASE rs.policy # "deny"
  <2>1. denyTail(rs, pub, jump) = <<>>
    BY <1>9 DEF denyTail
  <2> QED
    BY <1>9, <2>1, FateOfNone
<1> QED
  BY <1>8, <1>9

-----------------------------------------------------------------------------
(* One chain after the other *)

\* Three pieces.
LEMMA FateJoin3 ==
  ASSUME NEW X, NEW s \in Seq(X), NEW t \in Seq(X), NEW u \in Seq(X), NEW p
  PROVE  /\ (s \o t) \o u \in Seq(X)
         /\ Fate((s \o t) \o u, p) = IF Fate(s, p) # "silent" THEN Fate(s, p)
                                     ELSE IF Fate(t, p) # "silent" THEN Fate(t, p) ELSE Fate(u, p)
<1>1. s \o t \in Seq(X) /\ (s \o t) \o u \in Seq(X)
  OBVIOUS
<1>2. Fate((s \o t) \o u, p) = IF Fate(s \o t, p) = "silent" THEN Fate(u, p) ELSE Fate(s \o t, p)
  BY <1>1, FateJoin
<1>3. Fate(s \o t, p) = IF Fate(s, p) = "silent" THEN Fate(t, p) ELSE Fate(s, p)
  BY FateJoin
<1> QED
  BY <1>1, <1>2, <1>3

LEMMA VerdictIs ==
  ASSUME NEW rs, NEW pub, NEW p
  PROVE  RulesSay(rs, pub, p) \in {"silent", "drop", "pass"}
BY DEF RulesSay, Verdict

\* Families and interfaces of the peers.
LEMMA PeerIs ==
  ASSUME NEW p \in Packet
  PROVE  /\ p.flow \in Flows /\ p.peer \in Address
         /\ Fam(p) \in {4, 6} /\ (Fam(p) = 6 <=> p.peer \in V6Address)
         /\ Fam(p) # 6 => p.peer # "link"
         /\ p.flow = "fwd" => Iif(p) # "lo" /\ Iif(p) = Peer[p.peer].iif
<1>1. p.peer \in Address /\ p.flow \in Flows /\ (p.flow = "fwd" => p.peer # "self")
  BY DEF Packet
<1>2. Peer[p.peer].fam \in {4, 6} /\ (Peer[p.peer].fam = 6 <=> p.peer \in V6Address)
      /\ (Peer[p.peer].iif = "lo" => p.peer = "self")
  BY <1>1, PeerAssumption
<1> QED
  BY <1>1, <1>2, LinkAssumption DEF Fam, Iif

LEMMA HostChainDecides ==
  ASSUME NEW rs, Ruly(rs), NEW pub \in Inventories,
         NEW p \in Packet, p.state = "new", p.flow = "in", Fam(p) # 6
  PROVE  Fate(zfwInRules(rs, pub), p) = "drop" <=> Denied(rs, pub, p)
<1> DEFINE X == LineOf(4, Packet)
           dhcp == {68, 41641, 9993}
           a == hostBypass("ACCEPT", dhcp, <<>>)
           b == HostPart(rs, all(pub))
           d == IF rs.policy = "allow" THEN << Line(All, "RETURN") >>
                ELSE << Line(All, "ZFW-APPS-IN"), Line(All, "DROP") >>
           said == RulesSay(rs, pub, p)
<1>1. a \in Seq(X)
      /\ Fate(a, p) = IF \/ Iif(p) \in {"lo", "docker", "mesh"} \/ p.proto = "icmp"
                         \/ p.proto = "udp" /\ p.port \in dhcp
                      THEN "pass" ELSE "silent"
  <2> DEFINE none == <<>>
             pass == "ACCEPT"
  <2>1. none \in Seq(LineOf(4, Packet)) /\ Fate(none, p) = "silent" /\ pass \in {"ACCEPT", "RETURN"}
    BY FateOfNone
  <2> HIDE DEF none, dhcp, pass
  <2>2. Opens(hostBypass(pass, dhcp, none), 4)
    BY <2>1, HostBypassOpens
  <2>3. Fate(hostBypass(pass, dhcp, none), p) =
           IF \/ Iif(p) \in {"lo", "docker", "mesh"} \/ p.proto = "icmp"
              \/ p.proto = "udp" /\ p.port \in dhcp
           THEN "pass" ELSE Fate(none, p)
    BY <2>1, FateOfBypass
  <2> QED
    BY <2>1, <2>2, <2>3 DEF none, pass, Opens
<1>2. b \in Seq(X) /\ Fate(b, p) = said
  BY RuleSetLinesFit, PartsSay DEF Ruly
<1>3. d \in Seq(X) /\ Fate(d, p) = IF rs.policy = "allow" THEN "pass" ELSE "drop"
  BY Singles, FateOfEnd DEF Target
<1>4. zfwInRules(rs, pub) = (a \o b) \o d
  BY DEF zfwInRules, HostPart
<1>5. Exempt(rs, p) <=> \/ Iif(p) \in {"lo", "docker", "mesh"} \/ p.proto = "icmp"
                        \/ p.proto = "udp" /\ p.port \in dhcp
  BY PeerIs DEF Exempt, FromPeer
<1>6. Denied(rs, pub, p) <=>
        ~Exempt(rs, p) /\ IF said # "silent" THEN said = "drop" ELSE rs.policy = "deny"
  BY DeniedIs DEF FromPeer
<1> HIDE DEF a, b, d, X, dhcp, said
<1>7. Fate(zfwInRules(rs, pub), p) =
        IF Fate(a, p) # "silent" THEN Fate(a, p)
        ELSE IF Fate(b, p) # "silent" THEN Fate(b, p) ELSE Fate(d, p)
  BY <1>1, <1>2, <1>3, <1>4, FateJoin3
<1>8. rs.policy \in {"deny", "allow"}
  BY DEF Ruly
<1> QED
  BY <1>1, <1>2, <1>3, <1>5, <1>6, <1>7, <1>8

LEMMA HostChain6Decides ==
  ASSUME NEW rs, Ruly(rs), NEW pub,
         NEW p \in Packet, p.state = "new", p.flow = "in", Fam(p) = 6
  PROVE  Fate(zfwIn6Rules(rs), p) = "drop" <=> Denied(rs, pub, p)
<1> DEFINE X == LineOf(6, Packet)
           dhcp == {546}
           a == hostBypass("RETURN", dhcp, linkLocalMDNS)
           b == HostPart6(rs)
           e == DropList(rs.v6drop)
           d == IF rs.policy = "allow" THEN << Line(All, "RETURN") >>
                ELSE << Line(All, "ZFW-APPS-IN6"), Line(All, "DROP") >>
           said == RulesSay(rs, pub, p)
<1>1. a \in Seq(X)
      /\ Fate(a, p) = IF \/ Iif(p) \in {"lo", "docker", "mesh"} \/ p.proto = "icmp"
                         \/ p.proto = "udp" /\ p.port \in dhcp
                         \/ p.peer = "link" /\ p.proto = "udp" /\ p.port = MDNS
                      THEN "pass" ELSE "silent"
  <2> DEFINE m == SrcIn({"link"}) ++ OfProto("udp") ++ DPort({MDNS})
             pass == "RETURN"
             fixed == linkLocalMDNS
  <2>1. m \in FragOf(6, Packet)
    <3>1. {"link"} \subseteq V6Address
      BY LinkAssumption
    <3>2. SrcIn({"link"}) \in FragOf(6, Packet)
      BY <3>1, FamiliesIs, NamesAddresses
    <3>3. SrcIn({"link"}) ++ OfProto("udp") \in FragOf(6, Packet)
      BY <3>2, NamesNoAddress, JoinIs
    <3> QED
      BY <3>3, NamesNoAddress, JoinIs
  <2>2. p \in m.on <=> p.peer = "link" /\ p.proto = "udp" /\ p.port = MDNS
    BY OnIs, OnBoth DEF FromPeer, Protocols
  <2>3. fixed = << Line(m, "RETURN") >>
    BY DEF linkLocalMDNS
  <2> HIDE DEF m, fixed, dhcp
  <2>4. fixed \in Seq(X) /\ Fate(fixed, p) = IF p \notin m.on THEN "silent" ELSE "pass"
    BY <2>1, <2>3, OneLine, FateOfLine DEF Target
  <2>5. pass \in {"ACCEPT", "RETURN"}
    OBVIOUS
  <2> HIDE DEF pass
  <2>6. Opens(hostBypass(pass, dhcp, fixed), 6)
    BY <2>4, <2>5, HostBypassOpens
  <2>7. Fate(hostBypass(pass, dhcp, fixed), p) =
           IF \/ Iif(p) \in {"lo", "docker", "mesh"} \/ p.proto = "icmp"
              \/ p.proto = "udp" /\ p.port \in dhcp
           THEN "pass" ELSE Fate(fixed, p)
    BY <2>4, <2>5, FateOfBypass
  <2> QED
    BY <2>2, <2>4, <2>6, <2>7 DEF Opens, pass, fixed
<1>2. b \in Seq(X) /\ Fate(b, p) = said
  BY RuleSetLinesFit, PartsSay DEF Ruly
<1>3. e \in Seq(X) /\ Fate(e, p) = IF p.proto = "tcp" /\ p.port \in rs.v6drop THEN "drop" ELSE "silent"
  BY FateOfDropList DEF Ruly, Compilable
<1>4. d \in Seq(X) /\ Fate(d, p) = IF rs.policy = "allow" THEN "pass" ELSE "drop"
  BY Singles, FateOfEnd DEF Target
<1>5. zfwIn6Rules(rs) = ((a \o b) \o e) \o d
  BY DEF zfwIn6Rules, HostPart6, DropList
<1>6. Exempt(rs, p) <=> \/ Iif(p) \in {"lo", "docker", "mesh"} \/ p.proto = "icmp"
                        \/ p.proto = "udp" /\ p.port \in dhcp
                        \/ p.peer = "link" /\ p.proto = "udp" /\ p.port = MDNS
  BY DEF Exempt, FromPeer
<1>7. Denied(rs, pub, p) <=>
        /\ ~Exempt(rs, p)
        /\ IF said # "silent" THEN said = "drop"
           ELSE rs.policy = "deny" \/ (p.proto = "tcp" /\ p.port \in rs.v6drop)
  BY DeniedIs DEF FromPeer
<1> HIDE DEF a, b, d, e, X, dhcp, said
<1> DEFINE f == (a \o b) \o e
<1>8. f \in Seq(X) /\ Fate(f, p) =
        IF Fate(a, p) # "silent" THEN Fate(a, p)
        ELSE IF Fate(b, p) # "silent" THEN Fate(b, p) ELSE Fate(e, p)
  BY <1>1, <1>2, <1>3, FateJoin3
<1>9. zfwIn6Rules(rs) = f \o d
  BY <1>5
<1> HIDE DEF f
<1>10. Fate(zfwIn6Rules(rs), p) = IF Fate(f, p) = "silent" THEN Fate(d, p) ELSE Fate(f, p)
  BY <1>4, <1>8, <1>9, FateJoin
<1>11. rs.policy \in {"deny", "allow"}
  BY DEF Ruly
<1> QED
  BY <1>1, <1>2, <1>3, <1>4, <1>6, <1>7, <1>8, <1>10, <1>11

\* Lines for established connections do not stop new ones.
LEMMA FateOfEstablished ==
  ASSUME NEW v, NEW pass \in {"ACCEPT", "RETURN"}, NEW p \in Packet, p.state = "new"
  PROVE  LET s == << Line(InState({"established"}), pass) >>
         IN  s \in Seq(LineOf(v, Packet)) /\ Fate(s, p) = "silent"
<1>1. p \notin InState({"established"}).on
  BY OnIs
<1> QED
  BY <1>1, NamesNoAddress, OneLine, FateOfLine DEF Target

\* Lines for the packets of an interface.
LEMMA FateOfIface ==
  ASSUME NEW v, NEW I, NEW p \in Packet
  PROVE  LET s == << Line(OnIface(I), "RETURN") >>
         IN  s \in Seq(LineOf(v, Packet)) /\ Fate(s, p) = IF Iif(p) \in I THEN "pass" ELSE "silent"
<1>1. p \in OnIface(I).on <=> Iif(p) \in I
  BY OnIs
<1> QED
  BY <1>1, NamesNoAddress, OneLine, FateOfLine DEF Target

LEMMA DockerChainDecides ==
  ASSUME NEW rs, Ruly(rs), NEW pub \in Inventories,
         NEW p \in Packet, p.state = "new", p.flow = "fwd", Fam(p) # 6
  PROVE  Fate(dockerUserRules(rs, pub), p) = "drop" <=> Denied(rs, pub, p)
<1> DEFINE X == LineOf(4, Packet)
           a == << Line(InState({"established"}), "RETURN") >>
           h == IF rs.hostIP = None THEN <<>> ELSE << Line(SrcIn({rs.hostIP}), "RETURN") >>
           i == << Line(OnIface({"mesh"}), "RETURN") >>
           j == << Line(OnIface({"docker"}), "RETURN") >>
           b == DockerPart(rs, all(pub))
           e == denyTail(rs, pub, "ZFW-APPS")
           d == << Line(All, "RETURN") >>
           said == RulesSay(rs, pub, p)
<1>1. a \in Seq(X) /\ Fate(a, p) = "silent"
  BY FateOfEstablished
<1>2. h \in Seq(X) /\ Fate(h, p) = IF p.peer = rs.hostIP THEN "pass" ELSE "silent"
  <2>1. CASE rs.hostIP = None
    <3>1. p.peer # rs.hostIP
      BY <2>1, PeerIs, AddressAssumption
    <3> QED
      BY <2>1, <3>1, FateOfNone
  <2>2. CASE rs.hostIP # None
    <3>1. {rs.hostIP} \cap V6Address = {}
      BY <2>2 DEF Ruly, Compilable
    <3>2. SrcIn({rs.hostIP}) \in FragOf(4, Packet)
      BY <3>1, FamiliesIs, NamesAddresses
    <3>3. p \in SrcIn({rs.hostIP}).on <=> p.peer = rs.hostIP
      BY OnIs DEF FromPeer
    <3> QED
      BY <2>2, <3>2, <3>3, OneLine, FateOfLine DEF Target
  <2> QED
    BY <2>1, <2>2
<1>3. /\ i \in Seq(X) /\ Fate(i, p) = IF Iif(p) = "mesh" THEN "pass" ELSE "silent"
      /\ j \in Seq(X) /\ Fate(j, p) = IF Iif(p) = "docker" THEN "pass" ELSE "silent"
  BY FateOfIface
<1>4. b \in Seq(X) /\ Fate(b, p) = said
  BY RuleSetLinesFit, PartsSay DEF Ruly
<1>5. e \in Seq(X) /\ Fate(e, p) = IF rs.policy = "deny" THEN "drop" ELSE "silent"
  BY DenyTailFits, FateOfDenyTail
<1>6. d \in Seq(X) /\ Fate(d, p) = "pass"
  BY Singles, FateOfEnd DEF Target
<1>7. dockerUserRules(rs, pub) = ((((a \o h) \o (i \o j)) \o b) \o e) \o d
  <2>1. << Line(OnIface({"mesh"}), "RETURN"), Line(OnIface({"docker"}), "RETURN") >> = i \o j
    OBVIOUS
  <2> QED
    BY <2>1 DEF dockerUserRules, DockerPart
<1>8. Exempt(rs, p) <=> p.peer = rs.hostIP \/ Iif(p) \in {"mesh", "docker"}
  BY PeerIs DEF Exempt, FromPeer
<1>9. Denied(rs, pub, p) <=>
        ~Exempt(rs, p) /\ IF said # "silent" THEN said = "drop" ELSE rs.policy = "deny"
  BY DeniedIs DEF FromPeer
<1> HIDE DEF a, b, d, e, h, i, j, X, said
<1>10. i \o j \in Seq(X) /\ Fate(i \o j, p) = IF Fate(i, p) = "silent" THEN Fate(j, p) ELSE Fate(i, p)
  BY <1>3, FateJoin
<1> DEFINE f == (a \o h) \o (i \o j)
<1>11. f \in Seq(X) /\ Fate(f, p) = IF Fate(h, p) # "silent" THEN Fate(h, p) ELSE Fate(i \o j, p)
  <2> DEFINE ij == i \o j
  <2> HIDE DEF ij
  <2>1. ij \in Seq(X)
    BY <1>10 DEF ij
  <2>2. (a \o h) \o ij \in Seq(X) /\ Fate((a \o h) \o ij, p) =
          IF Fate(a, p) # "silent" THEN Fate(a, p)
          ELSE IF Fate(h, p) # "silent" THEN Fate(h, p) ELSE Fate(ij, p)
    BY <1>1, <1>2, <2>1, FateJoin3
  <2> QED
    BY <1>1, <2>2 DEF ij
<1> HIDE DEF f
<1> DEFINE g == (f \o b) \o e
<1>12. g \in Seq(X) /\ Fate(g, p) = IF Fate(f, p) # "silent" THEN Fate(f, p)
                                    ELSE IF Fate(b, p) # "silent" THEN Fate(b, p) ELSE Fate(e, p)
  BY <1>4, <1>5, <1>11, FateJoin3
<1> HIDE DEF g
<1>13. Fate(g \o d, p) = IF Fate(g, p) = "silent" THEN Fate(d, p) ELSE Fate(g, p)
  BY <1>6, <1>12, FateJoin
<1>14. dockerUserRules(rs, pub) = g \o d
  BY <1>7 DEF f, g
<1> QED
  BY <1>2, <1>3, <1>4, <1>5, <1>6, <1>8, <1>9, <1>10, <1>11, <1>12, <1>13, <1>14

LEMMA DockerChain6Decides ==
  ASSUME NEW rs, Ruly(rs), NEW pub \in Inventories,
         NEW p \in Packet, p.state = "new", p.flow = "fwd", Fam(p) = 6, Iif(p) # "docker"
  PROVE  Fate(dockerUser6Rules(rs, pub), p) = "drop" <=> Denied(rs, pub, p)
<1> DEFINE X == LineOf(6, Packet)
           a == << Line(InState({"established"}), "RETURN") >>
           i == << Line(OnIface({"mesh"}), "RETURN") >>
           b == DockerPart6(rs, all(pub))
           h == IF rs.policy = "deny" THEN << Line(OnIface({"docker"}), "RETURN") >> ELSE <<>>
           e == denyTail(rs, pub, "ZFW-APPS6")
           d == << Line(All, "RETURN") >>
           said == RulesSay(rs, pub, p)
<1>1. a \in Seq(X) /\ Fate(a, p) = "silent"
  BY FateOfEstablished
<1>2. i \in Seq(X) /\ Fate(i, p) = IF Iif(p) = "mesh" THEN "pass" ELSE "silent"
  BY FateOfIface
<1>3. h \in Seq(X) /\ Fate(h, p) = "silent"
  <2>1. <<>> \in Seq(X) /\ Fate(<<>>, p) = "silent"
    BY FateOfNone
  <2>2. << Line(OnIface({"docker"}), "RETURN") >> \in Seq(X)
        /\ Fate(<< Line(OnIface({"docker"}), "RETURN") >>, p) = "silent"
    BY FateOfIface
  <2> QED
    BY <2>1, <2>2
<1>4. b \in Seq(X) /\ Fate(b, p) = said
  BY RuleSetLinesFit, PartsSay DEF Ruly
<1>5. e \in Seq(X) /\ Fate(e, p) = IF rs.policy = "deny" THEN "drop" ELSE "silent"
  BY DenyTailFits, FateOfDenyTail
<1>6. d \in Seq(X) /\ Fate(d, p) = "pass"
  BY Singles, FateOfEnd DEF Target
<1>7. dockerUser6Rules(rs, pub) = ((((a \o i) \o b) \o h) \o e) \o d
  <2>1. << Line(InState({"established"}), "RETURN"), Line(OnIface({"mesh"}), "RETURN") >> = a \o i
    OBVIOUS
  <2> QED
    BY <2>1 DEF dockerUser6Rules, DockerPart6
<1>8. Exempt(rs, p) <=> Iif(p) = "mesh"
  <2>1. p.peer # rs.hostIP
    BY PeerIs, AddressAssumption DEF Ruly, Compilable
  <2> QED
    BY <2>1, PeerIs DEF Exempt, FromPeer
<1>9. Denied(rs, pub, p) <=>
        ~Exempt(rs, p) /\ IF said # "silent" THEN said = "drop" ELSE rs.policy = "deny"
  BY DeniedIs DEF FromPeer
<1> HIDE DEF a, b, d, e, h, i, X, said
<1> DEFINE f == (a \o i) \o b
<1>10. f \in Seq(X) /\ Fate(f, p) = IF Fate(a, p) # "silent" THEN Fate(a, p)
                                    ELSE IF Fate(i, p) # "silent" THEN Fate(i, p) ELSE Fate(b, p)
  BY <1>1, <1>2, <1>4, FateJoin3
<1> HIDE DEF f
<1> DEFINE g == (f \o h) \o e
<1>11. g \in Seq(X) /\ Fate(g, p) = IF Fate(f, p) # "silent" THEN Fate(f, p)
                                    ELSE IF Fate(h, p) # "silent" THEN Fate(h, p) ELSE Fate(e, p)
  BY <1>3, <1>5, <1>10, FateJoin3
<1> HIDE DEF g
<1>12. Fate(g \o d, p) = IF Fate(g, p) = "silent" THEN Fate(d, p) ELSE Fate(g, p)
  BY <1>6, <1>11, FateJoin
<1>13. dockerUser6Rules(rs, pub) = g \o d
  BY <1>7 DEF f, g
<1> QED
  BY <1>1, <1>2, <1>3, <1>4, <1>5, <1>6, <1>8, <1>9, <1>10, <1>11, <1>12, <1>13

LEMMA OutChainsDecide ==
  ASSUME NEW rs, Ruly(rs), NEW pub, NEW pass \in {"ACCEPT", "RETURN"}, NEW p \in Packet, p.state = "new"
  PROVE  /\ p.flow = "out" /\ Fam(p) # 6 =>
              (Fate(outChain(rs, "host", pass, v4Lines), p) = "drop" <=> Denied(rs, pub, p))
         /\ p.flow = "out" /\ Fam(p) = 6 =>
              (Fate(outChain(rs, "host", pass, outboundLines6), p) = "drop" <=> Denied(rs, pub, p))
         /\ p.flow = "egress" /\ Fam(p) # 6 =>
              (Fate(outChain(rs, "docker", pass, v4Lines), p) = "drop" <=> Denied(rs, pub, p))
<1> DEFINE said == RulesSay(rs, pub, p)
           a == << Line(InState({"established"}), pass) >>
           d == << Line(All, "RETURN") >>
<1>1. ASSUME NEW v, NEW b \in Seq(LineOf(v, Packet)), Fate(b, p) = said
      PROVE  Fate((a \o b) \o d, p) = "drop" <=> said = "drop"
  <2>1. a \in Seq(LineOf(v, Packet)) /\ Fate(a, p) = "silent"
    BY FateOfEstablished
  <2>2. d \in Seq(LineOf(v, Packet)) /\ Fate(d, p) = "pass"
    BY Singles, FateOfEnd DEF Target
  <2> HIDE DEF a, d, said
  <2>3. Fate((a \o b) \o d, p) = IF Fate(a, p) # "silent" THEN Fate(a, p)
                                 ELSE IF Fate(b, p) # "silent" THEN Fate(b, p) ELSE Fate(d, p)
    BY <2>1, <2>2, FateJoin3
  <2> QED
    BY <1>1, <2>1, <2>2, <2>3
<1>2. p.flow \in {"out", "egress"} => (Denied(rs, pub, p) <=> said = "drop")
  <2>1. p.flow \in {"out", "egress"} => ~FromPeer(p) /\ ~Exempt(rs, p)
    BY DEF FromPeer, Exempt
  <2> QED
    BY <2>1, DeniedIs
<1>3. /\ p.flow = "out" /\ Fam(p) # 6 => Fate(OutPart(rs, "host"), p) = said
      /\ p.flow = "out" /\ Fam(p) = 6 => Fate(OutPart6(rs, "host"), p) = said
      /\ p.flow = "egress" /\ Fam(p) # 6 => Fate(OutPart(rs, "docker"), p) = said
  BY PartsSay
<1>4. /\ OutPart(rs, "host") \in Seq(LineOf(4, Packet)) /\ OutPart6(rs, "host") \in Seq(LineOf(6, Packet))
      /\ OutPart(rs, "docker") \in Seq(LineOf(4, Packet))
  BY RuleSetLinesFit DEF Ruly
<1>5. /\ outChain(rs, "host", pass, v4Lines) = (a \o OutPart(rs, "host")) \o d
      /\ outChain(rs, "host", pass, outboundLines6) = (a \o OutPart6(rs, "host")) \o d
      /\ outChain(rs, "docker", pass, v4Lines) = (a \o OutPart(rs, "docker")) \o d
  BY DEF outChain, OutPart, OutPart6
<1> HIDE DEF a, d, said
<1> QED
  BY <1>1, <1>2, <1>3, <1>4, <1>5

\* An outbound chain that is not installed has no rule to hold.
LEMMA NothingToSend ==
  ASSUME NEW rs, Ruly(rs), NEW pub, NEW p \in Packet
  PROVE  /\ p.flow = "out" /\ ~sends(rs, "host") => ~Denied(rs, pub, p)
         /\ p.flow = "egress" /\ ~sends(rs, "docker") => ~Denied(rs, pub, p)
<1>1. ASSUME p.flow \in {"out", "egress"}, About(rs, pub, p) = {}
      PROVE  ~Denied(rs, pub, p)
  <2>1. RulesSay(rs, pub, p) = "silent" /\ ~FromPeer(p)
    BY <1>1 DEF RulesSay, FromPeer
  <2> QED
    BY <2>1, DeniedIs
<1>2. ASSUME NEW i \in DOMAIN rs.rules, SpeaksAbout(rs.rules[i], pub, p)
      PROVE  /\ p.flow = "out" => sends(rs, "host")
             /\ p.flow = "egress" => sends(rs, "docker")
  <2> DEFINE r == rs.rules[i]
  <2>1. r.zone \in {"auto", "host", "docker"}
    BY DEF Ruly, Sound
  <2>2. p.flow \in {"out", "egress"} => r.enabled /\ IsOutbound(r)
    BY <1>2 DEF SpeaksAbout, FromPeer, IsOutbound
  <2>3. /\ p.flow = "out" => r.zone # "docker"
        /\ p.flow = "egress" => r.zone # "host"
    BY <1>2 DEF SpeaksAbout
  <2> QED
    BY <2>1, <2>2, <2>3 DEF sends
<1> QED
  BY <1>1, <1>2 DEF About

\* The chain whose own packet a new connection is, with its verdict.
LEMMA ChainDecides ==
  ASSUME NEW k \in Configuration, NEW c \in Chains, NEW p \in New, p \in Own(c)
  PROVE  /\ Fate(LinesOf[k][c], p) = "drop" <=> Denied(RulesOf[k], Inventory(k.run), p)
         /\ Denied(RulesOf[k], Inventory(k.run), p) => c \in ChainsOf[k]
<1> DEFINE rs == RulesOf[k]
           pub == Inventory(k.run)
<1>1. Ruly(rs) /\ pub \in Inventories
  BY ConfigurationsRuly, ConfigurationsCompile
<1>2. LinesOf[k][c] = Compiled(rs, pub)[c]
  BY LinesFit
<1>3. ChainsOf[k] = Emitted(rs)
  <2>1. ChainsOf = [j \in Configuration |-> Emitted(RulesOf[j])]
    BY TableIs DEF ChainsOf
  <2> QED
    BY <2>1
<1>4. p \in Packet /\ p.state = "new" /\ ~(p.flow # "in" /\ Iif(p) = "docker" /\ Fam(p) = 6)
      /\ p.flow \in Flows
  BY PeerIs DEF New
<1>5. p \in Walk[c] /\ (c = "ZFW-FWD-OUT" => ~FromPeer(p)) /\ (c = "DOCKER-USER" => Iif(p) # "docker")
  BY <1>4, OnIs DEF Own, Leaving
<1>6. ((Fam(p) = 6) = (c \in V6Chains))
      /\ (p.flow = "in" => c \in {"ZFW-IN", "ZFW-IN6"})
      /\ (p.flow = "out" => c \in {"ZFW-OUT", "ZFW-OUT6"})
      /\ (p.flow \in {"fwd", "egress"} => c \in {"ZFW-FWD-OUT", "DOCKER-USER", "DOCKER-USER6"})
  BY <1>5 DEF Walk
<1>7. p.flow = "egress" => Iif(p) = "docker"
  BY DEF Iif
<1> HIDE DEF rs, pub
<1>8. CASE p.flow = "in"
  <2>1. CASE Fam(p) # 6
    <3>1. c = "ZFW-IN"
      BY <1>6, <1>8, <2>1 DEF V6Chains
    <3>2. Compiled(rs, pub)[c] = zfwInRules(rs, pub)
      BY <3>1 DEF Compiled
    <3> QED
      BY <1>1, <1>2, <1>3, <1>4, <1>8, <2>1, <3>1, <3>2, HostChainDecides DEF Emitted, rs, pub
  <2>2. CASE Fam(p) = 6
    <3>1. c = "ZFW-IN6"
      BY <1>6, <1>8, <2>2 DEF V6Chains
    <3>2. Compiled(rs, pub)[c] = zfwIn6Rules(rs)
      BY <3>1 DEF Compiled
    <3> QED
      BY <1>1, <1>2, <1>3, <1>4, <1>8, <2>2, <3>1, <3>2, HostChain6Decides DEF Emitted, rs, pub
  <2> QED
    BY <2>1, <2>2
<1>9. CASE p.flow = "fwd"
  <2>1. FromPeer(p)
    BY <1>9 DEF FromPeer
  <2>2. CASE Fam(p) # 6
    <3>1. c = "DOCKER-USER"
      BY <1>5, <1>6, <1>9, <2>1, <2>2 DEF V6Chains
    <3>2. Compiled(rs, pub)[c] = dockerUserRules(rs, pub)
      BY <3>1 DEF Compiled
    <3> QED
      BY <1>1, <1>2, <1>3, <1>4, <1>9, <2>2, <3>1, <3>2, DockerChainDecides DEF Emitted, rs, pub
  <2>3. CASE Fam(p) = 6
    <3>1. c = "DOCKER-USER6"
      BY <1>6, <1>9, <2>3 DEF V6Chains
    <3>2. Compiled(rs, pub)[c] = dockerUser6Rules(rs, pub)
      BY <3>1 DEF Compiled
    <3>3. Iif(p) # "docker"
      BY <1>4, <1>9, <2>3
    <3> QED
      BY <1>1, <1>2, <1>3, <1>4, <1>9, <2>3, <3>1, <3>2, <3>3, DockerChain6Decides DEF Emitted, rs, pub
  <2> QED
    BY <2>2, <2>3
<1>10. CASE p.flow = "out"
  <2>1. sends(rs, "host") => {"ZFW-OUT", "ZFW-OUT6"} \subseteq ChainsOf[k]
    BY <1>3 DEF Emitted, rs
  <2>2. Denied(rs, pub, p) => sends(rs, "host")
    BY <1>1, <1>4, <1>10, NothingToSend
  <2>3. CASE Fam(p) # 6
    <3>1. c = "ZFW-OUT"
      BY <1>6, <1>10, <2>3 DEF V6Chains
    <3>2. Compiled(rs, pub)[c] = outChain(rs, "host", "ACCEPT", v4Lines)
      BY <3>1 DEF Compiled
    <3>3. Fate(outChain(rs, "host", "ACCEPT", v4Lines), p) = "drop" <=> Denied(rs, pub, p)
      BY <1>1, <1>4, <1>10, <2>3, OutChainsDecide
    <3> QED
      BY <1>2, <2>1, <2>2, <3>1, <3>2, <3>3 DEF rs, pub
  <2>4. CASE Fam(p) = 6
    <3>1. c = "ZFW-OUT6"
      BY <1>6, <1>10, <2>4 DEF V6Chains
    <3>2. Compiled(rs, pub)[c] = outChain(rs, "host", "RETURN", outboundLines6)
      BY <3>1 DEF Compiled
    <3>3. Fate(outChain(rs, "host", "RETURN", outboundLines6), p) = "drop" <=> Denied(rs, pub, p)
      BY <1>1, <1>4, <1>10, <2>4, OutChainsDecide
    <3> QED
      BY <1>2, <2>1, <2>2, <3>1, <3>2, <3>3 DEF rs, pub
  <2> QED
    BY <2>3, <2>4
<1>11. CASE p.flow = "egress"
  <2>1. Fam(p) # 6 /\ Iif(p) = "docker"
    BY <1>4, <1>7, <1>11
  <2>2. c = "ZFW-FWD-OUT"
    BY <1>5, <1>6, <1>11, <2>1 DEF V6Chains
  <2>3. sends(rs, "docker") => "ZFW-FWD-OUT" \in ChainsOf[k]
    BY <1>3 DEF Emitted, rs
  <2>4. Denied(rs, pub, p) => sends(rs, "docker")
    BY <1>1, <1>4, <1>11, NothingToSend
  <2>5. Compiled(rs, pub)[c] = outChain(rs, "docker", "RETURN", v4Lines)
    BY <2>2 DEF Compiled
  <2>6. Fate(outChain(rs, "docker", "RETURN", v4Lines), p) = "drop" <=> Denied(rs, pub, p)
    BY <1>1, <1>4, <1>11, <2>1, OutChainsDecide
  <2> QED
    BY <1>2, <2>2, <2>3, <2>4, <2>5, <2>6 DEF rs, pub
<1> QED
  BY <1>4, <1>8, <1>9, <1>10, <1>11 DEF Flows

\* Every packet the rules may deny is the own packet of a chain.
LEMMA HomeOf ==
  ASSUME NEW rs, NEW pub, NEW p \in New, Denied(rs, pub, p)
  PROVE  \E c \in Chains : p \in Own(c) /\ p \in Walk[c]
<1>1. p \in Packet /\ ~(p.flow # "in" /\ Iif(p) = "docker" /\ Fam(p) = 6)
  BY DEF New
<1>2. p.flow \in Flows
  BY <1>1, PeerIs
<1>3. p.flow = "fwd" => FromPeer(p) /\ Iif(p) # "docker"
  BY DEF Denied, Exempt, FromPeer
<1>4. p.flow = "egress" => ~FromPeer(p) /\ Fam(p) # 6
  BY <1>1 DEF FromPeer, Iif
<1> DEFINE c == CASE p.flow = "in"  -> IF Fam(p) = 6 THEN "ZFW-IN6" ELSE "ZFW-IN"
                  [] p.flow = "out" -> IF Fam(p) = 6 THEN "ZFW-OUT6" ELSE "ZFW-OUT"
                  [] p.flow = "fwd" -> IF Fam(p) = 6 THEN "DOCKER-USER6" ELSE "DOCKER-USER"
                  [] OTHER          -> "ZFW-FWD-OUT"
<1>5. c \in Chains /\ p \in Walk[c]
  <2>1. CASE p.flow = "in"
    BY <1>1, <2>1 DEF Chains, Walk, V6Chains
  <2>2. CASE p.flow = "out"
    BY <1>1, <2>2 DEF Chains, Walk, V6Chains
  <2>3. CASE p.flow = "fwd"
    BY <1>1, <2>3 DEF Chains, Walk, V6Chains
  <2>4. CASE p.flow = "egress"
    BY <1>1, <1>4, <2>4 DEF Chains, Walk, V6Chains
  <2> QED
    BY <1>2, <2>1, <2>2, <2>3, <2>4 DEF Flows
<1>6. /\ c = "ZFW-FWD-OUT" => p \in Leaving
      /\ c = "DOCKER-USER" => p \notin OnIface({"docker"}).on
  <2>1. c = "ZFW-FWD-OUT" => p.flow = "egress"
    BY <1>2 DEF Flows
  <2>2. c = "DOCKER-USER" => p.flow = "fwd"
    BY <1>2 DEF Flows
  <2> HIDE DEF c
  <2> QED
    BY <1>1, <1>3, <1>4, <2>1, <2>2, OnIs DEF Leaving
<1> HIDE DEF c
<1> QED
  BY <1>5, <1>6 DEF Own

\* What a configuration's chains drop of the new connections is what its rules deny.
LEMMA ConfigurationDecides ==
  ASSUME NEW k \in Configuration, NamesPeers(RulesOf[k]), NEW p \in New
  PROVE  (\E c \in ChainsOf[k] : p \in Effects[k][c][Len(LinesOf[k][c]) + 1].drop)
           <=> Denied(RulesOf[k], Inventory(k.run), p)
<1> DEFINE drop(c) == Effects[k][c][Len(LinesOf[k][c]) + 1].drop
           denied == Denied(RulesOf[k], Inventory(k.run), p)
<1>1. ASSUME NEW c \in Chains
      PROVE  p \in drop(c) <=> p \in Walk[c] /\ Fate(LinesOf[k][c], p) = "drop"
  <2>1. drop(c) = Sifted(c, LinesOf[k][c])[Len(LinesOf[k][c]) + 1].drop
    BY EffectsAre
  <2>2. LinesOf[k][c] \in Seq(LineOf(FamilyOf(c), Packet))
    BY LinesFit
  <2> QED
    BY <2>1, <2>2, SiftedFate
<1>2. ASSUME NEW c \in Chains, p \in drop(c)
      PROVE  p \in Own(c)
  <2>1. Len(LinesOf[k][c]) \in 0 .. Len(LinesOf[k][c])
    BY LinesFit
  <2> QED
    BY <1>2, <2>1, ChainsDecide
<1>3. ChainsOf[k] \subseteq Chains
  BY ChainsOfIs
<1> HIDE DEF drop
<1>4. ASSUME NEW c \in ChainsOf[k], p \in drop(c)
      PROVE  denied
  BY <1>1, <1>2, <1>3, <1>4, ChainDecides
<1>5. ASSUME denied
      PROVE  \E c \in ChainsOf[k] : p \in drop(c)
  <2>1. PICK c \in Chains : p \in Own(c) /\ p \in Walk[c]
    BY <1>5, HomeOf
  <2>2. Fate(LinesOf[k][c], p) = "drop" /\ c \in ChainsOf[k]
    BY <1>5, <2>1, ChainDecides
  <2> QED
    BY <1>1, <2>1, <2>2
<1> QED
  BY <1>4, <1>5 DEF drop

\* Between applies the kernel drops what the recorded configuration drops.
LEMMA AtRest ==
  ASSUME LiveInv, ~Running
  PROVE  live \in Configuration \cup {Nothing} /\ Dropped = DroppedBy[live]
<1>1. live \in Configuration \cup {Nothing} /\ kernel = Whole(live) /\ hooked = HooksOf(live)
  BY DEF LiveInv
<1>2. DroppedBy = [k \in Configuration \cup {Nothing} |->
        Drops(Whole(k), DockerChains \cup (IF k = Nothing THEN {} ELSE ChainsOf[k]))]
  BY TableIs DEF DroppedBy
<1>3. HooksOf(live) = DockerChains \cup (IF live = Nothing THEN {} ELSE ChainsOf[live])
  <2>1. live # Nothing => DockerChains \subseteq ChainsOf[live]
    BY <1>1, ChainsOfIs
  <2> QED
    BY <2>1 DEF HooksOf
<1> QED
  BY <1>1, <1>2, <1>3 DEF Dropped

-----------------------------------------------------------------------------
(* The theorems *)

\* Between applies the kernel decides every new connection as the rules read
\* as a specification say: the sorting, the splitting of ports into multiport
\* chunks and of zone "auto" into two chains, the rate-limit lines, the
\* bypasses and the end of every chain come to what Denied says in one line.
THEOREM DecisionsAlwaysFollowRules ==
  ASSUME \A name \in Valid : NamesPeers(RuleSets[name])
  PROVE  Spec => []DecisionsFollowRules
<1>1. \A k \in Configuration : NamesPeers(RulesOf[k])
  BY PeersStayNamed
<1>2. ASSUME LiveInv, ~Running
      PROVE  Dropped \cap New = IF live = Nothing THEN {}
                                ELSE {p \in New : Denied(RulesOf[live], Inventory(live.run), p)}
  <2>1. live \in Configuration \cup {Nothing} /\ Dropped = DroppedBy[live]
    BY <1>2, AtRest
  <2>2. CASE live = Nothing
    BY <1>1, <2>1, <2>2, DroppedByIs
  <2>3. CASE live # Nothing
    <3>1. live \in Configuration
      BY <2>1, <2>3
    <3>2. \A p \in New : p \in Dropped <=> Denied(RulesOf[live], Inventory(live.run), p)
      <4>1. ASSUME NEW p \in New
            PROVE  p \in Dropped <=> Denied(RulesOf[live], Inventory(live.run), p)
        <5>1. p \in Dropped <=> \E c \in ChainsOf[live] :
                p \in Effects[live][c][Len(LinesOf[live][c]) + 1].drop
          BY <1>1, <2>1, <3>1, DroppedByIs
        <5> QED
          BY <1>1, <3>1, <5>1, ConfigurationDecides
      <4> QED
        BY <4>1
    <3> QED
      BY <2>3, <3>2
  <2> QED
    BY <2>2, <2>3
<1>3. LiveInv => DecisionsFollowRules
  BY <1>2 DEF DecisionsFollowRules
<1> QED
  BY <1>3, LiveInvHolds, PTL

-----------------------------------------------------------------------------
(* The audit of IPv6 *)

\* In a blind rule set no rule lets anything in over IPv6.
LEMMA BlindDenies ==
  ASSUME NEW rs, Ruly(rs), Blind(rs), NEW pub, NEW p \in New,
         p.flow = "in", Fam(p) = 6, ~Exempt(rs, p)
  PROVE  Denied(rs, pub, p)
<1> DEFINE A == About(rs, pub, p)
<1>1. p \in Packet /\ FromPeer(p) /\ rs.policy = "deny" /\ Compilable(rs)
  BY DEF New, FromPeer, Ruly, Blind
<1>2. ASSUME NEW i \in A
      PROVE  rs.rules[i].action = "deny"
  <2> DEFINE r == rs.rules[i]
  <2>1. i \in DOMAIN rs.rules /\ SpeaksAbout(r, pub, p)
    BY <1>2 DEF About
  <2>2. r \in Rule /\ Sound(r)
    BY <1>1, <2>1 DEF Ruly, Compilable
  <2>3. r.enabled /\ ~IsOutbound(r)
    BY <1>1, <2>1 DEF SpeaksAbout, IsOutbound
  <2>4. Fate(IF r.enabled THEN hostLines6(r) ELSE <<>>, p) = Verdict(r, p)
    BY <1>1, <2>1, <2>2, HostRuleFate6 DEF Says
  <2>5. hostLines6(r) # <<>>
    BY <2>3, <2>4, FateOfNone DEF Verdict
  <2>6. Mirrored(r)
    BY <2>3, <2>5 DEF Mirrored, v6Lines
  <2> QED
    BY <2>1, <2>3, <2>6 DEF Blind
<1>3. CASE A = {}
  <2>1. RulesSay(rs, pub, p) = "silent"
    BY <1>3 DEF RulesSay
  <2> QED
    BY <1>1, <2>1, DeniedIs
<1>4. CASE A # {}
  <2>1. A \in SUBSET DOMAIN rs.rules
    BY DEF About
  <2> HIDE DEF A
  <2>2. PICK i : Foremost(rs, A, i)
    BY <1>1, <1>4, <2>1, ForemostIs
  <2>3. RulesSay(rs, pub, p) = Verdict(rs.rules[i], p) /\ i \in A
    BY <1>1, <2>2, RulesSayIs DEF A, Foremost
  <2>4. RulesSay(rs, pub, p) = "drop"
    BY <1>2, <2>3 DEF Verdict
  <2> QED
    BY <1>1, <2>4, DeniedIs
<1> QED
  BY <1>3, <1>4

\* What the rules deny of the connections to the host is dropped, whatever
\* the outbound chains accept.
LEMMA DeniedInIsDropped ==
  ASSUME LiveInv, ~Running, live \in Configuration, NEW p \in New, p.flow = "in",
         Denied(RulesOf[live], Inventory(live.run), p)
  PROVE  p \in Dropped
<1> DEFINE c == IF Fam(p) = 6 THEN "ZFW-IN6" ELSE "ZFW-IN"
           out == "ZFW-FWD-OUT"
           full(d) == Effects[live][d][Len(LinesOf[live][d]) + 1]
<1>1. p \in Packet /\ live # Nothing
  BY DEF New, Configuration, Nothing
<1>2. c \in Chains /\ p \in Walk[c] /\ p \in Own(c)
  BY <1>1 DEF Chains, Walk, V6Chains, Own
<1>3. out \in Chains /\ p \notin Walk[out]
  BY DEF Chains, Walk
<1> HIDE DEF c, out
<1>4. Fate(LinesOf[live][c], p) = "drop" /\ c \in ChainsOf[live]
  BY <1>2, ChainDecides
<1>5. ASSUME NEW d \in Chains
      PROVE  /\ full(d) = Sifted(d, LinesOf[live][d])[Len(LinesOf[live][d]) + 1]
             /\ LinesOf[live][d] \in Seq(LineOf(FamilyOf(d), Packet))
             /\ Len(LinesOf[live][d]) \in 0 .. Len(LinesOf[live][d]) /\ Len(LinesOf[live][d]) \in Nat \ {0}
  BY EffectsAre, LinesFit
<1>6. p \in full(c).drop
  BY <1>2, <1>4, <1>5, SiftedFate
<1>7. p \notin full(out).accept
  <2> DEFINE lines == LinesOf[live][out]
  <2>1. lines \in Seq(LineOf(FamilyOf(out), Packet)) /\ Len(lines) \in 0 .. Len(lines)
    BY <1>3, <1>5
  <2>2. DecidesOnly(lines, Packet)
    <3>1. \A i \in DOMAIN lines : lines[i] \in LineOf(FamilyOf(out), Packet)
      BY <2>1
    <3>2. \A l \in LineOf(FamilyOf(out), Packet) : l.on \subseteq Packet
      BY DEF LineOf
    <3> QED
      BY <3>1, <3>2 DEF DecidesOnly
  <2>3. full(out) = Sifted(out, lines)[Len(lines) + 1]
    BY <1>3, <1>5
  <2> HIDE DEF lines, full
  <2>4. Sifted(out, lines)[Len(lines) + 1].drop \cup Sifted(out, lines)[Len(lines) + 1].accept
          \subseteq Walk[out] \cap Packet
    BY <1>3, <2>1, <2>2, SiftedBounds
  <2> QED
    BY <1>3, <2>3, <2>4
<1>8. ASSUME NEW d \in ChainsOf[live] PROVE Effect(kernel[d], d) = full(d)
  <2>1. d \in Chains /\ Len(LinesOf[live][d]) \in Nat \ {0}
    BY <1>5, ChainsOfIs
  <2>2. kernel[d] = [of |-> live, n |-> Len(LinesOf[live][d])]
    BY <1>1, <1>8, <2>1, WholeIs DEF LiveInv
  <2>3. kernel[d] # Stock
    BY <2>1, <2>2 DEF Stock
  <2> QED
    BY <2>2, <2>3 DEF Effect
<1>9. hooked = ChainsOf[live]
  BY <1>1 DEF LiveInv, HooksOf
<1> HIDE DEF full
<1>10. p \in Drops(kernel, hooked) <=>
         /\ \E d \in hooked : p \in Effect(kernel[d], d).drop
         /\ out \in hooked => p \notin Effect(kernel[out], out).accept
  BY DropsIs DEF out
<1> QED
  BY <1>4, <1>6, <1>7, <1>8, <1>9, <1>10 DEF Dropped

\* Two rule sets whose rules have the same orders are sorted alike.
SameOrders(a, b) ==
  /\ DOMAIN a = DOMAIN b
  /\ \A i \in DOMAIN a : a[i].order \in Int /\ b[i].order = a[i].order

LEMMA SortedAlike ==
  ASSUME NEW X, NEW a \in Seq(X), NEW b \in Seq(X), SameOrders(a, b), NEW k \in DOMAIN a
  PROVE  \E i \in DOMAIN a : sorted(a)[k] = a[i] /\ sorted(b)[k] = b[i]
<1>0. DOMAIN a = DOMAIN b /\ \A i \in DOMAIN a : a[i].order \in Int /\ b[i].order = a[i].order
  BY DEF SameOrders
<1>1. PICK at : Places(a, at)
  BY <1>0, SortedPlaces
<1>2. PICK bt : Places(b, bt)
  BY <1>0, SortedPlaces
<1>3. \A i \in DOMAIN a : Rank(a, i) = Rank(b, i)
  BY <1>0 DEF Rank, Before
<1>4. \A i \in DOMAIN a : at[i] = bt[i]
  BY <1>0, <1>1, <1>2, <1>3 DEF Places
<1>5. PICK i \in DOMAIN a : at[i] = k
  BY <1>1 DEF Places
<1>6. sorted(a)[at[i]] = a[i] /\ sorted(b)[bt[i]] = b[i] /\ bt[i] = k
  BY <1>0, <1>1, <1>2, <1>4, <1>5 DEF Places
<1> QED
  BY <1>5, <1>6

LEMMA RulesAreASet ==
  ASSUME NEW k \in Configuration
  PROVE  RulesOf[k] \in RuleSet
<1> DEFINE rs == RuleSets[k.name]
           bind(r) == IF r.container \notin k.run \/ all(Published[r.container]) = {} THEN r
                      ELSE [r EXCEPT !.ports = ListPorts(sortedPorts(all(Published[r.container])))]
           bound == [i \in DOMAIN rs.rules |-> bind(rs.rules[i])]
<1>1. rs \in RuleSet
  BY RuleSetsAssumption DEF Configuration, Valid
<1>2. RulesOf[k] = [rs EXCEPT !.rules = bound]
  <2>1. RulesOf = [j \in Configuration |-> Resolved(j.name, j.run)]
    BY TableIs DEF RulesOf
  <2>2. RulesOf[k] = Resolved(k.name, k.run)
    BY <2>1
  <2> QED
    BY <2>2 DEF Resolved
<1>3. RulesOf[k].rules \in Seq(Rule)
  BY ConfigurationsCompile DEF Compilable
<1> HIDE DEF bound, rs
<1> QED
  BY <1>1, <1>2, <1>3 DEF RuleSet

\* Without a rule that the audit calls not mirrored the host chains of IPv6
\* hold the same lines.
LEMMA UnmirroredWritesNothing ==
  ASSUME NEW rs \in RuleSet, NEW pub, NEW i \in DOMAIN rs.rules, ~Mirrored(rs.rules[i])
  PROVE  LET less == [rs EXCEPT !.rules[i].enabled = FALSE]
         IN  /\ zfwIn6Rules(less) = zfwIn6Rules(rs)
             /\ \A zone : outChain(less, zone, "RETURN", outboundLines6)
                            = outChain(rs, zone, "RETURN", outboundLines6)
<1> DEFINE less == [rs EXCEPT !.rules[i].enabled = FALSE]
           a == rs.rules
           b == less.rules
           D == DOMAIN a
<1>1. a \in Seq(Rule) /\ \A r \in Rule : r.order \in Int /\ r.enabled \in BOOLEAN
  BY DEF RuleSet, Rule
<1>2. /\ b = [a EXCEPT ![i].enabled = FALSE]
      /\ less.policy = rs.policy /\ less.v6drop = rs.v6drop
  BY DEF RuleSet
<1>3. /\ b \in Seq(Rule) /\ DOMAIN b = D /\ b[i] = [a[i] EXCEPT !.enabled = FALSE]
      /\ \A j \in D : j # i => b[j] = a[j]
  <2>1. ASSUME NEW r \in Rule PROVE [r EXCEPT !.enabled = FALSE] \in Rule
    BY DEF Rule
  <2> DEFINE off == [a[i] EXCEPT !.enabled = FALSE]
  <2>2. a[i] \in Rule /\ i \in D
    BY <1>1
  <2>3. off \in Rule /\ b = [a EXCEPT ![i] = off]
    BY <1>2, <2>1, <2>2
  <2> HIDE DEF less, b, a, off
  <2>4. [a EXCEPT ![i] = off] \in Seq(Rule) /\ DOMAIN [a EXCEPT ![i] = off] = D
        /\ [a EXCEPT ![i] = off][i] = off
        /\ \A j \in D : j # i => [a EXCEPT ![i] = off][j] = a[j]
    BY <1>1, <2>2, <2>3
  <2> QED
    BY <2>3, <2>4 DEF off
<1>4. ~b[i].enabled /\ b[i].order = a[i].order
  <2>1. a[i] \in Rule
    BY <1>1
  <2> HIDE DEF b, a
  <2> QED
    BY <1>3, <2>1 DEF Rule
<1> HIDE DEF b, a, less
<1>5. \A j \in D : a[j].order \in Int /\ b[j].order = a[j].order
  <2>1. ASSUME NEW j \in D PROVE a[j].order \in Int /\ b[j].order = a[j].order
    <3>1. a[j] \in Rule
      BY <1>1
    <3>2. j = i \/ b[j] = a[j]
      BY <1>3
    <3> QED
      BY <1>1, <1>4, <3>1, <3>2
  <2> QED
    BY <2>1
<1>6. ASSUME NEW k \in D PROVE \E j \in D : sorted(a)[k] = a[j] /\ sorted(b)[k] = b[j]
  <2>1. a \in Seq(Rule) /\ b \in Seq(Rule) /\ DOMAIN a = DOMAIN b /\ k \in DOMAIN a
    BY <1>1, <1>3
  <2>2. SameOrders(a, b)
    BY <1>3, <1>5 DEF SameOrders
  <2> QED
    BY <2>1, <2>2, SortedAlike
<1>7. DOMAIN sorted(a) = D /\ DOMAIN sorted(b) = D
  <2>1. /\ sorted(a) \in Seq(Rule) /\ Len(sorted(a)) = Len(a)
        /\ sorted(b) \in Seq(Rule) /\ Len(sorted(b)) = Len(b)
    BY <1>1, <1>3, <1>5, SortedIs
  <2> QED
    BY <1>1, <1>3, <2>1
<1>8. v6Lines(a[i]) = <<>>
  BY DEF Mirrored, a
<1> DEFINE in(r) == IF r.enabled THEN hostLines6(r) ELSE <<>>
           sent(r, z) == IF r.enabled
                         THEN IF IsOutbound(r) /\ r.zone \in {"auto", z} THEN outboundLines6(r) ELSE <<>>
                         ELSE <<>>
<1>9. in(a[i]) = <<>> /\ in(b[i]) = <<>> /\ \A z : sent(a[i], z) = <<>> /\ sent(b[i], z) = <<>>
  <2>1. IsOutbound(a[i]) => hostLines6(a[i]) = <<>> /\ outboundLines6(a[i]) = <<>>
    BY <1>8 DEF v6Lines, hostLines6
  <2>2. ~IsOutbound(a[i]) => hostLines6(a[i]) = <<>>
    BY <1>8 DEF v6Lines
  <2> QED
    BY <1>4, <2>1, <2>2
<1> HIDE DEF in, sent, D
<1>10. \A k \in D : /\ in(sorted(a)[k]) = in(sorted(b)[k])
                    /\ \A z : sent(sorted(a)[k], z) = sent(sorted(b)[k], z)
  <2>1. \A j \in D : in(a[j]) = in(b[j]) /\ \A z : sent(a[j], z) = sent(b[j], z)
    BY <1>3, <1>9
  <2> QED
    BY <1>6, <2>1
<1>11. ruleLines(less, hostLines6) = ruleLines(rs, hostLines6)
  <2>1. /\ ruleLines(rs, hostLines6) = Concat([k \in DOMAIN sorted(a) |-> in(sorted(a)[k])])
        /\ ruleLines(less, hostLines6) = Concat([k \in DOMAIN sorted(b) |-> in(sorted(b)[k])])
    BY DEF ruleLines, in, a, b
  <2>2. [k \in DOMAIN sorted(a) |-> in(sorted(a)[k])] = [k \in DOMAIN sorted(b) |-> in(sorted(b)[k])]
    BY <1>7, <1>10
  <2> QED
    BY <2>1, <2>2
<1>12. ASSUME NEW z PROVE OutPart6(less, z) = OutPart6(rs, z)
  <2>1. /\ OutPart6(rs, z) = Concat([k \in DOMAIN sorted(a) |-> sent(sorted(a)[k], z)])
        /\ OutPart6(less, z) = Concat([k \in DOMAIN sorted(b) |-> sent(sorted(b)[k], z)])
    BY DEF ruleLines, OutPart6, sent, a, b
  <2>2. [k \in DOMAIN sorted(a) |-> sent(sorted(a)[k], z)] = [k \in DOMAIN sorted(b) |-> sent(sorted(b)[k], z)]
    BY <1>7, <1>10
  <2> QED
    BY <2>1, <2>2
<1>13. zfwIn6Rules(less) = zfwIn6Rules(rs)
  <2> DEFINE top == hostBypass("RETURN", {546}, linkLocalMDNS)
             lines(x) == ruleLines(x, hostLines6)
             drops(x) == DropList(x.v6drop)
             last(x) == IF x.policy = "allow" THEN << Line(All, "RETURN") >>
                        ELSE << Line(All, "ZFW-APPS-IN6"), Line(All, "DROP") >>
             chain(x) == ((top \o lines(x)) \o drops(x)) \o last(x)
  <2>1. zfwIn6Rules(less) = chain(less) /\ zfwIn6Rules(rs) = chain(rs)
    BY DEF zfwIn6Rules, DropList
  <2>2. lines(less) = lines(rs) /\ drops(less) = drops(rs) /\ last(less) = last(rs)
    BY <1>2, <1>11
  <2> HIDE DEF top, lines, drops, last
  <2>3. chain(less) = chain(rs)
    BY <2>2
  <2> HIDE DEF chain
  <2> QED
    BY <2>1, <2>3
<1>14. \A zone : outChain(less, zone, "RETURN", outboundLines6) = outChain(rs, zone, "RETURN", outboundLines6)
  <2>1. ASSUME NEW x, NEW z
        PROVE  outChain(x, z, "RETURN", outboundLines6)
                 = << Line(InState({"established"}), "RETURN") >> \o OutPart6(x, z) \o << Line(All, "RETURN") >>
    BY DEF outChain, OutPart6
  <2> QED
    BY <1>12, <2>1
<1> QED
  BY <1>13, <1>14 DEF less

\* The IPv6 audit is honest, for every rule set that Validate accepts: when it
\* calls the rules blind, no new IPv6 connection but those exempt gets in, and
\* a rule it reports as not mirrored writes no line into ZFW-IN6 or ZFW-OUT6,
\* so that deleting it changes nothing there.
THEOREM V6AuditIsAlwaysHonest == Spec => []V6AuditHonest
<1>1. ASSUME LiveInv, ~Running, live # Nothing
      PROVE  V6AuditHonest
  <2> DEFINE rs == RulesOf[live]
             pub == Inventory(live.run)
             without(i) == [rs EXCEPT !.rules[i].enabled = FALSE]
             hostChains == {"ZFW-IN6", "ZFW-OUT6"}
  <2>1. live \in Configuration
    BY <1>1 DEF LiveInv
  <2>2. Ruly(rs) /\ rs \in RuleSet
    BY <2>1, ConfigurationsRuly, RulesAreASet
  <2>3. Blind(rs) => \A p \in New :
             p.flow = "in" /\ Fam(p) = 6 /\ ~Exempt(rs, p) => p \in Dropped
    <3>1. ASSUME Blind(rs), NEW p \in New, p.flow = "in", Fam(p) = 6, ~Exempt(rs, p)
          PROVE  p \in Dropped
      <4>1. Denied(rs, pub, p)
        BY <2>2, <3>1, BlindDenies
      <4> QED
        BY <1>1, <2>1, <3>1, <4>1, DeniedInIsDropped
    <3> QED
      BY <3>1
  <2>4. ASSUME NEW i \in DOMAIN rs.rules, ~Mirrored(rs.rules[i]), NEW c \in hostChains
        PROVE  Compiled(without(i), pub)[c] = LinesOf[live][c]
    <3>1. c \in Chains /\ LinesOf[live][c] = Compiled(rs, pub)[c]
      BY <2>1, <2>4, LinesFit DEF Chains
    <3> DEFINE less == without(i)
    <3>2. /\ zfwIn6Rules(less) = zfwIn6Rules(rs)
          /\ outChain(less, "host", "RETURN", outboundLines6) = outChain(rs, "host", "RETURN", outboundLines6)
      BY <2>2, <2>4, UnmirroredWritesNothing
    <3> HIDE DEF less, rs, pub
    <3>3. Compiled(less, pub)[c] = Compiled(rs, pub)[c]
      <4>1. CASE c = "ZFW-IN6"
        BY <3>1, <3>2, <4>1 DEF Compiled
      <4>2. CASE c = "ZFW-OUT6"
        BY <3>1, <3>2, <4>2 DEF Compiled
      <4> QED
        BY <2>4, <4>1, <4>2
    <3> QED
      BY <3>1, <3>3 DEF less
  <2> HIDE DEF without
  <2> QED
    BY <2>3, <2>4 DEF V6AuditHonest, without
<1>2. LiveInv => V6AuditHonest
  BY <1>1 DEF V6AuditHonest
<1> QED
  BY <1>2, LiveInvHolds, PTL

-----------------------------------------------------------------------------
(* The exposure audit *)

\* A rule that ReachOf takes for the end of the list: it denies everyone at
\* every hour.
Closes(r) ==
  inbound(r) /\ r.action = "deny" /\ r.source.type = "any" /\ r.schedule = "none"

\* ReachOf reads the rules in the order they are stored, the compiler in that
\* of their numbers.  (The editor numbers the rules as they are stored.)
Ordered(rs) ==
  \A i, j \in DOMAIN rs.rules :
    i < j /\ Closes(rs.rules[i]) /\ inbound(rs.rules[j]) /\ rs.rules[j].action = "allow"
      => rs.rules[i].order <= rs.rules[j].order

\* A rule of zone "auto" that closes ports closes those of the host: the port
\* of a container is closed in the docker chain only, also when the container
\* has stopped since and the port is the host's.
Settled(rs, pub) ==
  \A i \in DOMAIN rs.rules :
    LET r == rs.rules[i]
    IN  Closes(r) /\ r.zone = "auto" /\ r.ports.type = "list"
          => \A j \in DOMAIN r.ports.list : r.ports.list[j] \notin all(pub)

\* The packet that opens a connection to a TCP port of a zone.
Opening(x, zone, q) ==
  /\ x \in Packet /\ x.state = "new" /\ x.proto = "tcp" /\ x.port = q /\ Fam(x) # 6
  /\ x.flow = IF zone = "docker" THEN "fwd" ELSE "in"

\* The rules ReachOf looks at and those the kernel asks.
LEMMA ConcerningIsAbout ==
  ASSUME NEW rs, Ruly(rs), NEW pub, NEW zone \in {"host", "docker"}, NEW q, NEW x, Opening(x, zone, q),
         NEW known \in BOOLEAN, known = (zone = "docker" => q \in all(pub)),
         NEW i \in DOMAIN rs.rules
  PROVE  /\ i \in About(rs, pub, x) =>
              /\ i \in concerning(rs, zone, "tcp", q, known)
              /\ rs.rules[i].source.type = "any" \/ x.peer \in rs.rules[i].source.of
         /\ i \in concerning(rs, zone, "tcp", q, known) /\ Closes(rs.rules[i]) /\ Settled(rs, pub)
              => i \in About(rs, pub, x)
<1> DEFINE r == rs.rules[i]
           listed == r.ports.type = "list" /\ q \in all(pub)
<1>1. /\ x.flow \in {"in", "fwd"} /\ FromPeer(x) /\ Fam(x) # 6 /\ x.proto = "tcp" /\ x.port = q
      /\ x.flow = "in" <=> zone = "host"
  BY DEF Opening, FromPeer
<1>2. i \in About(rs, pub, x) <=> SpeaksAbout(r, pub, x)
  BY DEF About
<1>3. SpeaksAbout(r, pub, x) <=>
        /\ r.enabled /\ ~IsOutbound(r)
        /\ IF zone = "host" THEN r.zone = "host" \/ (r.zone = "auto" /\ ~listed)
           ELSE r.zone = "docker" \/ (r.zone = "auto" /\ listed)
        /\ protoMatch(r, "tcp") /\ portMatch(r.ports, q)
        /\ r.source.type = "any" \/ x.peer \in r.source.of
        /\ r.source.type # "any" => isIPv6Source(r.source) = FALSE
        /\ r.schedule = "day" => x.when # "night"
  <2>1. CASE zone = "host"
    BY <1>1, <2>1 DEF SpeaksAbout, IsOutbound
  <2>2. CASE zone = "docker"
    BY <1>1, <2>2 DEF SpeaksAbout, IsOutbound
  <2> QED
    BY <2>1, <2>2
<1>4. i \in concerning(rs, zone, "tcp", q, known) <=>
        /\ r.enabled /\ ~IsOutbound(r) /\ protoMatch(r, "tcp") /\ portMatch(r.ports, q)
        /\ IF zone = "host" THEN r.zone \in {"host", "auto"}
           ELSE r.zone = "docker" \/ (r.zone = "auto" /\ r.ports.type = "list" /\ known)
  BY DEF concerning, inbound, reachesChain
<1>5. ASSUME Closes(r), Settled(rs, pub), r.zone = "auto", portMatch(r.ports, q)
      PROVE  ~listed
  BY <1>5 DEF Settled, portMatch
<1> QED
  BY <1>1, <1>2, <1>3, <1>4, <1>5 DEF Closes

\* A connection that the rules let in comes from whom ReachOf names.
LEMMA ReachCovers ==
  ASSUME NEW rs, Ruly(rs), Ordered(rs), NEW pub, Settled(rs, pub),
         NEW zone \in {"host", "docker"}, NEW q, NEW x, Opening(x, zone, q),
         NEW known \in BOOLEAN, known = (zone = "docker" => q \in all(pub)),
         ~Exempt(rs, x), ~Denied(rs, pub, x)
  PROVE  LET lv == ReachOf(rs, zone, "tcp", q, known)
         IN  lv.verdict = "open" \/ (lv.verdict = "restricted" /\ x.peer \in lv.sources)
<1> DEFINE A == About(rs, pub, x)
           about == concerning(rs, zone, "tcp", q, known)
           stops == {i \in about : /\ rs.rules[i].action = "deny"
                                   /\ rs.rules[i].source.type = "any"
                                   /\ rs.rules[i].schedule = "none"}
           allows == {i \in about : /\ rs.rules[i].action = "allow"
                                    /\ \A j \in stops : i < j}
           wide == {i \in allows : ~narrowSource(rs.rules[i].source, rs.lan)}
           named == UNION {rs.rules[i].source.of : i \in allows}
           verdict(v, S) == [verdict |-> v, sources |-> S]
<1>1. ReachOf(rs, zone, "tcp", q, known) =
        IF wide # {} \/ (stops = {} /\ rs.policy = "allow") THEN verdict("open", {})
        ELSE IF allows # {} THEN verdict("restricted", named) ELSE verdict("closed", {})
  BY DEF ReachOf
<1>2. x \in Packet /\ FromPeer(x) /\ Fam(x) # 6 /\ Compilable(rs)
  BY DEF Opening, FromPeer, Ruly
<1>3. RulesSay(rs, pub, x) = "pass" \/ (RulesSay(rs, pub, x) = "silent" /\ rs.policy = "allow")
  <2>1. rs.policy \in {"deny", "allow"}
    BY DEF Ruly
  <2> QED
    BY <1>2, <2>1, DeniedIs, VerdictIs
<1>4. about \subseteq DOMAIN rs.rules
  BY DEF concerning
<1>5. \A i \in stops : i \in A
  <2>1. ASSUME NEW i \in stops PROVE i \in A
    <3>1. i \in DOMAIN rs.rules /\ i \in about /\ Closes(rs.rules[i])
      BY <1>4 DEF concerning, Closes
    <3> QED
      BY <3>1, ConcerningIsAbout
  <2> QED
    BY <2>1
<1>6. CASE RulesSay(rs, pub, x) = "silent"
  <2>1. A = {}
    BY <1>6 DEF RulesSay, Verdict
  <2>2. stops = {}
    BY <1>5, <2>1
  <2>3. rs.policy = "allow"
    BY <1>3, <1>6
  <2> HIDE DEF wide, allows, stops, named
  <2> QED
    BY <1>1, <2>2, <2>3
<1>7. CASE RulesSay(rs, pub, x) = "pass"
  <2>1. A # {} /\ A \in SUBSET DOMAIN rs.rules
    BY <1>7 DEF RulesSay, About
  <2> HIDE DEF A
  <2>2. PICK f : Foremost(rs, A, f)
    BY <1>2, <2>1, ForemostIs
  <2>3. f \in A /\ f \in DOMAIN rs.rules
    BY <2>1, <2>2 DEF Foremost
  <2>4. RulesSay(rs, pub, x) = Verdict(rs.rules[f], x)
    BY <1>2, <2>2, RulesSayIs DEF A
  <2>5. rs.rules[f].action = "allow"
    <3>1. rs.rules[f].action \in {"allow", "deny"}
      BY <2>3 DEF Ruly, Sound
    <3> QED
      BY <1>7, <2>4, <3>1 DEF Verdict
  <2>6. f \in about /\ (rs.rules[f].source.type = "any" \/ x.peer \in rs.rules[f].source.of)
    BY <2>3, ConcerningIsAbout DEF A
  <2>7. \A j \in stops : f < j
    <3>1. ASSUME NEW j \in stops, ~(f < j) PROVE FALSE
      <4>1. j \in A /\ j \in DOMAIN rs.rules /\ Closes(rs.rules[j]) /\ j # f
        BY <1>4, <1>5, <2>5 DEF concerning, Closes
      <4>2. rs.rules \in Seq(Rule)
        BY <1>2 DEF Compilable
      <4>3. f \in Int /\ j \in Int
        BY <2>3, <4>1, <4>2
      <4>4. rs.rules[f].order \in Int /\ rs.rules[j].order \in Int
        <5>1. rs.rules[f] \in Rule /\ rs.rules[j] \in Rule
          BY <2>3, <4>1, <4>2
        <5> QED
          BY <5>1 DEF Rule
      <4>5. j < f
        BY <3>1, <4>1, <4>3
      <4>6. inbound(rs.rules[f])
        BY <2>6 DEF concerning
      <4>7. rs.rules[j].order <= rs.rules[f].order
        BY <2>3, <2>5, <4>1, <4>5, <4>6 DEF Ordered
      <4>8. rs.rules[f].order < rs.rules[j].order
            \/ (rs.rules[f].order = rs.rules[j].order /\ f <= j)
        BY <2>2, <4>1 DEF Foremost
      <4> QED
        BY <4>3, <4>4, <4>5, <4>7, <4>8
    <3> QED
      BY <3>1
  <2>8. f \in allows
    BY <2>5, <2>6, <2>7
  <2>9. CASE wide # {}
    BY <1>1, <2>9
  <2>10. CASE wide = {}
    <3>1. narrowSource(rs.rules[f].source, rs.lan)
      BY <2>8, <2>10
    <3>2. rs.rules[f].source.type # "any"
      BY <3>1 DEF narrowSource
    <3>3. x.peer \in named
      BY <2>6, <2>8, <3>2
    <3> HIDE DEF wide, allows, stops, named
    <3> QED
      BY <1>1, <2>8, <3>3
  <2> QED
    BY <2>9, <2>10
<1> QED
  BY <1>3, <1>6, <1>7

\* The exposure audit is honest, also for containers that come and go after
\* the apply: nobody gets through to a port it calls closed, and nobody but
\* the sources it lists to one it calls restricted (over IPv4).  It reads the
\* rules by other code than the compiler's, so this holds as far as the two
\* readings agree: Ordered and Settled.
THEOREM ExposureIsAlwaysHonest ==
  ASSUME \A name \in Valid : NamesPeers(RuleSets[name]),
         \A k \in Configuration : Ordered(RulesOf[k]) /\ Settled(RulesOf[k], Inventory(k.run))
  PROVE  Spec => []ExposureIsHonest
<1>1. ASSUME LiveInv, DecisionsFollowRules, ~Running, live # Nothing, NEW q \in Ports
      PROVE  ReachHolds(zoneOf(q), q, 4)
  <2> DEFINE rs == RulesOf[live]
             pub == Inventory(live.run)
             zone == zoneOf(q)
             known == zone = "docker" => q \in all(pub)
             lv == liveReach(Snapshot(live), zone, q)
  <2>1. live \in Configuration
    BY <1>1 DEF LiveInv
  <2>2. Ruly(rs) /\ rs \in RuleSet /\ Ordered(rs) /\ Settled(rs, pub)
    BY <2>1, ConfigurationsRuly, RulesAreASet
  <2>3. zone \in {"host", "docker"} /\ known \in BOOLEAN
    BY DEF zoneOf
  <2>4. lv = ReachOf(rs, zone, "tcp", q, known)
    <3> DEFINE snap == Snapshot(live)
               closed == IF ~known /\ ~snap.dnatGuard THEN [snap.rules EXCEPT !.policy = "allow"] ELSE snap.rules
    <3>1. snap.rules = rs /\ snap.published = pub /\ snap.dnatGuard = (rs.policy = "deny")
      BY DEF Snapshot
    <3>2. lv = ReachOf(closed, zone, "tcp", q, known)
      BY <3>1 DEF liveReach, all
    <3>3. rs.policy # "deny" => [rs EXCEPT !.policy = "allow"] = rs
      <4>1. rs.policy \in {"deny", "allow"}
        BY <2>2 DEF Ruly
      <4> QED
        BY <2>2, <4>1 DEF RuleSet
    <3>4. closed = rs
      <4> HIDE DEF known, rs, snap
      <4> QED
        BY <3>1, <3>3
    <3> HIDE DEF closed, known, rs
    <3> QED
      BY <3>2, <3>4
  <2>5. ASSUME NEW peer \in Reaching(zone, q, 4)
        PROVE  lv.verdict = "open" \/ (lv.verdict = "restricted" /\ peer \in lv.sources)
    <3>1. PICK x \in Packet :
            /\ x.flow = (IF zone = "docker" THEN "fwd" ELSE "in")
            /\ x.proto = "tcp" /\ x.port = q /\ x.state = "new"
            /\ Fam(x) = 4 /\ ~Exempt(rs, x) /\ x \notin Dropped /\ peer = x.peer
      BY DEF Reaching
    <3>2. Opening(x, zone, q) /\ x \in New
      BY <3>1 DEF Opening, New
    <3>3. Ruly(rs) /\ Ordered(rs) /\ Settled(rs, pub) /\ zone \in {"host", "docker"}
      BY <2>2, <2>3
    <3>4. ~Exempt(rs, x) /\ Opening(x, zone, q)
      BY <3>1, <3>2
    <3>5. ~Denied(rs, pub, x)
      BY <1>1, <3>1, <3>2 DEF DecisionsFollowRules
    <3> DEFINE k == known
    <3>6. k \in BOOLEAN /\ k = (zone = "docker" => q \in all(pub))
      OBVIOUS
    <3> HIDE DEF k, rs, pub, zone
    <3>7. LET v == ReachOf(rs, zone, "tcp", q, k)
          IN  v.verdict = "open" \/ (v.verdict = "restricted" /\ x.peer \in v.sources)
      BY <3>3, <3>4, <3>5, <3>6, ReachCovers
    <3> QED
      BY <2>4, <3>1, <3>7 DEF k
  <2> HIDE DEF lv, zone
  <2> QED
    BY <2>5 DEF ReachHolds, lv, zone
<1>2. LiveInv /\ DecisionsFollowRules => ExposureIsHonest
  BY <1>1 DEF ExposureIsHonest
<1>3. Spec => []DecisionsFollowRules
  BY DecisionsAlwaysFollowRules
<1> QED
  BY <1>2, <1>3, LiveInvHolds, PTL
=============================================================================
