---------------------------- MODULE ZfwLiveProofs ----------------------------
(***************************************************************************)
(* Theorems about ZfwLive, ZfwCompiler and ZfwRules, for every rule set    *)
(* that Validate accepts, every set of addresses, containers and published *)
(* ports, and every limit on a multiport match.                            *)
(***************************************************************************)
EXTENDS ZfwLive, FiniteSetTheorems, NaturalsInduction, WellFoundedInduction, TLAPS

-----------------------------------------------------------------------------
(* Induction over the natural numbers, for a set of them *)

LEMMA SetInduction ==
  ASSUME NEW S, 0 \in S, \A n \in Nat : n \in S => n + 1 \in S
  PROVE  Nat \subseteq S
<1> DEFINE T == Nat \ S
           R == OpToRel(<, Nat)
<1>1. IsWellFoundedOn(R, Nat)
  BY NatLessThanWellFounded
<1>2. ASSUME NEW x \in Nat, NEW y \in Nat, y < x PROVE <<y, x>> \in R
  BY <1>2 DEF OpToRel
<1> HIDE DEF R
<1>3. SUFFICES ASSUME T # {} PROVE FALSE
  OBVIOUS
<1>4. PICK x \in T : \A y \in T : <<y, x>> \notin R
  <2>1. T \subseteq Nat
    OBVIOUS
  <2> HIDE DEF T
  <2> QED
    BY <1>1, <1>3, <2>1, WFMin
<1>5. x # 0 /\ x - 1 \in Nat /\ x - 1 < x /\ (x - 1) + 1 = x
  BY <1>4
<1>6. x - 1 \in S
  BY <1>2, <1>4, <1>5
<1> QED
  BY <1>4, <1>5, <1>6

\* A function on 1 .. n is a sequence.
LEMMA AsSequence ==
  ASSUME NEW n \in Nat, NEW X, NEW f \in [1 .. n -> X]
  PROVE  f \in Seq(X) /\ Len(f) = n /\ DOMAIN f = 1 .. n
OBVIOUS

\* The same for a sequence of another set.
LEMMA SameLength ==
  ASSUME NEW X, NEW s \in Seq(X), NEW Y, NEW f \in [DOMAIN s -> Y]
  PROVE  f \in Seq(Y) /\ Len(f) = Len(s) /\ DOMAIN f = DOMAIN s
BY AsSequence

-----------------------------------------------------------------------------
(* Concat *)

\* The recursive function of Concat exists.
LEMMA ConcatIs ==
  ASSUME NEW ss, Len(ss) \in Nat
  PROVE  \E f : /\ f = [i \in 0 .. Len(ss) |-> IF i = 0 THEN <<>> ELSE f[i - 1] \o ss[i]]
                /\ Concat(ss) = f[Len(ss)]
<1> DEFINE Ok(f, n) == f = [i \in 0 .. n |-> IF i = 0 THEN <<>> ELSE f[i - 1] \o ss[i]]
           S == {n \in Nat : \E f : Ok(f, n)}
<1>1. 0 \in S
  <2>1. Ok([i \in 0 .. 0 |-> <<>>], 0)
    OBVIOUS
  <2> QED
    BY <2>1
<1>2. ASSUME NEW n \in Nat, n \in S PROVE n + 1 \in S
  <2>1. PICK f : Ok(f, n)
    BY <1>2
  <2> DEFINE g == [i \in 0 .. n + 1 |-> IF i = n + 1 THEN f[n] \o ss[n + 1] ELSE f[i]]
  <2>2. ASSUME NEW i \in 0 .. n PROVE f[i] = IF i = 0 THEN <<>> ELSE f[i - 1] \o ss[i]
    BY <2>1
  <2>3. ASSUME NEW i \in 0 .. n + 1 PROVE g[i] = IF i = 0 THEN <<>> ELSE g[i - 1] \o ss[i]
    <3>1. CASE i = n + 1
      <4>1. i # 0 /\ i - 1 \in 0 .. n /\ i - 1 = n /\ i - 1 # n + 1
        BY <3>1
      <4>2. g[i] = f[n] \o ss[i] /\ g[i - 1] = f[n]
        BY <3>1, <4>1
      <4> QED
        BY <4>1, <4>2
    <3>2. CASE i # n + 1
      <4>1. i \in 0 .. n /\ g[i] = f[i]
        BY <3>2
      <4>2. i # 0 => i - 1 \in 0 .. n /\ i - 1 # n + 1 /\ g[i - 1] = f[i - 1]
        BY <4>1
      <4> QED
        BY <2>2, <4>1, <4>2
    <3> QED
      BY <3>1, <3>2
  <2>4. g = [i \in 0 .. n + 1 |-> g[i]]
    OBVIOUS
  <2> HIDE DEF g
  <2>5. Ok(g, n + 1)
    BY <2>3, <2>4
  <2> HIDE DEF Ok
  <2> QED
    BY <2>5
<1> HIDE DEF S
<1>3. Len(ss) \in S
  BY <1>1, <1>2, SetInduction
<1>4. PICK f : Ok(f, Len(ss))
  BY <1>3 DEF S
<1>5. Concat(ss) = (CHOOSE g : g = [i \in 0 .. Len(ss) |-> IF i = 0 THEN <<>> ELSE g[i - 1] \o ss[i]])[Len(ss)]
  BY DEF Concat
<1> QED
  BY <1>4, <1>5

\* Where the pieces are: each stands somewhere in s, and s is made of them.
At(s, piece, from) ==
  \A m \in DOMAIN piece : from + m \in DOMAIN s /\ s[from + m] = piece[m]

MadeOf(s, ss, n) ==
  /\ \A j \in 1 .. n : \E from \in Nat : At(s, ss[j], from)
  /\ \A i \in DOMAIN s : \E j \in 1 .. n, from \in Nat :
       i - from \in DOMAIN ss[j] /\ At(s, ss[j], from)

\* One more piece.
LEMMA OneMore ==
  ASSUME NEW X, NEW s \in Seq(X), NEW t \in Seq(X)
  PROVE  /\ s \o t \in Seq(X)
         /\ At(s \o t, t, Len(s))
         /\ \A u, from : At(s, u, from) => At(s \o t, u, from)
         /\ \A i \in DOMAIN (s \o t) : i \in DOMAIN s \/ i - Len(s) \in DOMAIN t
BY DEF At

LEMMA ConcatSeq ==
  ASSUME NEW X, NEW ss \in Seq(Seq(X))
  PROVE  Concat(ss) \in Seq(X) /\ MadeOf(Concat(ss), ss, Len(ss))
<1>0. Len(ss) \in Nat /\ DOMAIN ss = 1 .. Len(ss)
  OBVIOUS
<1>1. PICK f : /\ f = [i \in 0 .. Len(ss) |-> IF i = 0 THEN <<>> ELSE f[i - 1] \o ss[i]]
               /\ Concat(ss) = f[Len(ss)]
  BY <1>0, ConcatIs
<1> DEFINE Good(n) == f[n] \in Seq(X) /\ MadeOf(f[n], ss, n)
           S == {n \in Nat : n <= Len(ss) => Good(n)}
<1>2. 0 \in S
  <2>1. f[0] = <<>>
    BY <1>0, <1>1
  <2>2. <<>> \in Seq(X) /\ MadeOf(<<>>, ss, 0)
    BY DEF MadeOf
  <2> QED
    BY <2>1, <2>2
<1>3. ASSUME NEW n \in Nat, n \in S PROVE n + 1 \in S
  <2> SUFFICES ASSUME n + 1 <= Len(ss) PROVE Good(n + 1)
    OBVIOUS
  <2>1. f[n] \in Seq(X) /\ MadeOf(f[n], ss, n)
    BY <1>3
  <2>2. f[n + 1] = f[n] \o ss[n + 1]
    <3>1. n + 1 \in 0 .. Len(ss) /\ n + 1 # 0 /\ (n + 1) - 1 = n
      BY <1>0
    <3> QED
      BY <1>1, <3>1
  <2>3. ss[n + 1] \in Seq(X)
    BY <1>0
  <2> DEFINE s == f[n]
             t == ss[n + 1]
  <2>4. /\ s \o t \in Seq(X)
        /\ At(s \o t, t, Len(s))
        /\ \A u, from : At(s, u, from) => At(s \o t, u, from)
        /\ \A i \in DOMAIN (s \o t) : i \in DOMAIN s \/ i - Len(s) \in DOMAIN t
    BY <2>1, <2>3, OneMore
  <2>5. Len(s) \in Nat /\ n + 1 \in 1 .. n + 1
    BY <2>1
  <2>6. ASSUME NEW j \in 1 .. n + 1 PROVE \E from \in Nat : At(s \o t, ss[j], from)
    BY SMTT(30), <2>1, <2>4, <2>5 DEF MadeOf
  <2>7. ASSUME NEW i \in DOMAIN (s \o t)
        PROVE  \E j \in 1 .. n + 1, from \in Nat :
                 i - from \in DOMAIN ss[j] /\ At(s \o t, ss[j], from)
    <3>1. CASE i \in DOMAIN s
      <4>1. PICK j \in 1 .. n, from \in Nat : i - from \in DOMAIN ss[j] /\ At(s, ss[j], from)
        BY <2>1, <3>1 DEF MadeOf
      <4>2. j \in 1 .. n + 1
        OBVIOUS
      <4> QED
        BY <2>4, <4>1, <4>2
    <3>2. CASE i - Len(s) \in DOMAIN t
      BY <2>4, <2>5, <3>2
    <3> QED
      BY <2>4, <3>1, <3>2
  <2>8. MadeOf(s \o t, ss, n + 1)
    BY <2>6, <2>7 DEF MadeOf
  <2> QED
    BY <2>2, <2>4, <2>8
<1> HIDE DEF S
<1>4. Len(ss) \in S
  BY <1>0, <1>2, <1>3, SetInduction
<1>5. Good(Len(ss))
  BY <1>0, <1>4 DEF S
<1> QED
  BY <1>1, <1>5

LEMMA WiderSeq ==
  ASSUME NEW X, NEW Y, X \subseteq Y, NEW s \in Seq(X)
  PROVE  s \in Seq(Y)
OBVIOUS

\* A concatenation of sequences that are given by a function.
LEMMA ConcatOf ==
  ASSUME NEW X, NEW Y, NEW s \in Seq(Y), NEW f \in [DOMAIN s -> Seq(X)]
  PROVE  Concat(f) \in Seq(X)
<1>1. f \in Seq(Seq(X))
  BY SameLength
<1> QED
  BY <1>1, ConcatSeq

-----------------------------------------------------------------------------
(* Sorting: sorted and sortedPorts take the element with k - 1 before it *)

\* The elements of S that R puts before x.
BeforeIn(S, R, x) == {y \in S : <<y, x>> \in R}

LEMMA Ranked ==
  ASSUME NEW S, IsFiniteSet(S), NEW R,
         \A x \in S : <<x, x>> \notin R,
         \A x, y \in S : x # y => <<x, y>> \in R \/ <<y, x>> \in R,
         \A x, y, z \in S : <<x, y>> \in R /\ <<y, z>> \in R => <<x, z>> \in R,
         NEW k \in 1 .. Cardinality(S)
  PROVE  \E x \in S : Cardinality(BeforeIn(S, R, x)) = k - 1
<1> DEFINE below(x) == BeforeIn(S, R, x)
           n == Cardinality(S)
           f == [x \in S |-> Cardinality(below(x))]
<1>1. n \in Nat
  BY FS_CardinalityType
<1>2. ASSUME NEW x \in S PROVE IsFiniteSet(below(x)) /\ Cardinality(below(x)) \in 0 .. n - 1
  <2>1. IsFiniteSet(below(x)) /\ Cardinality(below(x)) <= n /\ (n = Cardinality(below(x)) => S = below(x))
    BY FS_Subset DEF BeforeIn
  <2>2. Cardinality(below(x)) \in Nat
    BY <2>1, FS_CardinalityType
  <2>3. x \notin below(x)
    BY DEF BeforeIn
  <2> HIDE DEF below
  <2> QED
    BY <1>1, <2>1, <2>2, <2>3
<1>3. ASSUME NEW x \in S, NEW y \in S, <<x, y>> \in R
      PROVE  Cardinality(below(x)) < Cardinality(below(y))
  <2>1. below(x) \in SUBSET below(y) /\ x \in below(y) /\ x \notin below(x)
    BY <1>3 DEF BeforeIn
  <2> HIDE DEF below
  <2>2. Cardinality(below(x)) <= Cardinality(below(y)) /\ Cardinality(below(x)) # Cardinality(below(y))
    BY <1>2, <2>1, FS_Subset
  <2> QED
    BY <1>2, <1>1, <2>2
<1>4. f \in [S -> 0 .. n - 1]
  <2> HIDE DEF below
  <2> QED
    BY <1>2
<1>5. ASSUME NEW x \in S, NEW y \in S, f[x] = f[y] PROVE x = y
  <2>1. f[x] = Cardinality(below(x)) /\ f[y] = Cardinality(below(y))
    OBVIOUS
  <2> HIDE DEF below, f
  <2>2. f[x] \in 0 .. n - 1 /\ f[y] \in 0 .. n - 1
    BY <1>4
  <2>3. CASE <<x, y>> \in R
    <3>1. f[x] < f[y]
      BY <1>3, <2>1, <2>3
    <3> QED
      BY <1>1, <1>5, <2>2, <3>1
  <2>4. CASE <<y, x>> \in R
    <3>1. f[y] < f[x]
      BY <1>3, <2>1, <2>4
    <3> QED
      BY <1>1, <1>5, <2>2, <3>1
  <2> QED
    BY <2>3, <2>4
<1>6. f \in Injection(S, 0 .. n - 1)
  <2> HIDE DEF f
  <2> QED
    BY <1>4, <1>5 DEF Injection, IsInjective
<1>7. IsFiniteSet(0 .. n - 1) /\ Cardinality(0 .. n - 1) = n
  <2> HIDE DEF n
  <2>1. 0 \in Int /\ n - 1 \in Int /\ (0 > n - 1 => n = 0) /\ n - 1 - 0 + 1 = n
    BY <1>1
  <2> QED
    BY <2>1, FS_Interval
<1>8. f \in Surjection(S, 0 .. n - 1)
  <2> HIDE DEF f
  <2> QED
    BY <1>6, <1>7, FS_Injection
<1>9. k - 1 \in 0 .. n - 1
  BY <1>1
<1>10. PICK x \in S : f[x] = k - 1
  <2> HIDE DEF f
  <2> QED
    BY <1>8, <1>9 DEF Surjection
<1>11. f[x] = Cardinality(below(x))
  OBVIOUS
<1> QED
  BY <1>10, <1>11

\* sortedPorts lists ports of the set.
LEMMA SortedPortsIs ==
  ASSUME NEW P \in SUBSET Int, IsFiniteSet(P)
  PROVE  sortedPorts(P) \in Seq(P) /\ Len(sortedPorts(P)) = Cardinality(P)
<1>1. Cardinality(P) \in Nat
  BY FS_CardinalityType
<1>2. ASSUME NEW k \in 1 .. Cardinality(P)
      PROVE  \E p \in P : Cardinality({q \in P : q < p}) = k - 1
  <2> DEFINE R == {pp \in P \X P : pp[1] < pp[2]}
  <2>1. \A p, q \in P : <<p, q>> \in R <=> p < q
    OBVIOUS
  <2> HIDE DEF R
  <2>2. /\ \A p \in P : <<p, p>> \notin R
        /\ \A p, q \in P : p # q => <<p, q>> \in R \/ <<q, p>> \in R
        /\ \A p, q, r \in P : <<p, q>> \in R /\ <<q, r>> \in R => <<p, r>> \in R
    BY <2>1
  <2>3. PICK p \in P : Cardinality(BeforeIn(P, R, p)) = k - 1
    BY <2>2, Ranked
  <2>4. BeforeIn(P, R, p) = {q \in P : q < p}
    BY <2>1 DEF BeforeIn
  <2> QED
    BY <2>3, <2>4
<1>3. sortedPorts(P) \in [1 .. Cardinality(P) -> P]
  BY <1>2 DEF sortedPorts
<1> QED
  BY <1>1, <1>3, AsSequence

\* sorted lists the rules of the set.
LEMMA SortedIs ==
  ASSUME NEW X, NEW rules \in Seq(X), \A i \in DOMAIN rules : rules[i].order \in Int
  PROVE  sorted(rules) \in Seq(X) /\ Len(sorted(rules)) = Len(rules)
<1> DEFINE D == DOMAIN rules
           before(i, j) == \/ rules[i].order < rules[j].order
                           \/ rules[i].order = rules[j].order /\ i < j
<1>1. Len(rules) \in Nat /\ D = 1 .. Len(rules)
  OBVIOUS
<1>2. IsFiniteSet(D) /\ Cardinality(D) = Len(rules)
  <2> HIDE DEF D
  <2>1. 1 \in Int /\ Len(rules) \in Int /\ (1 > Len(rules) => Len(rules) = 0)
        /\ Len(rules) - 1 + 1 = Len(rules)
    BY <1>1
  <2>2. IsFiniteSet(1 .. Len(rules))
        /\ Cardinality(1 .. Len(rules)) = IF 1 > Len(rules) THEN 0 ELSE Len(rules) - 1 + 1
    BY <2>1, FS_Interval
  <2> QED
    BY <1>1, <2>1, <2>2
<1>3. ASSUME NEW k \in D
      PROVE  \E i \in D : Cardinality({j \in D : before(j, i)}) = k - 1
  <2> DEFINE R == {ij \in D \X D : before(ij[1], ij[2])}
  <2>1. \A i, j \in D : <<i, j>> \in R <=> before(i, j)
    OBVIOUS
  <2>2. /\ \A i \in D : ~before(i, i)
        /\ \A i, j \in D : i # j => before(i, j) \/ before(j, i)
        /\ \A i, j, m \in D : before(i, j) /\ before(j, m) => before(i, m)
    BY <1>1
  <2> HIDE DEF R, D, before
  <2>3. k \in 1 .. Cardinality(D)
    BY <1>1, <1>2
  <2>4. /\ \A i \in D : <<i, i>> \notin R
        /\ \A i, j \in D : i # j => <<i, j>> \in R \/ <<j, i>> \in R
        /\ \A i, j, m \in D : <<i, j>> \in R /\ <<j, m>> \in R => <<i, m>> \in R
    BY <2>1, <2>2
  <2>6. PICK i \in D : Cardinality(BeforeIn(D, R, i)) = k - 1
    BY <1>2, <2>3, <2>4, Ranked
  <2>5. BeforeIn(D, R, i) = {j \in D : before(j, i)}
    BY <2>1 DEF BeforeIn
  <2> QED
    BY <2>5, <2>6
<1>4. sorted(rules) \in [D -> X]
  <2>1. sorted(rules) = [k \in D |-> rules[CHOOSE i \in D : Cardinality({j \in D : before(j, i)}) = k - 1]]
    BY DEF sorted
  <2>2. \A i \in D : rules[i] \in X
    OBVIOUS
  <2> HIDE DEF D, before
  <2> QED
    BY <1>3, <2>1, <2>2
<1> QED
  BY <1>4, SameLength

-----------------------------------------------------------------------------
(* Fragments and lines that the table of family v takes, for packets of W *)

Size == {i \in Int : i <= MaxMultiport}
FragOf(v, W) == [on : SUBSET W, lit : SUBSET {v}, n : Size]
Target == {"ACCEPT", "RETURN", "DROP", "SET", "ZFW-APPS", "ZFW-APPS6",
           "ZFW-APPS-IN", "ZFW-APPS-IN6"}
LineOf(v, W) == [on : SUBSET W, lit : SUBSET {v}, n : Size, to : Target]

LEMMA MatchIs ==
  ASSUME NEW v, NEW S \in SUBSET Packet
  PROVE  Match(S) \in FragOf(v, Packet)
<1>1. 0 \in Size
  BY MultiportAssumption DEF Size
<1> QED
  BY <1>1 DEF Match, FragOf

LEMMA JoinIs ==
  ASSUME NEW v, NEW W, NEW a \in FragOf(v, W), NEW b \in FragOf(v, Packet)
  PROVE  a ++ b \in FragOf(v, W)
BY DEF ++, FragOf

LEMMA LineIs ==
  ASSUME NEW v, NEW W, NEW m \in FragOf(v, W), NEW to \in Target
  PROVE  Line(m, to) \in LineOf(v, W) /\ Line(m, to).on = m.on /\ Line(m, to).to = to
BY DEF Line, FragOf, LineOf

LEMMA OneLine ==
  ASSUME NEW v, NEW W, NEW m \in FragOf(v, W), NEW to \in Target
  PROVE  << Line(m, to) >> \in Seq(LineOf(v, W))
BY LineIs

\* The fragments that name no address fit both tables.
LEMMA NamesNoAddress ==
  ASSUME NEW v
  PROVE  /\ All \in FragOf(v, Packet) /\ DNATed \in FragOf(v, Packet)
         /\ \A S : InState(S) \in FragOf(v, Packet)
         /\ \A S : OnIface(S) \in FragOf(v, Packet)
         /\ \A S : DPort(S) \in FragOf(v, Packet)
         /\ \A q : OfProto(q) \in FragOf(v, Packet)
         /\ \A w : Match({p \in Packet : p.when = w}) \in FragOf(v, Packet)
         /\ \A w : Match({p \in Packet : p.when # w}) \in FragOf(v, Packet)
<1>1. Packet \in SUBSET Packet
  OBVIOUS
<1>2. All \in FragOf(v, Packet)
  BY <1>1, MatchIs DEF All
<1>3. DNATed \in FragOf(v, Packet)
  <2>1. {p \in Packet : p.flow = "fwd"} \in SUBSET Packet
    OBVIOUS
  <2> QED
    BY <2>1, MatchIs DEF DNATed
<1>4. ASSUME NEW S PROVE InState(S) \in FragOf(v, Packet)
  <2>1. {p \in Packet : p.state \in S} \in SUBSET Packet
    OBVIOUS
  <2> QED
    BY <2>1, MatchIs DEF InState
<1>5. ASSUME NEW S PROVE OnIface(S) \in FragOf(v, Packet)
  <2>1. {p \in Packet : Iif(p) \in S} \in SUBSET Packet
    OBVIOUS
  <2> QED
    BY <2>1, MatchIs DEF OnIface
<1>6. ASSUME NEW S PROVE DPort(S) \in FragOf(v, Packet)
  <2>1. {p \in Packet : p.port \in S /\ p.proto \in Protocols} \in SUBSET Packet
    OBVIOUS
  <2> QED
    BY <2>1, MatchIs DEF DPort
<1>7. ASSUME NEW q PROVE OfProto(q) \in FragOf(v, Packet)
  <2>1. {p \in Packet : p.proto = q} \in SUBSET Packet
    OBVIOUS
  <2> QED
    BY <2>1, MatchIs DEF OfProto
<1>8. ASSUME NEW w PROVE Match({p \in Packet : p.when = w}) \in FragOf(v, Packet)
  <2>1. {p \in Packet : p.when = w} \in SUBSET Packet
    OBVIOUS
  <2> QED
    BY <2>1, MatchIs
<1>9. ASSUME NEW w PROVE Match({p \in Packet : p.when # w}) \in FragOf(v, Packet)
  <2>1. {p \in Packet : p.when # w} \in SUBSET Packet
    OBVIOUS
  <2> QED
    BY <2>1, MatchIs
<1> QED
  BY <1>2, <1>3, <1>4, <1>5, <1>6, <1>7, <1>8, <1>9

\* The families of a set of addresses.
LEMMA FamiliesIs ==
  ASSUME NEW A
  PROVE  /\ A \subseteq V6Address => families(A) \subseteq {6}
         /\ A \cap V6Address = {} => families(A) \subseteq {4}
BY DEF families

\* A fragment that names addresses.
LEMMA NamesAddresses ==
  ASSUME NEW v, NEW A
  PROVE  /\ families(A) \subseteq {v} => SrcIn(A) \in FragOf(v, Packet) /\ DstIn(A) \in FragOf(v, Packet)
         /\ SrcIn(A) \in [on : SUBSET Packet, lit : {families(A)}, n : Size]
         /\ DstIn(A) \in [on : SUBSET Packet, lit : {families(A)}, n : Size]
<1> DEFINE src == {p \in Packet : FromPeer(p) /\ p.peer \in A}
           dst == {p \in Packet : ~FromPeer(p) /\ p.peer \in A}
<1>1. src \in SUBSET Packet /\ dst \in SUBSET Packet
  OBVIOUS
<1>2. SrcIn(A) = [Match(src) EXCEPT !.lit = families(A)]
      /\ DstIn(A) = [Match(dst) EXCEPT !.lit = families(A)]
  BY DEF SrcIn, DstIn
<1> HIDE DEF src, dst
<1>3. Match(src) \in FragOf(v, Packet) /\ Match(dst) \in FragOf(v, Packet)
  BY <1>1, MatchIs
<1> QED
  BY <1>2, <1>3 DEF FragOf

-----------------------------------------------------------------------------
(* One rule *)

\* A rule's source becomes a fragment only in the tables of its family.
LEMMA SourceFrags ==
  ASSUME NEW r \in Rule
  PROVE  /\ ~isIPv6Source(r.source) =>
              sourceArgs(r.source) \in FragOf(4, Packet) /\ peerArgs(r.source) \in FragOf(4, Packet)
         /\ ~v4Only(r.source) =>
              sourceArgs(r.source) \in FragOf(6, Packet) /\ peerArgs(r.source) \in FragOf(6, Packet)
<1> DEFINE t == r.source
<1>1. /\ t \in Source
      /\ t.type \in {"ip", "range"} => t.of \subseteq V6Address \/ t.of \cap V6Address = {}
  BY DEF Rule, Source
<1> HIDE DEF t
<1>2. CASE t.type = "any"
  BY <1>2, NamesNoAddress DEF sourceArgs, peerArgs, t
<1>3. CASE t.type \in {"ip", "range"}
  <2>1. sourceArgs(t) = SrcIn(t.of) /\ peerArgs(t) = DstIn(t.of)
    BY <1>3 DEF sourceArgs, peerArgs
  <2>2. ~isIPv6Source(t) => families(t.of) \subseteq {4}
    BY <1>1, <1>3, FamiliesIs DEF isIPv6Source
  <2>3. ~v4Only(t) => families(t.of) \subseteq {6}
    BY <1>1, <1>3, FamiliesIs DEF v4Only, isIPv6Source
  <2> QED
    BY <2>1, <2>2, <2>3, NamesAddresses DEF t
<1>4. CASE t.type \notin {"any", "ip", "range"}
  <2>1. sourceArgs(t) = [SrcIn(t.of) EXCEPT !.lit = {4}]
        /\ peerArgs(t) = [DstIn(t.of) EXCEPT !.lit = {4}]
    BY <1>4 DEF sourceArgs, peerArgs
  <2>2. v4Only(t)
    BY <1>4 DEF v4Only, isIPv6Source
  <2>3. /\ SrcIn(t.of) \in [on : SUBSET Packet, lit : {families(t.of)}, n : Size]
        /\ DstIn(t.of) \in [on : SUBSET Packet, lit : {families(t.of)}, n : Size]
    BY NamesAddresses
  <2>4. sourceArgs(t) \in FragOf(4, Packet) /\ peerArgs(t) \in FragOf(4, Packet)
    BY <2>1, <2>3 DEF FragOf
  <2> QED
    BY <2>2, <2>4 DEF t
<1> QED
  BY <1>2, <1>3, <1>4 DEF t

\* The ports of a rule in one chain.
LEMMA ZonePorts ==
  ASSUME NEW r \in Rule, NEW published, NEW want
  PROVE  /\ portsForZone(r, published, want) \in PortSpec \cup {NoPorts}
         /\ portsForZone6(r) \in PortSpec \cup {NoPorts}
<1>1. r.ports \in PortSpec
  BY DEF Rule
<1>2. portsForZone6(r) \in PortSpec \cup {NoPorts}
  BY <1>1 DEF portsForZone6
<1> DEFINE mine(p) == (p \in published) = (want = "docker")
           f == [i \in DOMAIN r.ports.list |->
                   IF mine(r.ports.list[i]) THEN << r.ports.list[i] >> ELSE <<>>]
           list == Concat(f)
<1>3. portsForZone(r, published, want) =
        IF r.zone # "auto" THEN IF r.zone = want THEN r.ports ELSE NoPorts
        ELSE IF r.ports.type # "list"
             THEN IF want = "host" THEN r.ports ELSE NoPorts
             ELSE IF list = <<>> THEN NoPorts ELSE ListPorts(list)
  BY DEF portsForZone, only
<1>4. CASE r.ports.type = "list"
  <2>1. r.ports.list \in Seq(Int)
    BY <1>1, <1>4 DEF PortSpec
  <2>2. f \in [DOMAIN r.ports.list -> Seq(Int)]
    <3>1. \A i \in DOMAIN r.ports.list : r.ports.list[i] \in Int
      BY <2>1
    <3>2. \A p \in Int : << p >> \in Seq(Int)
      OBVIOUS
    <3>3. <<>> \in Seq(Int)
      OBVIOUS
    <3> HIDE DEF mine
    <3> QED
      BY <3>1, <3>2, <3>3
  <2> HIDE DEF f
  <2>3. list \in Seq(Int)
    BY <2>1, <2>2, ConcatOf
  <2> HIDE DEF list
  <2>4. ListPorts(list) \in PortSpec
    BY <2>3 DEF ListPorts, PortSpec
  <2> QED
    BY <1>1, <1>2, <1>3, <2>4
<1>5. CASE r.ports.type # "list"
  <2> HIDE DEF list
  <2> QED
    BY <1>1, <1>2, <1>3, <1>5
<1> QED
  BY <1>4, <1>5

\* Chunks of at most MaxMultiport ports; an interval is one of two.
LEMMA MultiportIs ==
  ASSUME NEW v, NEW list \in Seq(Int)
  PROVE  multiport(list) \in Seq(FragOf(v, Packet))
<1> DEFINE M == MaxMultiport
           top == (Len(list) + M - 1) \div M
           from(c) == (c - 1) * M + 1
           to(c) == IF c * M < Len(list) THEN c * M ELSE Len(list)
           chunk(c) == [DPort({list[i] : i \in from(c) .. to(c)}) EXCEPT !.n = to(c) - from(c) + 1]
<1>1. M \in Nat /\ M >= 1 /\ Len(list) \in Nat
  BY MultiportAssumption
<1>2. top \in Nat
  <2>1. Len(list) + M - 1 \in Nat
    BY <1>1
  <2> QED
    BY <1>1, <2>1
<1>3. ASSUME NEW c \in 1 .. top PROVE chunk(c) \in FragOf(v, Packet)
  <2>1. c * M \in Int /\ from(c) = c * M - M + 1
    BY <1>1, <1>2
  <2> DEFINE cM == c * M
  <2>2. to(c) \in Int /\ to(c) <= cM
    BY <1>1, <2>1
  <2>3. to(c) - from(c) + 1 \in Size
    <3> HIDE DEF cM, to, from
    <3> QED
      BY <1>1, <2>1, <2>2 DEF Size, cM
  <2>4. DPort({list[i] : i \in from(c) .. to(c)}) \in FragOf(v, Packet)
    BY NamesNoAddress
  <2> HIDE DEF from, to
  <2> QED
    BY <2>3, <2>4 DEF FragOf
<1>4. multiport(list) = [c \in 1 .. top |-> chunk(c)]
  BY DEF multiport
<1> HIDE DEF top, chunk
<1>5. multiport(list) \in [1 .. top -> FragOf(v, Packet)]
  BY <1>3, <1>4
<1> QED
  BY <1>2, <1>5, AsSequence

LEMMA PortArgsAre ==
  ASSUME NEW v, NEW ports \in PortSpec, ports.type # "all"
  PROVE  portArgs(ports) \in Seq(FragOf(v, Packet)) /\ origPortArgs(ports) \in Seq(FragOf(v, Packet))
<1>1. \A S : DPort(S) \in FragOf(v, Packet)
  BY NamesNoAddress
<1>2. CASE ports.type = "range"
  BY <1>1, <1>2 DEF portArgs, origPortArgs
<1>3. CASE ports.type # "range"
  <2>1. ports.list \in Seq(Int)
    BY <1>3 DEF PortSpec
  <2>2. portArgs(ports) \in Seq(FragOf(v, Packet))
    BY <1>3, <2>1, MultiportIs DEF portArgs
  <2>3. origPortArgs(ports) \in [DOMAIN ports.list -> FragOf(v, Packet)]
    BY <1>1, <1>3 DEF origPortArgs
  <2> QED
    BY <2>1, <2>2, <2>3, SameLength
<1> QED
  BY <1>2, <1>3

LEMMA WrapEmitIs ==
  ASSUME NEW v, NEW W, NEW m \in FragOf(v, W), NEW r, NEW target \in Target
  PROVE  wrapEmit(m, r, target) \in Seq(LineOf(v, W))
<1> DEFINE burst == Match({p \in Packet : p.when = "burst"})
           dropped == m ++ burst
<1>1. dropped \in FragOf(v, W)
  BY NamesNoAddress, JoinIs
<1>2. wrapEmit(m, r, target) =
        (IF r.limit = "none" THEN <<>> ELSE << Line(m, "SET"), Line(dropped, "DROP") >>)
        \o << Line(m, target) >>
  BY DEF wrapEmit
<1> HIDE DEF dropped
<1>3. Line(m, "SET") \in LineOf(v, W) /\ Line(dropped, "DROP") \in LineOf(v, W) /\ Line(m, target) \in LineOf(v, W)
  <2>1. "SET" \in Target /\ "DROP" \in Target
    BY DEF Target
  <2> QED
    BY <1>1, <2>1, LineIs
<1> QED
  BY <1>2, <1>3

LEMMA EmitIs ==
  ASSUME NEW v, NEW W, NEW r, NEW m \in FragOf(v, W), NEW ports, NEW args \in Seq(FragOf(v, Packet)),
         NEW target \in Target
  PROVE  emit(r, m, ports, args, target) \in Seq(LineOf(v, W))
<1>1. CASE ports.type = "all"
  <2>1. (IF r.proto = "both" THEN m ELSE m ++ OfProto(r.proto)) \in FragOf(v, W)
    BY NamesNoAddress, JoinIs
  <2> QED
    BY <1>1, <2>1, WrapEmitIs DEF emit
<1>2. CASE ports.type # "all"
  <2> DEFINE protos == protoList(r.proto)
             w(i, j) == wrapEmit(m ++ OfProto(protos[i]) ++ args[j], r, target)
             f(i) == [j \in DOMAIN args |-> w(i, j)]
             g == [i \in DOMAIN protos |-> Concat(f(i))]
  <2>1. emit(r, m, ports, args, target) = Concat(g)
    BY <1>2 DEF emit
  <2>2. ASSUME NEW i \in DOMAIN protos, NEW j \in DOMAIN args PROVE w(i, j) \in Seq(LineOf(v, W))
    <3>1. args[j] \in FragOf(v, Packet) /\ OfProto(protos[i]) \in FragOf(v, Packet)
      BY NamesNoAddress
    <3>2. (m ++ OfProto(protos[i])) ++ args[j] \in FragOf(v, W)
      BY <3>1, JoinIs
    <3> QED
      BY <3>2, WrapEmitIs
  <2>3. protos \in Seq({"tcp", "udp", r.proto})
    <3> DEFINE Q == {"tcp", "udp", r.proto}
    <3>1. "tcp" \in Q /\ "udp" \in Q /\ r.proto \in Q
      OBVIOUS
    <3> HIDE DEF Q
    <3>2. <<"tcp", "udp">> \in Seq(Q) /\ << r.proto >> \in Seq(Q)
      BY <3>1
    <3> QED
      BY <3>2 DEF protoList, Q
  <2> HIDE DEF w, protos
  <2>4. ASSUME NEW i \in DOMAIN protos PROVE Concat(f(i)) \in Seq(LineOf(v, W))
    <3>1. f(i) \in [DOMAIN args -> Seq(LineOf(v, W))]
      BY <2>2
    <3> HIDE DEF f
    <3> QED
      BY <3>1, ConcatOf
  <2> HIDE DEF f
  <2>5. g \in [DOMAIN protos -> Seq(LineOf(v, W))]
    BY <2>4
  <2> HIDE DEF g
  <2> QED
    BY <2>1, <2>3, <2>5, ConcatOf
<1> QED
  BY <1>1, <1>2

LEMMA EmitZoneIs ==
  ASSUME NEW v, NEW W, NEW r, NEW m \in FragOf(v, W), NEW ports \in PortSpec \cup {NoPorts},
         NEW pass \in Target
  PROVE  /\ emitZone(r, m, ports, portArgs, pass) \in Seq(LineOf(v, W))
         /\ emitZone(r, m, ports, origPortArgs, pass) \in Seq(LineOf(v, W))
<1>1. CASE ports = NoPorts
  BY <1>1 DEF emitZone
<1>2. CASE ports # NoPorts
  <2> DEFINE at == m ++ scheduleArg(r)
             target == IF r.action = "deny" THEN "DROP" ELSE pass
  <2>1. at \in FragOf(v, W)
    <3>1. scheduleArg(r) \in FragOf(v, Packet)
      BY NamesNoAddress DEF scheduleArg
    <3> QED
      BY <3>1, JoinIs
  <2>2. target \in Target
    BY DEF Target
  <2>3. /\ (IF ports.type = "all" THEN <<>> ELSE portArgs(ports)) \in Seq(FragOf(v, Packet))
        /\ (IF ports.type = "all" THEN <<>> ELSE origPortArgs(ports)) \in Seq(FragOf(v, Packet))
    <3>1. ports \in PortSpec
      BY <1>2
    <3>2. <<>> \in Seq(FragOf(v, Packet))
      OBVIOUS
    <3> QED
      BY <3>1, <3>2, PortArgsAre
  <2>4. /\ emitZone(r, m, ports, portArgs, pass) =
             emit(r, at, ports, IF ports.type = "all" THEN <<>> ELSE portArgs(ports), target)
        /\ emitZone(r, m, ports, origPortArgs, pass) =
             emit(r, at, ports, IF ports.type = "all" THEN <<>> ELSE origPortArgs(ports), target)
    BY <1>2 DEF emitZone
  <2> HIDE DEF at, target
  <2> QED
    BY <2>1, <2>2, <2>3, <2>4, EmitIs
<1> QED
  BY <1>1, <1>2

\* The lines of one rule fit the table of their chain.
LEMMA RuleLinesFit ==
  ASSUME NEW r \in Rule, NEW published
  PROVE  /\ hostLines(r, published) \in Seq(LineOf(4, Packet))
         /\ dockerLines(r, published) \in Seq(LineOf(4, Packet))
         /\ v4Lines(r) \in Seq(LineOf(4, Packet))
         /\ hostLines6(r) \in Seq(LineOf(6, Packet))
         /\ dockerLines6(r, published) \in Seq(LineOf(6, Packet))
         /\ outboundLines6(r) \in Seq(LineOf(6, Packet))
<1>1. "ACCEPT" \in Target /\ "RETURN" \in Target
  BY DEF Target
<1>2. /\ portsForZone(r, published, "host") \in PortSpec \cup {NoPorts}
      /\ portsForZone(r, published, "docker") \in PortSpec \cup {NoPorts}
      /\ portsForZone6(r) \in PortSpec \cup {NoPorts}
  BY ZonePorts
<1>3. r.ports \in PortSpec \cup {NoPorts}
  BY DEF Rule
<1>4. <<>> \in Seq(LineOf(4, Packet)) /\ <<>> \in Seq(LineOf(6, Packet))
  OBVIOUS
<1>5. hostLines(r, published) \in Seq(LineOf(4, Packet)) /\ dockerLines(r, published) \in Seq(LineOf(4, Packet))
  <2>1. CASE isIPv6Source(r.source)
    BY <1>4, <2>1 DEF hostLines, dockerLines
  <2>2. CASE ~isIPv6Source(r.source)
    <3>1. sourceArgs(r.source) \in FragOf(4, Packet)
      BY <2>2, SourceFrags
    <3>2. emitZone(r, sourceArgs(r.source), portsForZone(r, published, "host"), portArgs, "ACCEPT")
            \in Seq(LineOf(4, Packet))
      BY <1>1, <1>2, <3>1, EmitZoneIs
    <3>3. emitZone(r, sourceArgs(r.source), portsForZone(r, published, "docker"), origPortArgs, "RETURN")
            \in Seq(LineOf(4, Packet))
      BY <1>1, <1>2, <3>1, EmitZoneIs
    <3> QED
      BY <1>4, <3>2, <3>3 DEF hostLines, dockerLines
  <2> QED
    BY <2>1, <2>2
<1>6. v4Lines(r) \in Seq(LineOf(4, Packet))
  <2>1. CASE isIPv6Source(r.source)
    BY <1>4, <2>1 DEF v4Lines
  <2>2. CASE ~isIPv6Source(r.source)
    <3>1. peerArgs(r.source) \in FragOf(4, Packet)
      BY <2>2, SourceFrags
    <3> QED
      BY <1>1, <1>3, <2>2, <3>1, EmitZoneIs DEF v4Lines, outboundLines
  <2> QED
    BY <2>1, <2>2
<1>7. hostLines6(r) \in Seq(LineOf(6, Packet)) /\ dockerLines6(r, published) \in Seq(LineOf(6, Packet))
  <2>1. CASE v4Only(r.source)
    BY <1>4, <2>1 DEF hostLines6, dockerLines6
  <2>2. CASE ~v4Only(r.source)
    <3>1. sourceArgs(r.source) \in FragOf(6, Packet)
      BY <2>2, SourceFrags
    <3>2. emitZone(r, sourceArgs(r.source), portsForZone6(r), portArgs, "RETURN") \in Seq(LineOf(6, Packet))
      BY <1>1, <1>2, <3>1, EmitZoneIs
    <3>3. emitZone(r, sourceArgs(r.source), portsForZone(r, published, "docker"), origPortArgs, "RETURN")
            \in Seq(LineOf(6, Packet))
      BY <1>1, <1>2, <3>1, EmitZoneIs
    <3> QED
      BY <1>4, <3>2, <3>3 DEF hostLines6, dockerLines6
  <2> QED
    BY <2>1, <2>2
<1>8. outboundLines6(r) \in Seq(LineOf(6, Packet))
  <2>1. CASE v4Only(r.source)
    BY <1>4, <2>1 DEF outboundLines6
  <2>2. CASE ~v4Only(r.source)
    <3>1. peerArgs(r.source) \in FragOf(6, Packet)
      BY <2>2, SourceFrags
    <3> QED
      BY <1>1, <1>3, <2>2, <3>1, EmitZoneIs DEF outboundLines6
  <2> QED
    BY <2>1, <2>2
<1> QED
  BY <1>5, <1>6, <1>7, <1>8

\* The lines of an outbound rule that names its peers match nothing that
\* comes in.
Leaving == {p \in Packet : ~FromPeer(p)}

LEMMA LeavingLines ==
  ASSUME NEW r \in Rule, r.source.type # "any"
  PROVE  v4Lines(r) \in Seq(LineOf(4, Leaving))
<1>1. CASE isIPv6Source(r.source)
  <2>1. <<>> \in Seq(LineOf(4, Leaving))
    OBVIOUS
  <2> QED
    BY <1>1, <2>1 DEF v4Lines
<1>2. CASE ~isIPv6Source(r.source)
  <2> DEFINE t == r.source
             dst == {p \in Packet : ~FromPeer(p) /\ p.peer \in t.of}
             m == Match(dst)
  <2>1. t \in Source /\ (t.type \in {"ip", "range"} => t.of \subseteq V6Address \/ t.of \cap V6Address = {})
    BY DEF Rule, Source
  <2>2. DstIn(t.of) = [m EXCEPT !.lit = families(t.of)]
    BY DEF DstIn
  <2>3. m.on \subseteq Leaving /\ m.n \in Size /\ m = [on |-> m.on, lit |-> m.lit, n |-> m.n]
    <3>1. 0 \in Size
      BY MultiportAssumption DEF Size
    <3>2. dst \subseteq Leaving
      BY DEF Leaving
    <3> HIDE DEF dst
    <3> QED
      BY <3>1, <3>2 DEF Match
  <2> HIDE DEF m, t
  <2>4. peerArgs(t) \in FragOf(4, Leaving)
    <3>1. CASE t.type \in {"ip", "range"}
      <4>1. families(t.of) \subseteq {4}
        BY <1>2, <2>1, <3>1, FamiliesIs DEF isIPv6Source, t
      <4> QED
        BY <2>2, <2>3, <3>1, <4>1 DEF peerArgs, FragOf
    <3>2. CASE t.type \notin {"ip", "range"}
      <4>1. peerArgs(t) = [DstIn(t.of) EXCEPT !.lit = {4}]
        BY <3>2 DEF peerArgs, t
      <4> QED
        BY <2>2, <2>3, <4>1 DEF FragOf
    <3> QED
      BY <3>1, <3>2
  <2>5. r.ports \in PortSpec \cup {NoPorts} /\ "ACCEPT" \in Target
    BY DEF Rule, Target
  <2> QED
    BY <1>2, <2>4, <2>5, EmitZoneIs DEF v4Lines, outboundLines, t
<1> QED
  BY <1>1, <1>2

-----------------------------------------------------------------------------
(* The chains of a rule set *)

\* What of a validated rule set the compiler relies on; naming the ports of
\* the running containers keeps it.
Compilable(rs) ==
  /\ rs.rules \in Seq(Rule)
  /\ rs.hostIP # None => rs.hostIP \notin V6Address
  /\ rs.v6drop \subseteq Int /\ IsFiniteSet(rs.v6drop)

\* An inventory has finitely many published ports.
Inventories == {pub \in [tcp : SUBSET Int, udp : SUBSET Int] :
                  IsFiniteSet(pub.tcp) /\ IsFiniteSet(pub.udp)}

LEMMA SortedRules ==
  ASSUME NEW rs, Compilable(rs)
  PROVE  sorted(rs.rules) \in Seq(Rule) /\ Len(sorted(rs.rules)) = Len(rs.rules)
<1>1. rs.rules \in Seq(Rule)
  BY DEF Compilable
<1>2. \A i \in DOMAIN rs.rules : rs.rules[i].order \in Int
  <2>1. \A r \in Rule : r.order \in Int
    BY DEF Rule
  <2> QED
    BY <1>1, <2>1
<1> QED
  BY <1>1, <1>2, SortedIs

\* The lines of the rules in each chain, as ruleLines expands them.
HostPart(rs, P) == ruleLines(rs, LAMBDA r : hostLines(r, P))
DockerPart(rs, P) == ruleLines(rs, LAMBDA r : dockerLines(r, P))
HostPart6(rs) == ruleLines(rs, hostLines6)
DockerPart6(rs, P) == ruleLines(rs, LAMBDA r : dockerLines6(r, P))
OutPart(rs, zone) ==
  ruleLines(rs, LAMBDA r : IF IsOutbound(r) /\ r.zone \in {"auto", zone} THEN v4Lines(r) ELSE <<>>)
OutPart6(rs, zone) ==
  ruleLines(rs, LAMBDA r : IF IsOutbound(r) /\ r.zone \in {"auto", zone} THEN outboundLines6(r) ELSE <<>>)

LEMMA RuleSetLinesFit ==
  ASSUME NEW rs, Compilable(rs), NEW P, NEW zone
  PROVE  /\ HostPart(rs, P) \in Seq(LineOf(4, Packet))
         /\ DockerPart(rs, P) \in Seq(LineOf(4, Packet))
         /\ OutPart(rs, zone) \in Seq(LineOf(4, Packet))
         /\ HostPart6(rs) \in Seq(LineOf(6, Packet))
         /\ DockerPart6(rs, P) \in Seq(LineOf(6, Packet))
         /\ OutPart6(rs, zone) \in Seq(LineOf(6, Packet))
<1> DEFINE rl == sorted(rs.rules)
           D == DOMAIN rl
<1>1. rl \in Seq(Rule)
  BY SortedRules
<1>2. \A i \in D : rl[i] \in Rule
  BY <1>1
<1>3. <<>> \in Seq(LineOf(4, Packet)) /\ <<>> \in Seq(LineOf(6, Packet))
  OBVIOUS
<1> DEFINE f1 == [i \in D |-> IF rl[i].enabled THEN hostLines(rl[i], P) ELSE <<>>]
           f2 == [i \in D |-> IF rl[i].enabled THEN dockerLines(rl[i], P) ELSE <<>>]
           f3 == [i \in D |-> IF rl[i].enabled
                              THEN IF IsOutbound(rl[i]) /\ rl[i].zone \in {"auto", zone}
                                   THEN v4Lines(rl[i]) ELSE <<>> ELSE <<>>]
           f4 == [i \in D |-> IF rl[i].enabled THEN hostLines6(rl[i]) ELSE <<>>]
           f5 == [i \in D |-> IF rl[i].enabled THEN dockerLines6(rl[i], P) ELSE <<>>]
           f6 == [i \in D |-> IF rl[i].enabled
                              THEN IF IsOutbound(rl[i]) /\ rl[i].zone \in {"auto", zone}
                                   THEN outboundLines6(rl[i]) ELSE <<>> ELSE <<>>]
<1>4. /\ HostPart(rs, P) = Concat(f1) /\ DockerPart(rs, P) = Concat(f2)
      /\ OutPart(rs, zone) = Concat(f3) /\ HostPart6(rs) = Concat(f4)
      /\ DockerPart6(rs, P) = Concat(f5) /\ OutPart6(rs, zone) = Concat(f6)
  BY DEF ruleLines, HostPart, DockerPart, OutPart, HostPart6, DockerPart6, OutPart6
<1> HIDE DEF rl
<1>5. /\ f1 \in [D -> Seq(LineOf(4, Packet))] /\ f2 \in [D -> Seq(LineOf(4, Packet))]
      /\ f3 \in [D -> Seq(LineOf(4, Packet))] /\ f4 \in [D -> Seq(LineOf(6, Packet))]
      /\ f5 \in [D -> Seq(LineOf(6, Packet))] /\ f6 \in [D -> Seq(LineOf(6, Packet))]
  BY <1>2, <1>3, RuleLinesFit
<1> HIDE DEF f1, f2, f3, f4, f5, f6
<1>6. /\ Concat(f1) \in Seq(LineOf(4, Packet)) /\ Concat(f2) \in Seq(LineOf(4, Packet))
      /\ Concat(f3) \in Seq(LineOf(4, Packet)) /\ Concat(f4) \in Seq(LineOf(6, Packet))
      /\ Concat(f5) \in Seq(LineOf(6, Packet)) /\ Concat(f6) \in Seq(LineOf(6, Packet))
  BY <1>1, <1>5, ConcatOf
<1> QED
  BY <1>4, <1>6

\* No outbound rule of the containers' zone is about every peer.
NamesPeers(rs) ==
  \A i \in DOMAIN rs.rules :
    IsOutbound(rs.rules[i]) /\ rs.rules[i].zone \in {"auto", "docker"}
      => rs.rules[i].source.type # "any"

LEMMA OutPartLeaves ==
  ASSUME NEW rs, Compilable(rs), NamesPeers(rs)
  PROVE  OutPart(rs, "docker") \in Seq(LineOf(4, Leaving))
<1> DEFINE rl == sorted(rs.rules)
           D == DOMAIN rl
           f == [i \in D |-> IF rl[i].enabled
                             THEN IF IsOutbound(rl[i]) /\ rl[i].zone \in {"auto", "docker"}
                                  THEN v4Lines(rl[i]) ELSE <<>> ELSE <<>>]
           Named == {r \in Rule : IsOutbound(r) /\ r.zone \in {"auto", "docker"}
                                    => r.source.type # "any"}
<1>1. rl \in Seq(Named)
  <2>1. rs.rules \in Seq(Rule)
    BY DEF Compilable
  <2>2. \A i \in DOMAIN rs.rules : rs.rules[i] \in Named
    BY <2>1 DEF NamesPeers
  <2>3. rs.rules \in Seq(Named)
    <3> HIDE DEF Named
    <3> QED
      BY <2>1, <2>2
  <2>4. \A i \in DOMAIN rs.rules : rs.rules[i].order \in Int
    <3>1. \A r \in Rule : r.order \in Int
      BY DEF Rule
    <3> QED
      BY <2>1, <3>1
  <2> HIDE DEF Named
  <2> QED
    BY <2>3, <2>4, SortedIs
<1>2. OutPart(rs, "docker") = Concat(f)
  BY DEF ruleLines, OutPart
<1> HIDE DEF rl
<1>3. \A i \in D : rl[i] \in Named
  BY <1>1
<1>4. f \in [D -> Seq(LineOf(4, Leaving))]
  <2>1. <<>> \in Seq(LineOf(4, Leaving))
    OBVIOUS
  <2>2. \A i \in D : rl[i].enabled /\ IsOutbound(rl[i]) /\ rl[i].zone \in {"auto", "docker"}
                     => v4Lines(rl[i]) \in Seq(LineOf(4, Leaving))
    BY <1>3, LeavingLines
  <2> QED
    BY <2>1, <2>2
<1> HIDE DEF f
<1> QED
  BY <1>1, <1>2, <1>4, ConcatOf

\* Every chain opens with the line of the established connections.
Opens(s, v) ==
  /\ s \in Seq(LineOf(v, Packet)) /\ s # <<>>
  /\ s[1].on = InState({"established"}).on
  /\ s[1].to \in {"ACCEPT", "RETURN"}

LEMMA OpensStill ==
  ASSUME NEW v, NEW s, Opens(s, v), NEW t \in Seq(LineOf(v, Packet))
  PROVE  Opens(s \o t, v)
<1>1. s \in Seq(LineOf(v, Packet)) /\ s # <<>>
  BY DEF Opens
<1>2. s \o t \in Seq(LineOf(v, Packet)) /\ s \o t # <<>> /\ (s \o t)[1] = s[1]
  BY <1>1
<1> QED
  BY <1>2 DEF Opens

LEMMA EstablishedOpens ==
  ASSUME NEW v, NEW to \in {"ACCEPT", "RETURN"}
  PROVE  Opens(<< Line(InState({"established"}), to) >>, v)
<1> DEFINE m == InState({"established"})
<1>1. m \in FragOf(v, Packet)
  BY NamesNoAddress
<1> HIDE DEF m
<1>2. to \in Target
  BY DEF Target
<1>3. Line(m, to) \in LineOf(v, Packet) /\ Line(m, to).on = m.on /\ Line(m, to).to = to
  BY <1>1, <1>2, LineIs
<1>4. << Line(m, to) >> \in Seq(LineOf(v, Packet)) /\ << Line(m, to) >> # <<>> /\ << Line(m, to) >>[1] = Line(m, to)
  BY <1>3
<1> QED
  BY <1>3, <1>4 DEF Opens, m

\* A line that lets the packets of E go stands before the first DROP.
Shelters(s, E) ==
  \E j \in DOMAIN s :
    /\ E \subseteq s[j].on /\ s[j].to \in {"ACCEPT", "RETURN"}
    /\ \A i \in DOMAIN s : i < j => s[i].to # "DROP"

LEMMA SheltersStill ==
  ASSUME NEW X, NEW s \in Seq(X), NEW t \in Seq(X), NEW E, Shelters(s, E)
  PROVE  Shelters(s \o t, E)
<1>1. PICK j \in DOMAIN s : /\ E \subseteq s[j].on /\ s[j].to \in {"ACCEPT", "RETURN"}
                            /\ \A i \in DOMAIN s : i < j => s[i].to # "DROP"
  BY DEF Shelters
<1>2. /\ j \in DOMAIN (s \o t)
      /\ \A i \in DOMAIN s : (s \o t)[i] = s[i]
      /\ \A i \in DOMAIN (s \o t) : i < j => i \in DOMAIN s
  OBVIOUS
<1> HIDE DEF Shelters
<1>3. E \subseteq (s \o t)[j].on /\ (s \o t)[j].to \in {"ACCEPT", "RETURN"}
  BY <1>1, <1>2
<1>4. \A i \in DOMAIN (s \o t) : i < j => (s \o t)[i].to # "DROP"
  BY <1>1, <1>2
<1> QED
  BY <1>2, <1>3, <1>4 DEF Shelters

LEMMA OpensShelters ==
  ASSUME NEW s, NEW v, Opens(s, v)
  PROVE  Shelters(s, InState({"established"}).on)
<1>1. s \in Seq(LineOf(v, Packet)) /\ s # <<>>
  BY DEF Opens
<1>2. 1 \in DOMAIN s /\ \A i \in DOMAIN s : ~(i < 1)
  BY <1>1
<1> QED
  BY <1>2 DEF Opens, Shelters

\* hostBypass, and what both ends of a chain may hold.
LEMMA HostBypassOpens ==
  ASSUME NEW v, NEW pass \in {"ACCEPT", "RETURN"}, NEW dhcp, NEW fixed \in Seq(LineOf(v, Packet))
  PROVE  Opens(hostBypass(pass, dhcp, fixed), v)
<1> DEFINE a == Line(InState({"established"}), pass)
           b == Line(InState({"invalid"}), "DROP")
           c == Line(OnIface({"lo", "docker", "mesh"}), pass)
           d == Line(OfProto("icmp"), pass)
           e == Line(OfProto("udp") ++ DPort(dhcp), pass)
<1>1. "DROP" \in Target /\ pass \in Target
  BY DEF Target
<1>2. OfProto("udp") ++ DPort(dhcp) \in FragOf(v, Packet)
  BY NamesNoAddress, JoinIs
<1>3. a \in LineOf(v, Packet) /\ b \in LineOf(v, Packet) /\ c \in LineOf(v, Packet) /\ d \in LineOf(v, Packet) /\ e \in LineOf(v, Packet)
  BY <1>1, <1>2, NamesNoAddress, LineIs
<1>4. Opens(<< a >>, v)
  BY EstablishedOpens
<1>5. hostBypass(pass, dhcp, fixed) = <<a, b, c, d, e>> \o fixed
  BY DEF hostBypass
<1> HIDE DEF a, b, c, d, e
<1>6. <<a, b, c, d, e>> = << a >> \o <<b, c, d, e>> /\ <<b, c, d, e>> \in Seq(LineOf(v, Packet))
  BY <1>3
<1> QED
  BY <1>4, <1>5, <1>6, OpensStill

LEMMA Singles ==
  ASSUME NEW v
  PROVE  /\ \A to \in Target : << Line(All, to) >> \in Seq(LineOf(v, Packet))
         /\ << Line(All, "ZFW-APPS-IN"), Line(All, "DROP") >> \in Seq(LineOf(v, Packet))
         /\ << Line(All, "ZFW-APPS-IN6"), Line(All, "DROP") >> \in Seq(LineOf(v, Packet))
         /\ \A I : << Line(OnIface(I), "RETURN") >> \in Seq(LineOf(v, Packet))
         /\ \A I, J : << Line(OnIface(I), "RETURN"), Line(OnIface(J), "RETURN") >> \in Seq(LineOf(v, Packet))
         /\ dnatGuardLines \in Seq(LineOf(v, Packet))
<1>1. {"DROP", "RETURN", "ZFW-APPS-IN", "ZFW-APPS-IN6"} \subseteq Target
  BY DEF Target
<1>2. \A to \in Target : Line(All, to) \in LineOf(v, Packet)
  BY NamesNoAddress, LineIs
<1>3. \A I : Line(OnIface(I), "RETURN") \in LineOf(v, Packet)
  BY <1>1, NamesNoAddress, LineIs
<1>4. Line(DNATed ++ InState({"new"}), "DROP") \in LineOf(v, Packet)
  <2>1. DNATed ++ InState({"new"}) \in FragOf(v, Packet)
    BY NamesNoAddress, JoinIs
  <2> QED
    BY <1>1, <2>1, LineIs
<1> QED
  BY <1>1, <1>2, <1>3, <1>4 DEF dnatGuardLines

LEMMA DenyTailFits ==
  ASSUME NEW v, NEW rs, NEW pub \in Inventories, NEW jump \in {"ZFW-APPS", "ZFW-APPS6"}
  PROVE  denyTail(rs, pub, jump) \in Seq(LineOf(v, Packet))
<1> DEFINE line(q, P, i) == Line(OfProto(q) ++ DPort({sortedPorts(P)[i]}) ++ InState({"new"}), "DROP")
           drop(q, P) == [i \in 1 .. Cardinality(P) |-> line(q, P, i)]
<1>1. ASSUME NEW q, NEW P, IsFiniteSet(P) PROVE drop(q, P) \in Seq(LineOf(v, Packet))
  <2>1. Cardinality(P) \in Nat
    BY <1>1, FS_CardinalityType
  <2>2. ASSUME NEW i PROVE line(q, P, i) \in LineOf(v, Packet)
    <3>1. OfProto(q) ++ DPort({sortedPorts(P)[i]}) \in FragOf(v, Packet)
      BY NamesNoAddress, JoinIs
    <3>2. OfProto(q) ++ DPort({sortedPorts(P)[i]}) ++ InState({"new"}) \in FragOf(v, Packet)
      BY <3>1, NamesNoAddress, JoinIs
    <3> QED
      BY <3>2, LineIs DEF Target
  <2> HIDE DEF line
  <2>3. drop(q, P) \in [1 .. Cardinality(P) -> LineOf(v, Packet)]
    BY <2>2
  <2> QED
    BY <2>1, <2>3, AsSequence
<1>2. IsFiniteSet(pub.tcp) /\ IsFiniteSet(pub.udp)
  BY DEF Inventories
<1>3. denyLines(pub) = drop("tcp", pub.tcp) \o drop("udp", pub.udp)
  BY DEF denyLines
<1> HIDE DEF drop
<1>4. denyLines(pub) \in Seq(LineOf(v, Packet))
  BY <1>1, <1>2, <1>3
<1>5. << Line(All, jump) >> \in Seq(LineOf(v, Packet)) /\ dnatGuardLines \in Seq(LineOf(v, Packet))
  BY Singles DEF Target
<1> QED
  BY <1>4, <1>5 DEF denyTail

\* Every chain holds lines that its table takes, the established ones first.
LEMMA ChainsFit ==
  ASSUME NEW rs, Compilable(rs), NEW pub \in Inventories, NEW c \in Chains
  PROVE  Opens(Compiled(rs, pub)[c], IF c \in V6Chains THEN 6 ELSE 4)
<1>1. "ACCEPT" \in {"ACCEPT", "RETURN"} /\ "RETURN" \in {"ACCEPT", "RETURN"}
  OBVIOUS
<1>2. {"DROP", "RETURN", "ACCEPT"} \subseteq Target
  BY DEF Target
<1>3. << Line(All, "RETURN") >> \in Seq(LineOf(4, Packet)) /\ << Line(All, "RETURN") >> \in Seq(LineOf(6, Packet))
  BY <1>2, Singles
<1>4. Opens(zfwInRules(rs, pub), 4)
  <2> DEFINE a == hostBypass("ACCEPT", {68, 41641, 9993}, <<>>)
             b == HostPart(rs, all(pub))
             d == IF rs.policy = "allow" THEN << Line(All, "RETURN") >>
                  ELSE << Line(All, "ZFW-APPS-IN"), Line(All, "DROP") >>
  <2>1. Opens(a, 4)
    <3> DEFINE none == <<>>
    <3>1. none \in Seq(LineOf(4, Packet))
      OBVIOUS
    <3> HIDE DEF none
    <3>2. \A dhcp : Opens(hostBypass("ACCEPT", dhcp, none), 4)
      BY <1>1, <3>1, HostBypassOpens
    <3> QED
      BY <3>2 DEF none
  <2>2. b \in Seq(LineOf(4, Packet))
    BY RuleSetLinesFit
  <2>3. d \in Seq(LineOf(4, Packet))
    BY <1>3, Singles
  <2>4. zfwInRules(rs, pub) = (a \o b) \o d
    BY DEF zfwInRules, HostPart
  <2> HIDE DEF a, b, d
  <2> QED
    BY <2>1, <2>2, <2>3, <2>4, OpensStill
<1>5. Opens(zfwIn6Rules(rs), 6)
  <2> DEFINE a == hostBypass("RETURN", {546}, linkLocalMDNS)
             b == HostPart6(rs)
             line(i) == Line(OfProto("tcp") ++ DPort({sortedPorts(rs.v6drop)[i]}), "DROP")
             n == Cardinality(rs.v6drop)
             e == [i \in 1 .. n |-> line(i)]
             d == IF rs.policy = "allow" THEN << Line(All, "RETURN") >>
                  ELSE << Line(All, "ZFW-APPS-IN6"), Line(All, "DROP") >>
  <2>1. linkLocalMDNS \in Seq(LineOf(6, Packet))
    <3>1. SrcIn({"link"}) \in FragOf(6, Packet)
      <4>1. {"link"} \subseteq V6Address
        BY LinkAssumption
      <4> QED
        BY <4>1, FamiliesIs, NamesAddresses
    <3>2. SrcIn({"link"}) ++ OfProto("udp") \in FragOf(6, Packet)
      BY <3>1, NamesNoAddress, JoinIs
    <3>3. SrcIn({"link"}) ++ OfProto("udp") ++ DPort({MDNS}) \in FragOf(6, Packet)
      BY <3>2, NamesNoAddress, JoinIs
    <3> QED
      BY <1>2, <3>3, OneLine DEF linkLocalMDNS
  <2>2. Opens(a, 6)
    BY <1>1, <2>1, HostBypassOpens
  <2>3. b \in Seq(LineOf(6, Packet))
    BY RuleSetLinesFit
  <2>4. e \in Seq(LineOf(6, Packet))
    <3>1. n \in Nat
      BY FS_CardinalityType DEF Compilable
    <3>2. ASSUME NEW i PROVE line(i) \in LineOf(6, Packet)
      <4>1. OfProto("tcp") ++ DPort({sortedPorts(rs.v6drop)[i]}) \in FragOf(6, Packet)
        BY NamesNoAddress, JoinIs
      <4> QED
        BY <1>2, <4>1, LineIs
    <3> HIDE DEF n, line
    <3>3. e \in [1 .. n -> LineOf(6, Packet)]
      BY <3>2
    <3> QED
      BY <3>1, <3>3, AsSequence
  <2>5. d \in Seq(LineOf(6, Packet))
    BY <1>3, Singles
  <2>6. zfwIn6Rules(rs) = ((a \o b) \o e) \o d
    BY DEF zfwIn6Rules, HostPart6
  <2> HIDE DEF a, b, d, e
  <2>7. Opens(a \o b, 6)
    BY <2>2, <2>3, OpensStill
  <2>8. Opens((a \o b) \o e, 6)
    BY <2>4, <2>7, OpensStill
  <2> QED
    BY <2>5, <2>6, <2>8, OpensStill
<1>6. Opens(dockerUserRules(rs, pub), 4)
  <2> DEFINE a == << Line(InState({"established"}), "RETURN") >>
             h == IF rs.hostIP = None THEN <<>> ELSE << Line(SrcIn({rs.hostIP}), "RETURN") >>
             i == << Line(OnIface({"mesh"}), "RETURN"), Line(OnIface({"docker"}), "RETURN") >>
             b == DockerPart(rs, all(pub))
             e == denyTail(rs, pub, "ZFW-APPS")
             d == << Line(All, "RETURN") >>
  <2>1. Opens(a, 4)
    BY <1>1, EstablishedOpens
  <2>2. h \in Seq(LineOf(4, Packet))
    <3>1. <<>> \in Seq(LineOf(4, Packet))
      OBVIOUS
    <3>2. CASE rs.hostIP # None
      <4>1. {rs.hostIP} \cap V6Address = {}
        BY <3>2 DEF Compilable
      <4>2. SrcIn({rs.hostIP}) \in FragOf(4, Packet)
        BY <4>1, FamiliesIs, NamesAddresses
      <4> QED
        BY <1>2, <3>2, <4>2, OneLine
    <3> QED
      BY <3>1, <3>2
  <2>3. i \in Seq(LineOf(4, Packet))
    BY Singles
  <2>4. b \in Seq(LineOf(4, Packet))
    BY RuleSetLinesFit
  <2>5. e \in Seq(LineOf(4, Packet))
    BY DenyTailFits
  <2>6. dockerUserRules(rs, pub) = ((((a \o h) \o i) \o b) \o e) \o d
    BY DEF dockerUserRules, DockerPart
  <2> HIDE DEF a, h, i, b, e
  <2>7. Opens((a \o h) \o i, 4)
    BY <2>1, <2>2, <2>3, OpensStill
  <2>8. Opens((((a \o h) \o i) \o b) \o e, 4)
    BY <2>4, <2>5, <2>7, OpensStill
  <2> QED
    BY <1>3, <2>6, <2>8, OpensStill
<1>7. Opens(dockerUser6Rules(rs, pub), 6)
  <2> DEFINE a == << Line(InState({"established"}), "RETURN") >>
             i == << Line(OnIface({"mesh"}), "RETURN") >>
             b == DockerPart6(rs, all(pub))
             h == IF rs.policy = "deny" THEN << Line(OnIface({"docker"}), "RETURN") >> ELSE <<>>
             e == denyTail(rs, pub, "ZFW-APPS6")
             d == << Line(All, "RETURN") >>
  <2>1. Opens(a, 6)
    BY <1>1, EstablishedOpens
  <2>2. h \in Seq(LineOf(6, Packet)) /\ i \in Seq(LineOf(6, Packet))
    <3>1. <<>> \in Seq(LineOf(6, Packet))
      OBVIOUS
    <3> QED
      BY <3>1, Singles
  <2>3. b \in Seq(LineOf(6, Packet))
    BY RuleSetLinesFit
  <2>4. e \in Seq(LineOf(6, Packet))
    BY DenyTailFits
  <2>5. dockerUser6Rules(rs, pub) = ((((a \o i) \o b) \o h) \o e) \o d
    <3>1. << Line(InState({"established"}), "RETURN"), Line(OnIface({"mesh"}), "RETURN") >> = a \o i
      OBVIOUS
    <3> QED
      BY <3>1 DEF dockerUser6Rules, DockerPart6
  <2> HIDE DEF a, h, i, b, e
  <2>6. Opens((a \o i) \o b, 6)
    BY <2>1, <2>2, <2>3, OpensStill
  <2>7. Opens((((a \o i) \o b) \o h) \o e, 6)
    BY <2>2, <2>4, <2>6, OpensStill
  <2> QED
    BY <1>3, <2>5, <2>7, OpensStill
<1>8. ASSUME NEW zone, NEW pass \in {"ACCEPT", "RETURN"}
      PROVE  /\ Opens(outChain(rs, zone, pass, v4Lines), 4)
             /\ Opens(outChain(rs, zone, pass, outboundLines6), 6)
  <2> DEFINE a == << Line(InState({"established"}), pass) >>
             b == OutPart(rs, zone)
             b6 == OutPart6(rs, zone)
             d == << Line(All, "RETURN") >>
  <2>1. Opens(a, 4) /\ Opens(a, 6)
    BY EstablishedOpens
  <2>2. b \in Seq(LineOf(4, Packet)) /\ b6 \in Seq(LineOf(6, Packet))
    BY RuleSetLinesFit
  <2>3. outChain(rs, zone, pass, v4Lines) = (a \o b) \o d
        /\ outChain(rs, zone, pass, outboundLines6) = (a \o b6) \o d
    BY DEF outChain, OutPart, OutPart6
  <2> HIDE DEF a, b, b6
  <2> QED
    BY <1>3, <2>1, <2>2, <2>3, OpensStill
<1> QED
  BY <1>1, <1>4, <1>5, <1>6, <1>7, <1>8 DEF Compiled, Chains, V6Chains

\* dockerUserRules returns the packets of containers before any rule.
LEMMA DockerUserShelters ==
  ASSUME NEW rs, Compilable(rs), NEW pub \in Inventories
  PROVE  Shelters(dockerUserRules(rs, pub), OnIface({"docker"}).on)
<1> DEFINE a == Line(InState({"established"}), "RETURN")
           g == Line(SrcIn({rs.hostIP}), "RETURN")
           i == Line(OnIface({"mesh"}), "RETURN")
           j == Line(OnIface({"docker"}), "RETURN")
           h == IF rs.hostIP = None THEN <<>> ELSE << g >>
           b == DockerPart(rs, all(pub))
           e == denyTail(rs, pub, "ZFW-APPS")
           d == << Line(All, "RETURN") >>
           E == OnIface({"docker"}).on
           L == LineOf(4, Packet)
<1>1. "RETURN" \in Target
  BY DEF Target
<1>2. a \in L /\ i \in L /\ j \in L /\ Line(All, "RETURN") \in L
  BY <1>1, NamesNoAddress, LineIs
<1>3. rs.hostIP # None => g \in L
  <2> SUFFICES ASSUME rs.hostIP # None PROVE g \in L
    OBVIOUS
  <2>1. {rs.hostIP} \cap V6Address = {}
    BY DEF Compilable
  <2>2. SrcIn({rs.hostIP}) \in FragOf(4, Packet)
    BY <2>1, FamiliesIs, NamesAddresses
  <2> QED
    BY <1>1, <2>2, LineIs
<1>4. a.to = "RETURN" /\ g.to = "RETURN" /\ i.to = "RETURN" /\ j.to = "RETURN" /\ j.on = E
  BY DEF Line
<1>5. dockerUserRules(rs, pub) = ((((<< a >> \o h) \o <<i, j>>) \o b) \o e) \o d
  BY DEF dockerUserRules, DockerPart
<1>6. b \in Seq(L) /\ e \in Seq(L)
  BY RuleSetLinesFit, DenyTailFits
<1> HIDE DEF a, g, i, j, b, e, E, L
<1>7. /\ (<< a >> \o h) \o <<i, j>> \in Seq(L)
      /\ Shelters((<< a >> \o h) \o <<i, j>>, E)
  <2>1. CASE rs.hostIP = None
    <3>1. (<< a >> \o h) \o <<i, j>> = <<a, i, j>>
      <4>0. << a >> \in Seq(L) /\ <<i, j>> \in Seq(L)
        BY <1>2
      <4>1. << a >> \o <<>> = << a >>
        BY <4>0
      <4>3. <<a, i, j>> = << a >> \o <<i, j>>
        BY <4>0
      <4>2. h = <<>>
        BY <2>1
      <4> HIDE DEF h
      <4> QED
        BY <4>1, <4>2, <4>3
    <3>2. <<a, i, j>> \in Seq(L)
      BY <1>2
    <3>3. 3 \in DOMAIN <<a, i, j>> /\ \A m \in DOMAIN <<a, i, j>> : <<a, i, j>>[m].to = "RETURN"
      BY <1>4
    <3>4. <<a, i, j>>[3] = j
      OBVIOUS
    <3> QED
      BY <1>4, <3>1, <3>2, <3>3, <3>4 DEF Shelters
  <2>2. CASE rs.hostIP # None
    <3>1. (<< a >> \o h) \o <<i, j>> = <<a, g, i, j>>
      <4>0. << a >> \in Seq(L) /\ << g >> \in Seq(L) /\ <<a, g>> \in Seq(L) /\ <<i, j>> \in Seq(L)
        BY <1>2, <1>3, <2>2
      <4>1. <<a, g>> = << a >> \o << g >>
        <5> DEFINE u == << a >> \o << g >>
        <5>1. u \in Seq(L) /\ Len(u) = 2 /\ u[1] = a /\ u[2] = g
          BY <4>0
        <5> HIDE DEF u
        <5>2. u = <<a, g>>
          BY <4>0, <5>1
        <5> QED
          BY <5>2 DEF u
      <4>3. <<a, g, i, j>> = <<a, g>> \o <<i, j>>
        <5> DEFINE u == <<a, g>> \o <<i, j>>
        <5>1. u \in Seq(L) /\ Len(u) = 4 /\ u[1] = a /\ u[2] = g /\ u[3] = i /\ u[4] = j
          BY <4>0
        <5>2. <<a, g, i, j>> \in Seq(L)
          BY <1>2, <1>3, <2>2
        <5> HIDE DEF u
        <5>3. u = <<a, g, i, j>>
          BY <5>1, <5>2
        <5> QED
          BY <5>3 DEF u
      <4>2. h = << g >>
        BY <2>2
      <4> HIDE DEF h
      <4> QED
        BY <4>1, <4>2, <4>3
    <3>2. <<a, g, i, j>> \in Seq(L)
      BY <1>2, <1>3, <2>2
    <3>3. 4 \in DOMAIN <<a, g, i, j>> /\ \A m \in DOMAIN <<a, g, i, j>> : <<a, g, i, j>>[m].to = "RETURN"
      BY <1>4
    <3>4. <<a, g, i, j>>[4] = j
      OBVIOUS
    <3> QED
      BY <1>4, <3>1, <3>2, <3>3, <3>4 DEF Shelters
  <2> QED
    BY <2>1, <2>2
<1> HIDE DEF h
<1> DEFINE pre == (<< a >> \o h) \o <<i, j>>
<1> HIDE DEF pre
<1>8. pre \in Seq(L) /\ Shelters(pre, E)
  BY <1>7 DEF pre
<1> DEFINE q == pre \o b
           t == q \o e
<1>9. q \in Seq(L) /\ Shelters(q, E)
  BY <1>6, <1>8, SheltersStill
<1> HIDE DEF q
<1>10. t \in Seq(L) /\ Shelters(t, E)
  BY <1>6, <1>9, SheltersStill
<1> HIDE DEF t
<1>11. d \in Seq(L)
  BY <1>2
<1>12. Shelters(t \o d, E)
  BY <1>10, <1>11, SheltersStill
<1> QED
  BY <1>5, <1>12 DEF t, q, pre, E

\* The lines that drop or accept are about packets of W.
DecidesOnly(lines, W) ==
  \A i \in DOMAIN lines : lines[i].to \in {"DROP", "ACCEPT"} => lines[i].on \subseteq W

\* The chain of the containers' own connections decides nothing that comes in.
LEMMA FwdOutLeaves ==
  ASSUME NEW rs, Compilable(rs), NamesPeers(rs)
  PROVE  LET s == outChain(rs, "docker", "RETURN", v4Lines)
         IN  DecidesOnly(s, Leaving)
<1> DEFINE a == Line(InState({"established"}), "RETURN")
           b == OutPart(rs, "docker")
           d == Line(All, "RETURN")
           s == (<< a >> \o b) \o << d >>
<1>1. outChain(rs, "docker", "RETURN", v4Lines) = s
  BY DEF outChain, OutPart
<1>2. b \in Seq(LineOf(4, Leaving))
  BY OutPartLeaves
<1>3. a.to = "RETURN" /\ d.to = "RETURN"
  BY DEF Line
<1> HIDE DEF a, b, d
<1>4. ASSUME NEW n \in DOMAIN s, s[n].to \in {"DROP", "ACCEPT"} PROVE s[n].on \subseteq Leaving
  <2>1. s[n] = a \/ s[n] = d \/ \E m \in DOMAIN b : s[n] = b[m]
    BY <1>2
  <2>2. PICK m \in DOMAIN b : s[n] = b[m]
    BY <1>3, <1>4, <2>1
  <2>3. b[m] \in LineOf(4, Leaving)
    BY <1>2
  <2> QED
    BY <2>2, <2>3 DEF LineOf
<1> HIDE DEF s
<1> QED
  BY <1>1, <1>4 DEF DecidesOnly

-----------------------------------------------------------------------------
(* Configurations *)

LEMMA TableIs ==
  ASSUME NEW f
  PROVE  Table(f) = f
BY DEF Table

LEMMA PortNumbers ==
  ASSUME NEW P, P \subseteq PortNumber
  PROVE  P \subseteq Int /\ IsFiniteSet(P)
<1>1. MaxPort \in Int
  BY DEF MaxPort
<1>2. PortNumber = 1 .. MaxPort
  BY DEF PortNumber
<1>3. PortNumber \subseteq Int /\ IsFiniteSet(PortNumber)
  <2>1. 1 .. MaxPort \subseteq Int
    BY <1>1
  <2>2. IsFiniteSet(1 .. MaxPort)
    BY <1>1, FS_Interval
  <2> QED
    BY <1>2, <2>1, <2>2
<1> QED
  BY <1>3, FS_Subset

\* Validated and bound to the running containers, a rule set is compilable.
LEMMA ConfigurationsCompile ==
  ASSUME NEW k \in Configuration
  PROVE  Compilable(RulesOf[k]) /\ Inventory(k.run) \in Inventories
<1> DEFINE rs == RuleSets[k.name]
<1>1. k.name \in DOMAIN RuleSets /\ Validate(rs) /\ k.run \in SUBSET Container
  BY DEF Configuration, Valid
<1>2. rs \in RuleSet
  BY <1>1, RuleSetsAssumption
<1>4. Published \in [Container -> [tcp : SUBSET PortNumber, udp : SUBSET PortNumber]]
  BY PublishedAssumption
<1>5. rs.v6drop \subseteq PortNumber
  BY <1>1 DEF Validate
<1>6. Inventory(k.run) \in Inventories
  <2>1. /\ UNION {Published[c].tcp : c \in k.run} \subseteq PortNumber
        /\ UNION {Published[c].udp : c \in k.run} \subseteq PortNumber
    BY <1>1, <1>4
  <2> QED
    BY PortNumbers, <2>1 DEF Inventory, Inventories
<1> DEFINE bind(r) ==
             IF r.container \notin k.run \/ all(Published[r.container]) = {} THEN r
             ELSE [r EXCEPT !.ports = ListPorts(sortedPorts(all(Published[r.container])))]
<1>7. ASSUME NEW r \in Rule PROVE bind(r) \in Rule
  <2> DEFINE P == all(Published[r.container])
  <2>1. CASE r.container \in k.run
    <3>1. P \subseteq PortNumber
      BY <1>1, <1>4, <2>1 DEF all
    <3>2. P \in SUBSET Int /\ IsFiniteSet(P)
      BY PortNumbers, <3>1
    <3> HIDE DEF P
    <3>3. sortedPorts(P) \in Seq(P)
      BY <3>2, SortedPortsIs
    <3>4. sortedPorts(P) \in Seq(Int)
      BY <3>2, <3>3, WiderSeq
    <3>5. ListPorts(sortedPorts(P)) \in PortSpec
      BY <3>4 DEF ListPorts, PortSpec
    <3>6. [r EXCEPT !.ports = ListPorts(sortedPorts(P))] \in Rule
      BY <3>5 DEF Rule
    <3> QED
      BY <3>6 DEF P
  <2>2. CASE r.container \notin k.run
    BY SMTT(30), <2>2
  <2> QED
    BY <2>1, <2>2
<1>8. RulesOf[k] = [rs EXCEPT !.rules = [i \in DOMAIN rs.rules |-> bind(rs.rules[i])]]
  <2>1. RulesOf = [j \in Configuration |-> Resolved(j.name, j.run)]
    BY TableIs DEF RulesOf
  <2>2. RulesOf[k] = Resolved(k.name, k.run)
    BY <2>1
  <2> QED
    BY <2>2 DEF Resolved
<1> HIDE DEF bind, rs
<1>9. rs.rules \in Seq(Rule)
  BY <1>2 DEF RuleSet
<1> DEFINE bound == [i \in DOMAIN rs.rules |-> bind(rs.rules[i])]
<1>10. bound \in Seq(Rule)
  <2>1. bound \in [DOMAIN rs.rules -> Rule]
    BY <1>7, <1>9
  <2> HIDE DEF bound
  <2> QED
    BY <1>9, <2>1, SameLength
<1> HIDE DEF bound
<1>11. /\ RulesOf[k].rules = bound /\ RulesOf[k].hostIP = rs.hostIP
       /\ RulesOf[k].v6drop = rs.v6drop
  BY <1>2, <1>8 DEF RuleSet, bound
<1>12. rs.hostIP # None => rs.hostIP \notin V6Address
  BY <1>1 DEF Validate
<1>13. Compilable(RulesOf[k])
  BY PortNumbers, <1>5, <1>10, <1>11, <1>12 DEF Compilable
<1> QED
  BY <1>6, <1>13

FamilyOf(c) == IF c \in V6Chains THEN 6 ELSE 4

\* The lines of a configuration, chain by chain.
LEMMA LinesFit ==
  ASSUME NEW k \in Configuration, NEW c \in Chains
  PROVE  /\ LinesOf[k][c] = Compiled(RulesOf[k], Inventory(k.run))[c]
         /\ Opens(LinesOf[k][c], FamilyOf(c))
         /\ LinesOf[k][c] \in Seq(LineOf(FamilyOf(c), Packet))
         /\ Len(LinesOf[k][c]) \in Nat \ {0}
         /\ DOMAIN LinesOf[k][c] = 1 .. Len(LinesOf[k][c])
         /\ \A n \in DOMAIN LinesOf[k][c] : ~Refused(c, LinesOf[k][c][n])
<1>1. LinesOf[k] = Table(Compiled(RulesOf[k], Inventory(k.run)))
  BY TableIs DEF LinesOf
<1>2. LinesOf[k] = Compiled(RulesOf[k], Inventory(k.run))
  BY <1>1, TableIs
<1> DEFINE s == LinesOf[k][c]
           v == FamilyOf(c)
<1>3. Opens(s, v)
  BY <1>2, ChainsFit, ConfigurationsCompile DEF FamilyOf
<1>4. v \in {4, 6} /\ (v = 6 <=> c \in V6Chains)
  BY DEF FamilyOf
<1> HIDE DEF s, v
<1>5. s \in Seq(LineOf(v, Packet)) /\ s # <<>>
  BY <1>3 DEF Opens
<1>6. Len(s) \in Nat \ {0} /\ DOMAIN s = 1 .. Len(s)
  BY <1>5
<1>7. ASSUME NEW n \in DOMAIN s PROVE ~Refused(c, s[n])
  <2>1. s[n] \in LineOf(v, Packet)
    BY <1>5
  <2>2. s[n].lit \subseteq {v} /\ s[n].n \in Int /\ s[n].n <= MaxMultiport
    BY <2>1 DEF LineOf, Size
  <2>3. ~(s[n].n > MaxMultiport)
    BY <2>2, MultiportAssumption
  <2> QED
    BY <1>4, <2>2, <2>3 DEF Refused
<1> QED
  BY <1>2, <1>3, <1>5, <1>6, <1>7 DEF s, v

-----------------------------------------------------------------------------
(* What the first lines of a chain decide *)

Decided == [left : SUBSET Packet, drop : SUBSET Packet, accept : SUBSET Packet]
Start(c) == [left |-> Walk[c], drop |-> {}, accept |-> {}]

LEMMA PassIs ==
  ASSUME NEW v, NEW state \in Decided, NEW line \in LineOf(v, Packet)
  PROVE  Pass(state, line) \in Decided
BY DEF Pass, Decided, LineOf

\* The recursive function of Sifted exists.
LEMMA SiftedIs ==
  ASSUME NEW c, NEW lines, Len(lines) \in Nat
  PROVE  \E f : /\ f = [i \in 0 .. Len(lines) |->
                          IF i = 0 THEN << Start(c) >>
                          ELSE Append(f[i - 1], Pass(f[i - 1][i], lines[i]))]
                /\ Sifted(c, lines) = f[Len(lines)]
<1> DEFINE Ok(f, n) == f = [i \in 0 .. n |-> IF i = 0 THEN << Start(c) >>
                                             ELSE Append(f[i - 1], Pass(f[i - 1][i], lines[i]))]
           S == {n \in Nat : \E f : Ok(f, n)}
<1>1. 0 \in S
  <2>1. Ok([i \in 0 .. 0 |-> << Start(c) >>], 0)
    OBVIOUS
  <2> QED
    BY <2>1
<1>2. ASSUME NEW n \in Nat, n \in S PROVE n + 1 \in S
  <2>1. PICK f : Ok(f, n)
    BY <1>2
  <2> DEFINE h == Append(f[n], Pass(f[n][n + 1], lines[n + 1]))
             g == [i \in 0 .. n + 1 |-> IF i = n + 1 THEN h ELSE f[i]]
  <2>2. ASSUME NEW i \in 0 .. n
        PROVE  f[i] = IF i = 0 THEN << Start(c) >> ELSE Append(f[i - 1], Pass(f[i - 1][i], lines[i]))
    BY <2>1
  <2>3. ASSUME NEW i \in 0 .. n + 1
        PROVE  g[i] = IF i = 0 THEN << Start(c) >> ELSE Append(g[i - 1], Pass(g[i - 1][i], lines[i]))
    <3>1. CASE i = n + 1
      <4>1. i # 0 /\ i - 1 \in 0 .. n + 1 /\ i - 1 = n /\ i - 1 # n + 1
        BY <3>1
      <4>2. g[i] = h /\ g[i - 1] = f[n]
        BY <3>1, <4>1
      <4> QED
        BY <3>1, <4>1, <4>2
    <3>2. CASE i # n + 1
      <4>1. i \in 0 .. n /\ g[i] = f[i]
        BY <3>2
      <4>2. i # 0 => i - 1 \in 0 .. n /\ i - 1 # n + 1 /\ g[i - 1] = f[i - 1]
        BY <4>1
      <4> QED
        BY <2>2, <4>1, <4>2
    <3> QED
      BY <3>1, <3>2
  <2>4. g = [i \in 0 .. n + 1 |-> g[i]]
    OBVIOUS
  <2> HIDE DEF g
  <2>5. Ok(g, n + 1)
    BY <2>3, <2>4
  <2> HIDE DEF Ok
  <2> QED
    BY <2>5
<1> HIDE DEF S
<1>3. Len(lines) \in S
  BY <1>1, <1>2, SetInduction
<1>4. PICK f : Ok(f, Len(lines))
  BY <1>3 DEF S
<1>5. Sifted(c, lines) =
        (CHOOSE g : g = [i \in 0 .. Len(lines) |-> IF i = 0 THEN << Start(c) >>
                           ELSE Append(g[i - 1], Pass(g[i - 1][i], lines[i]))])[Len(lines)]
  BY DEF Sifted, Start
<1> QED
  BY <1>4, <1>5

\* Line by line.
LEMMA SiftedSteps ==
  ASSUME NEW c \in Chains, NEW v, NEW lines \in Seq(LineOf(v, Packet))
  PROVE  /\ Sifted(c, lines) \in Seq(Decided)
         /\ Len(Sifted(c, lines)) = Len(lines) + 1
         /\ Sifted(c, lines)[1] = Start(c)
         /\ \A n \in 1 .. Len(lines) : Sifted(c, lines)[n + 1] = Pass(Sifted(c, lines)[n], lines[n])
<1>0. Len(lines) \in Nat /\ DOMAIN lines = 1 .. Len(lines)
  OBVIOUS
<1>1. PICK f : /\ f = [i \in 0 .. Len(lines) |->
                          IF i = 0 THEN << Start(c) >>
                          ELSE Append(f[i - 1], Pass(f[i - 1][i], lines[i]))]
               /\ Sifted(c, lines) = f[Len(lines)]
  BY <1>0, SiftedIs
<1> DEFINE Good(n) == /\ f[n] \in Seq(Decided)
                      /\ Len(f[n]) = n + 1
                      /\ f[n][1] = Start(c)
                      /\ \A m \in 1 .. n : f[n][m + 1] = Pass(f[n][m], lines[m])
           S == {n \in Nat : n <= Len(lines) => Good(n)}
<1>2. 0 \in S
  <2>1. f[0] = << Start(c) >>
    BY <1>0, <1>1
  <2>2. Start(c) \in Decided
    <3>1. Walk[c] \subseteq Packet
      BY DEF Walk
    <3> QED
      BY <3>1 DEF Start, Decided
  <2> DEFINE a == Start(c)
  <2> HIDE DEF a
  <2>3. << a >> \in Seq(Decided) /\ Len(<< a >>) = 0 + 1 /\ << a >>[1] = a
    BY <2>2 DEF a
  <2>4. f[0] \in Seq(Decided) /\ Len(f[0]) = 0 + 1 /\ f[0][1] = Start(c)
    BY <2>1, <2>3 DEF a
  <2> QED
    BY <2>4
<1>3. ASSUME NEW n \in Nat, n \in S PROVE n + 1 \in S
  <2> SUFFICES ASSUME n + 1 <= Len(lines) PROVE Good(n + 1)
    OBVIOUS
  <2> DEFINE t == f[n]
             x == Pass(t[n + 1], lines[n + 1])
  <2>1. t \in Seq(Decided) /\ Len(t) = n + 1 /\ t[1] = Start(c)
        /\ \A m \in 1 .. n : t[m + 1] = Pass(t[m], lines[m])
    BY <1>3
  <2>2. f[n + 1] = Append(t, x)
    <3>1. n + 1 \in 0 .. Len(lines) /\ n + 1 # 0 /\ (n + 1) - 1 = n
      BY <1>0
    <3> QED
      BY <1>1, <3>1
  <2>3. lines[n + 1] \in LineOf(v, Packet) /\ t[n + 1] \in Decided
    BY <1>0, <2>1
  <2>4. x \in Decided
    BY <2>3, PassIs
  <2> DEFINE u == Append(t, x)
  <2> HIDE DEF t
  <2>5. /\ u \in Seq(Decided) /\ Len(u) = n + 2
        /\ \A m \in 1 .. n + 1 : u[m] = t[m]
        /\ u[n + 2] = x
    <3> HIDE DEF x
    <3> QED
      BY <2>1, <2>4
  <2> HIDE DEF u
  <2>6. ASSUME NEW m \in 1 .. n + 1 PROVE u[m + 1] = Pass(u[m], lines[m])
    <3>1. CASE m = n + 1
      BY <2>5, <3>1
    <3>2. CASE m # n + 1
      <4>1. m \in 1 .. n /\ m + 1 \in 1 .. n + 1
        BY <3>2
      <4> QED
        BY <2>1, <2>5, <4>1
    <3> QED
      BY <3>1, <3>2
  <2>7. u[1] = Start(c) /\ n + 2 = (n + 1) + 1
    BY <2>1, <2>5
  <2>8. f[n + 1] = u
    BY <2>2 DEF u
  <2> QED
    BY <2>5, <2>6, <2>7, <2>8
<1> HIDE DEF S
<1>4. Len(lines) \in S
  BY <1>0, <1>2, <1>3, SetInduction
<1>5. Good(Len(lines))
  BY <1>0, <1>4 DEF S
<1> QED
  BY <1>1, <1>5

\* What a line does to the packets: nothing is decided twice.
LEMMA PassDecides ==
  ASSUME NEW v, NEW state \in Decided, NEW line \in LineOf(v, Packet)
  PROVE  LET next == Pass(state, line)
         IN  /\ next.left \subseteq state.left
             /\ state.drop \subseteq next.drop /\ state.accept \subseteq next.accept
             /\ next.drop \subseteq state.drop \cup (state.left \cap line.on)
             /\ next.accept \subseteq state.accept \cup (state.left \cap line.on)
             /\ next.drop # state.drop => line.to = "DROP"
             /\ next.accept # state.accept => line.to = "ACCEPT"
             /\ line.to \in {"ACCEPT", "RETURN"} => next.left \cap line.on = {}
             /\ next.left \cap ((next.drop \cup next.accept) \ (state.drop \cup state.accept)) = {}
<1>1. CASE line.to = "DROP"
  BY <1>1 DEF Pass, Decided, LineOf
<1>2. CASE line.to = "ACCEPT"
  BY <1>2 DEF Pass, Decided, LineOf
<1>3. CASE line.to = "RETURN"
  BY <1>3 DEF Pass, Decided, LineOf
<1>4. CASE line.to \notin {"DROP", "ACCEPT", "RETURN"}
  BY <1>4 DEF Pass, Decided, LineOf
<1> QED
  BY <1>1, <1>2, <1>3, <1>4

\* Packets that a line shelters are never dropped.
LEMMA SiftedShelters ==
  ASSUME NEW c \in Chains, NEW v, NEW lines \in Seq(LineOf(v, Packet)),
         NEW E, Shelters(lines, E), NEW n \in 0 .. Len(lines)
  PROVE  Sifted(c, lines)[n + 1].drop \cap E = {}
<1> DEFINE s == Sifted(c, lines)
<1>1. Len(lines) \in Nat /\ DOMAIN lines = 1 .. Len(lines)
  OBVIOUS
<1>2. /\ s \in Seq(Decided) /\ Len(s) = Len(lines) + 1 /\ s[1] = Start(c)
      /\ \A m \in 1 .. Len(lines) : s[m + 1] = Pass(s[m], lines[m])
  BY SiftedSteps
<1> HIDE DEF s
<1>3. PICK j \in DOMAIN lines : /\ E \subseteq lines[j].on /\ lines[j].to \in {"ACCEPT", "RETURN"}
                               /\ \A i \in DOMAIN lines : i < j => lines[i].to # "DROP"
  BY DEF Shelters
<1> DEFINE Good(m) == s[m + 1].drop \cap E = {} /\ (m >= j => s[m + 1].left \cap E = {})
           S == {m \in Nat : m <= Len(lines) => Good(m)}
<1>4. 0 \in S
  BY <1>1, <1>2 DEF Start
<1>5. ASSUME NEW m \in Nat, m \in S PROVE m + 1 \in S
  <2> SUFFICES ASSUME m + 1 <= Len(lines) PROVE Good(m + 1)
    OBVIOUS
  <2> DEFINE st == s[m + 1]
             line == lines[m + 1]
  <2>1. s[m + 2] = Pass(st, line) /\ m + 2 = (m + 1) + 1 /\ m + 1 \in DOMAIN lines
    <3>1. m + 1 \in 1 .. Len(lines) /\ (m + 1) + 1 = m + 2
      BY <1>1
    <3> QED
      BY <1>1, <1>2, <3>1
  <2>2. st \in Decided /\ line \in LineOf(v, Packet)
    BY <1>1, <1>2
  <2>3. st.drop \cap E = {} /\ (m >= j => st.left \cap E = {})
    BY <1>5
  <2>4. (m + 1 < j => line.to # "DROP")
        /\ (m + 1 = j => E \subseteq line.on /\ line.to \in {"ACCEPT", "RETURN"})
    BY <1>3, <2>1
  <2>5. m + 1 < j \/ m + 1 = j \/ m >= j
    BY <1>1
  <2> HIDE DEF st, line
  <2> DEFINE next == Pass(st, line)
  <2>6. /\ next.left \subseteq st.left
        /\ next.drop \subseteq st.drop \cup (st.left \cap line.on)
        /\ next.drop # st.drop => line.to = "DROP"
        /\ line.to \in {"ACCEPT", "RETURN"} => next.left \cap line.on = {}
    BY <2>2, PassDecides
  <2> HIDE DEF next
  <2>7. next.drop \cap E = {}
    BY <2>3, <2>4, <2>5, <2>6
  <2>8. m + 1 >= j => next.left \cap E = {}
    <3>1. m + 1 >= j => m + 1 = j \/ m >= j
      BY <1>1
    <3> QED
      BY <2>3, <2>4, <2>6, <3>1
  <2> QED
    BY <2>1, <2>7, <2>8 DEF next
<1> HIDE DEF S
<1>6. n \in S
  BY <1>4, <1>5, SetInduction
<1>7. Good(n)
  BY <1>1, <1>6 DEF S
<1> QED
  BY <1>7 DEF s

\* What the first lines drop and accept: disjoint packets that walk through
\* the chain and that a line of W decided.
LEMMA SiftedBounds ==
  ASSUME NEW c \in Chains, NEW v, NEW lines \in Seq(LineOf(v, Packet)), NEW W,
         DecidesOnly(lines, W), NEW n \in 0 .. Len(lines)
  PROVE  /\ Sifted(c, lines)[n + 1].drop \cap Sifted(c, lines)[n + 1].accept = {}
         /\ Sifted(c, lines)[n + 1].drop \cup Sifted(c, lines)[n + 1].accept \subseteq Walk[c] \cap W
<1> DEFINE s == Sifted(c, lines)
<1>1. Len(lines) \in Nat /\ DOMAIN lines = 1 .. Len(lines)
  OBVIOUS
<1>2. /\ s \in Seq(Decided) /\ Len(s) = Len(lines) + 1 /\ s[1] = Start(c)
      /\ \A m \in 1 .. Len(lines) : s[m + 1] = Pass(s[m], lines[m])
  BY SiftedSteps
<1> HIDE DEF s
<1> DEFINE Good(m) == /\ s[m + 1].drop \cap s[m + 1].accept = {}
                      /\ s[m + 1].left \cap (s[m + 1].drop \cup s[m + 1].accept) = {}
                      /\ s[m + 1].left \subseteq Walk[c]
                      /\ s[m + 1].drop \cup s[m + 1].accept \subseteq Walk[c] \cap W
           S == {m \in Nat : m <= Len(lines) => Good(m)}
<1>3. 0 \in S
  BY <1>1, <1>2 DEF Start
<1>4. ASSUME NEW m \in Nat, m \in S PROVE m + 1 \in S
  <2> SUFFICES ASSUME m + 1 <= Len(lines) PROVE Good(m + 1)
    OBVIOUS
  <2> DEFINE st == s[m + 1]
             line == lines[m + 1]
  <2>1. s[m + 2] = Pass(st, line) /\ m + 2 = (m + 1) + 1 /\ m + 1 \in DOMAIN lines
    <3>1. m + 1 \in 1 .. Len(lines) /\ (m + 1) + 1 = m + 2
      BY <1>1
    <3> QED
      BY <1>1, <1>2, <3>1
  <2>2. st \in Decided /\ line \in LineOf(v, Packet)
    BY <1>1, <1>2
  <2>3. /\ st.drop \cap st.accept = {}
        /\ st.left \cap (st.drop \cup st.accept) = {}
        /\ st.left \subseteq Walk[c]
        /\ st.drop \cup st.accept \subseteq Walk[c] \cap W
    BY <1>4
  <2>4. line.to \in {"DROP", "ACCEPT"} => line.on \subseteq W
    BY <2>1 DEF DecidesOnly
  <2> HIDE DEF st, line
  <2> DEFINE next == Pass(st, line)
  <2>5. /\ next.left \subseteq st.left
        /\ next.drop \subseteq st.drop \cup (st.left \cap line.on)
        /\ next.accept \subseteq st.accept \cup (st.left \cap line.on)
        /\ next.drop # st.drop => line.to = "DROP"
        /\ next.accept # st.accept => line.to = "ACCEPT"
        /\ next.left \cap ((next.drop \cup next.accept) \ (st.drop \cup st.accept)) = {}
    BY <2>2, PassDecides
  <2> HIDE DEF next
  <2>6. next.drop = st.drop \/ next.accept = st.accept
    BY <2>5
  <2>7. next.drop \cap next.accept = {} /\ next.left \subseteq Walk[c]
    BY <2>3, <2>5, <2>6
  <2>8. next.left \cap (next.drop \cup next.accept) = {}
    BY <2>3, <2>5
  <2>9. next.drop \cup next.accept \subseteq Walk[c] \cap W
    BY <2>3, <2>4, <2>5
  <2> QED
    BY <2>1, <2>7, <2>8, <2>9 DEF next
<1> HIDE DEF S
<1>5. n \in S
  BY <1>3, <1>4, SetInduction
<1>6. Good(n)
  BY <1>1, <1>5 DEF S
<1> QED
  BY <1>6 DEF s

\* Another line takes nothing back: the first lines drop no more than all.
LEMMA SiftedGrows ==
  ASSUME NEW c \in Chains, NEW v, NEW lines \in Seq(LineOf(v, Packet)), NEW n \in 0 .. Len(lines)
  PROVE  Sifted(c, lines)[n + 1].drop \subseteq Sifted(c, lines)[Len(lines) + 1].drop
<1> DEFINE s == Sifted(c, lines)
<1>1. Len(lines) \in Nat /\ DOMAIN lines = 1 .. Len(lines)
  OBVIOUS
<1>2. /\ s \in Seq(Decided) /\ Len(s) = Len(lines) + 1
      /\ \A m \in 1 .. Len(lines) : s[m + 1] = Pass(s[m], lines[m])
  BY SiftedSteps
<1> HIDE DEF s
<1> DEFINE S == {d \in Nat : n + d <= Len(lines) => s[n + 1].drop \subseteq s[n + d + 1].drop}
<1>3. 0 \in S
  BY <1>1
<1>4. ASSUME NEW d \in Nat, d \in S PROVE d + 1 \in S
  <2> SUFFICES ASSUME n + (d + 1) <= Len(lines) PROVE s[n + 1].drop \subseteq s[n + (d + 1) + 1].drop
    OBVIOUS
  <2> DEFINE m == n + d + 1
  <2>1. m \in 1 .. Len(lines) /\ n + (d + 1) + 1 = m + 1 /\ n + d <= Len(lines)
    BY <1>1
  <2>2. s[n + 1].drop \subseteq s[m].drop
    BY <1>4, <2>1
  <2> HIDE DEF m
  <2>3. s[m + 1] = Pass(s[m], lines[m]) /\ s[m] \in Decided /\ lines[m] \in LineOf(v, Packet)
    BY <1>1, <1>2, <2>1
  <2>4. s[m].drop \subseteq s[m + 1].drop
    BY <2>3, PassDecides
  <2> QED
    BY <2>1, <2>2, <2>4
<1> HIDE DEF S
<1>5. Len(lines) - n \in Nat /\ n + (Len(lines) - n) = Len(lines)
  BY <1>1
<1>6. Len(lines) - n \in S
  BY <1>3, <1>4, <1>5, SetInduction
<1> QED
  BY <1>1, <1>5, <1>6 DEF s, S

-----------------------------------------------------------------------------
(* Which chain decides about a packet *)

Established == InState({"established"}).on

\* The packets that only chain c may drop.
Own(c) == {p \in Walk[c] : /\ c = "ZFW-FWD-OUT" => p \in Leaving
                           /\ c = "DOCKER-USER" => p \notin OnIface({"docker"}).on}

LEMMA OwnApart ==
  ASSUME NEW c \in Chains, NEW d \in Chains, NEW p, p \in Own(c), p \in Own(d)
  PROVE  c = d
<1>1. p \in Packet /\ p \in Walk[c] /\ p \in Walk[d]
  BY DEF Own, Walk
<1>2. p.flow \in Flows
  BY <1>1 DEF Packet
<1>3. p.flow = "egress" => p \in OnIface({"docker"}).on
  BY <1>1 DEF OnIface, Match, Iif
<1>4. p \in Leaving => p.flow \notin {"in", "fwd"}
  BY DEF Leaving, FromPeer
<1>5. ASSUME NEW x \in {c, d}
      PROVE  /\ (Fam(p) = 6) = (x \in V6Chains)
             /\ p.flow = "in" => x \in {"ZFW-IN", "ZFW-IN6"}
             /\ p.flow = "out" => x \in {"ZFW-OUT", "ZFW-OUT6"}
             /\ p.flow \notin {"in", "out"} => x \in {"ZFW-FWD-OUT", "DOCKER-USER", "DOCKER-USER6"}
  BY <1>1, <1>5 DEF Walk
<1>6. (c = "ZFW-FWD-OUT" \/ d = "ZFW-FWD-OUT") => p.flow \notin {"in", "fwd"}
  BY <1>4 DEF Own
<1>7. (c = "DOCKER-USER" \/ d = "DOCKER-USER") => p.flow # "egress"
  BY <1>3 DEF Own
<1>8. "ZFW-IN" \notin V6Chains /\ "DOCKER-USER" \notin V6Chains /\ "ZFW-OUT" \notin V6Chains
      /\ "ZFW-FWD-OUT" \notin V6Chains /\ "ZFW-IN6" \in V6Chains /\ "DOCKER-USER6" \in V6Chains
      /\ "ZFW-OUT6" \in V6Chains
  BY DEF V6Chains
<1>9. CASE p.flow = "in"
  BY <1>5, <1>8, <1>9
<1>10. CASE p.flow = "out"
  BY <1>5, <1>8, <1>10
<1>11. CASE p.flow \in {"fwd", "egress"}
  <2>1. CASE Fam(p) = 6
    BY <1>5, <1>8, <1>11, <2>1
  <2>2. CASE Fam(p) # 6
    BY <1>5, <1>6, <1>7, <1>8, <1>11, <2>2
  <2> QED
    BY <2>1, <2>2
<1> QED
  BY <1>2, <1>9, <1>10, <1>11 DEF Flows

LEMMA EffectsAre ==
  ASSUME NEW k \in Configuration, NEW c \in Chains
  PROVE  Effects[k][c] = Sifted(c, LinesOf[k][c])
<1>1. Effects = [j \in Configuration |-> Table([d \in Chains |-> Sifted(d, LinesOf[j][d])])]
  BY TableIs DEF Effects
<1>2. Effects[k] = Table([d \in Chains |-> Sifted(d, LinesOf[k][d])])
  BY <1>1
<1>3. Effects[k] = [d \in Chains |-> Sifted(d, LinesOf[k][d])]
  BY <1>2, TableIs
<1> QED
  BY <1>3

\* What the first n lines of a chain of a configuration do.
LEMMA ChainsDecide ==
  ASSUME NEW k \in Configuration, NEW c \in Chains, NEW n \in 0 .. Len(LinesOf[k][c])
  PROVE  /\ Effects[k][c][n + 1].drop \cap Established = {}
         /\ Effects[k][c][n + 1].drop \subseteq Packet
         /\ Effects[k][c][n + 1].drop \subseteq Effects[k][c][Len(LinesOf[k][c]) + 1].drop
         /\ Effects[k][c][n + 1].drop \cap Effects[k][c][n + 1].accept = {}
         /\ NamesPeers(RulesOf[k]) =>
              /\ Effects[k][c][n + 1].drop \subseteq Own(c)
              /\ c = "ZFW-FWD-OUT" => Effects[k][c][n + 1].accept \subseteq Own(c)
<1> DEFINE lines == LinesOf[k][c]
           v == FamilyOf(c)
           e == Effects[k][c][n + 1]
<1>1. /\ lines = Compiled(RulesOf[k], Inventory(k.run))[c]
      /\ Opens(lines, v) /\ lines \in Seq(LineOf(v, Packet))
  BY LinesFit
<1>2. Compilable(RulesOf[k]) /\ Inventory(k.run) \in Inventories
  BY ConfigurationsCompile
<1>3. Effects[k][c] = Sifted(c, lines)
  BY EffectsAre
<1> HIDE DEF lines, v
<1>4. n \in 0 .. Len(lines)
  BY DEF lines
<1>5. e.drop \cap Established = {}
  <2>1. Shelters(lines, InState({"established"}).on)
    BY <1>1, OpensShelters
  <2> QED
    BY <1>1, <1>3, <1>4, <2>1, SiftedShelters DEF Established
<1>6. e.drop \subseteq Sifted(c, lines)[Len(lines) + 1].drop
  BY <1>1, <1>3, <1>4, SiftedGrows
<1>7. e.drop \cap e.accept = {} /\ e.drop \cup e.accept \subseteq Walk[c]
  <2>1. DecidesOnly(lines, Packet)
    <3>1. \A i \in DOMAIN lines : lines[i] \in LineOf(v, Packet)
      BY <1>1
    <3> QED
      BY <3>1 DEF LineOf, DecidesOnly
  <2> QED
    BY <1>1, <1>3, <1>4, <2>1, SiftedBounds
<1>8. ASSUME NamesPeers(RulesOf[k])
      PROVE  e.drop \subseteq Own(c) /\ (c = "ZFW-FWD-OUT" => e.accept \subseteq Own(c))
  <2>1. CASE c = "ZFW-FWD-OUT"
    <3>1. lines = outChain(RulesOf[k], "docker", "RETURN", v4Lines)
      BY <1>1, <2>1 DEF Compiled
    <3>2. DecidesOnly(lines, Leaving)
      BY <1>2, <1>8, <3>1, FwdOutLeaves
    <3>3. e.drop \cup e.accept \subseteq Walk[c] \cap Leaving
      BY <1>1, <1>3, <1>4, <3>2, SiftedBounds
    <3> QED
      BY <2>1, <3>3 DEF Own
  <2>2. CASE c = "DOCKER-USER"
    <3>1. lines = dockerUserRules(RulesOf[k], Inventory(k.run))
      BY <1>1, <2>2 DEF Compiled
    <3>2. Shelters(lines, OnIface({"docker"}).on)
      BY <1>2, <3>1, DockerUserShelters
    <3>3. e.drop \cap OnIface({"docker"}).on = {}
      BY <1>1, <1>3, <1>4, <3>2, SiftedShelters
    <3> QED
      BY <1>7, <2>2, <3>3 DEF Own
  <2>3. CASE c \notin {"ZFW-FWD-OUT", "DOCKER-USER"}
    BY <1>7, <2>3 DEF Own
  <2> QED
    BY <2>1, <2>2, <2>3
<1>9. Walk[c] \subseteq Packet
  BY DEF Walk
<1> QED
  BY <1>3, <1>5, <1>6, <1>7, <1>8, <1>9 DEF lines

-----------------------------------------------------------------------------
(* The scripts *)

LEMMA ChainsOfIs ==
  ASSUME NEW k \in Configuration
  PROVE  ChainsOf[k] \subseteq Chains /\ DockerChains \subseteq ChainsOf[k] /\ DockerChains \subseteq Chains
<1>1. ChainsOf = [j \in Configuration |-> Emitted(RulesOf[j])]
  BY TableIs DEF ChainsOf
<1>2. ChainsOf[k] = Emitted(RulesOf[k])
  BY <1>1
<1> QED
  BY <1>2 DEF Emitted, Chains, DockerChains

\* What a command does to chain c: it writes it, or it gives it its last form.
Writes(k, o, c) ==
  \/ o.op \in {"flush", "append"} /\ o.chain = c
  \/ o.op = "swap" /\ c \in TableOf(o.n) \cap ChainsOf[k]

Finishes(k, o, c) ==
  \/ o.op = "append" /\ o.chain = c /\ c \in ChainsOf[k] /\ o.n = Len(LinesOf[k][c])
  \/ o.op = "swap" /\ c \in TableOf(o.n) \cap ChainsOf[k]
  \/ o.op = "flush" /\ o.chain = c /\ c \notin ChainsOf[k]

\* The commands of the two scripts of a configuration.
RestoreCommand(k) ==
  [op : {"swap"}, chain : {"none"}, n : {4, 6}]
  \cup [op : {"hook"}, chain : ChainsOf[k], n : {0}]
  \cup [op : {"unhook", "flush"}, chain : Chains \ ChainsOf[k], n : {0}]
BashCommand(k) ==
  RestoreCommand(k)
  \cup [op : {"flush"}, chain : Chains, n : {0}]
  \cup {o \in [op : {"append"}, chain : ChainsOf[k], n : Nat] : o.n \in DOMAIN LinesOf[k][o.chain]}

\* Commands of C that leave no chain half-written; one that finishes c; one
\* that hooks or unhooks c.
Closed(k, C, piece) ==
  /\ piece \in Seq(C)
  /\ \A i \in DOMAIN piece, c \in Chains : Writes(k, piece[i], c) =>
       \E j \in DOMAIN piece : i <= j /\ Finishes(k, piece[j], c)
Completes(k, piece, c) == \E j \in DOMAIN piece : Finishes(k, piece[j], c)
Settles(piece, c) == \E j \in DOMAIN piece : piece[j].op \in {"hook", "unhook"} /\ piece[j].chain = c

LEMMA ClosedJoin ==
  ASSUME NEW k, NEW C, NEW a, NEW b, Closed(k, C, a), Closed(k, C, b)
  PROVE  /\ Closed(k, C, a \o b)
         /\ \A c : Completes(k, a, c) \/ Completes(k, b, c) => Completes(k, a \o b, c)
         /\ \A c : Settles(a, c) \/ Settles(b, c) => Settles(a \o b, c)
<1>1. a \in Seq(C) /\ b \in Seq(C)
  BY DEF Closed
<1> DEFINE s == a \o b
<1>2. s \in Seq(C) /\ Len(a) \in Nat
  BY <1>1
<1>3. /\ \A i \in DOMAIN a : i \in DOMAIN s /\ s[i] = a[i]
      /\ \A i \in DOMAIN b : Len(a) + i \in DOMAIN s /\ s[Len(a) + i] = b[i]
      /\ \A i \in DOMAIN s : i \in DOMAIN a \/ (i - Len(a) \in DOMAIN b /\ Len(a) + (i - Len(a)) = i)
      /\ \A i \in DOMAIN s : i \in Int
      /\ \A i \in DOMAIN b : i \in Int
  BY <1>1
<1> HIDE DEF s
<1>4. ASSUME NEW i \in DOMAIN s, NEW c \in Chains, Writes(k, s[i], c)
      PROVE  \E j \in DOMAIN s : i <= j /\ Finishes(k, s[j], c)
  <2>1. CASE i \in DOMAIN a
    <3>1. PICK j \in DOMAIN a : i <= j /\ Finishes(k, a[j], c)
      BY <1>3, <1>4, <2>1 DEF Closed
    <3> QED
      BY <1>3, <3>1
  <2>2. CASE i \notin DOMAIN a
    <3> DEFINE m == i - Len(a)
    <3>1. m \in DOMAIN b /\ Len(a) + m = i
      BY <1>3, <2>2
    <3> HIDE DEF m
    <3>2. s[i] = b[m]
      BY <1>3, <3>1
    <3>3. PICK j \in DOMAIN b : m <= j /\ Finishes(k, b[j], c)
      BY <1>4, <3>1, <3>2 DEF Closed
    <3>4. i <= Len(a) + j
      BY <1>2, <1>3, <3>1, <3>3
    <3> QED
      BY <1>3, <3>3, <3>4
  <2> QED
    BY <2>1, <2>2
<1>5. Closed(k, C, s)
  BY <1>2, <1>4 DEF Closed
<1>6. ASSUME NEW c, Completes(k, a, c) \/ Completes(k, b, c) PROVE Completes(k, s, c)
  BY <1>3, <1>6 DEF Completes
<1>7. ASSUME NEW c, Settles(a, c) \/ Settles(b, c) PROVE Settles(s, c)
  BY <1>3, <1>7 DEF Settles
<1> QED
  BY <1>5, <1>6, <1>7 DEF s

\* The same for the pieces of a concatenation.
LEMMA ClosedConcat ==
  ASSUME NEW k, NEW C, NEW ss, NEW n \in Nat, DOMAIN ss = 1 .. n, Len(ss) = n,
         ss = [i \in 1 .. n |-> ss[i]],
         \A i \in 1 .. n : Closed(k, C, ss[i])
  PROVE  /\ Closed(k, C, Concat(ss))
         /\ \A c : (\E i \in 1 .. n : Completes(k, ss[i], c)) => Completes(k, Concat(ss), c)
         /\ \A c : (\E i \in 1 .. n : Settles(ss[i], c)) => Settles(Concat(ss), c)
<1> DEFINE s == Concat(ss)
<1>1. ss \in Seq(Seq(C))
  <2>1. \A i \in 1 .. n : ss[i] \in Seq(C)
    BY DEF Closed
  <2>2. ss \in [1 .. n -> Seq(C)]
    BY <2>1
  <2> QED
    BY <2>2, AsSequence
<1>2. s \in Seq(C) /\ MadeOf(s, ss, n)
  BY <1>1, ConcatSeq
<1> HIDE DEF s
<1>3. /\ \A i \in DOMAIN s : i \in Int
      /\ \A j \in 1 .. n : \A m \in DOMAIN ss[j] : m \in Int
  BY <1>1, <1>2
<1>4. ASSUME NEW i \in DOMAIN s, NEW c \in Chains, Writes(k, s[i], c)
      PROVE  \E m \in DOMAIN s : i <= m /\ Finishes(k, s[m], c)
  <2>1. PICK j \in 1 .. n, from \in Nat : i - from \in DOMAIN ss[j] /\ At(s, ss[j], from)
    BY <1>2 DEF MadeOf
  <2> DEFINE d == i - from
  <2>2. d \in DOMAIN ss[j] /\ from + d = i /\ d \in Int
    BY <1>3, <2>1
  <2> HIDE DEF d
  <2>3. s[i] = ss[j][d]
    BY <2>1, <2>2 DEF At
  <2>4. PICK m \in DOMAIN ss[j] : d <= m /\ Finishes(k, ss[j][m], c)
    BY <1>4, <2>2, <2>3 DEF Closed
  <2>5. from + m \in DOMAIN s /\ s[from + m] = ss[j][m]
    BY <2>1 DEF At
  <2>6. i <= from + m
    BY <1>3, <2>2, <2>4
  <2> QED
    BY <2>4, <2>5, <2>6
<1>5. Closed(k, C, s)
  BY <1>2, <1>4 DEF Closed
<1>6. ASSUME NEW c, NEW i \in 1 .. n, Completes(k, ss[i], c) PROVE Completes(k, s, c)
  <2>1. PICK from \in Nat : At(s, ss[i], from)
    BY <1>2 DEF MadeOf
  <2> QED
    BY <1>6, <2>1 DEF At, Completes
<1>7. ASSUME NEW c, NEW i \in 1 .. n, Settles(ss[i], c) PROVE Settles(s, c)
  <2>1. PICK from \in Nat : At(s, ss[i], from)
    BY <1>2 DEF MadeOf
  <2> QED
    BY <1>7, <2>1 DEF At, Settles
<1> QED
  BY <1>5, <1>6, <1>7 DEF s

\* The chains that a script builds and those it tears down.
Chosen(T) == Concat([i \in DOMAIN BuildOrder |-> IF BuildOrder[i] \in T THEN << BuildOrder[i] >> ELSE <<>>])

LEMMA ChosenIs ==
  ASSUME NEW T \in SUBSET Chains
  PROVE  Chosen(T) \in Seq(T) /\ \A c \in T : \E i \in DOMAIN Chosen(T) : Chosen(T)[i] = c
<1> DEFINE f == [i \in DOMAIN BuildOrder |-> IF BuildOrder[i] \in T THEN << BuildOrder[i] >> ELSE <<>>]
<1>1. DOMAIN BuildOrder = 1 .. 7
  BY DEF BuildOrder
<1>2. f \in [1 .. 7 -> Seq(T)]
  <2>1. \A x \in T : << x >> \in Seq(T)
    OBVIOUS
  <2>2. <<>> \in Seq(T)
    OBVIOUS
  <2> QED
    BY <1>1, <2>1, <2>2
<1>3. f \in Seq(Seq(T)) /\ Len(f) = 7
  <2> HIDE DEF f
  <2> QED
    BY <1>2, AsSequence
<1>4. \A i \in 1 .. 7 : BuildOrder[i] \in T => f[i] = << BuildOrder[i] >>
  BY <1>1
<1>5. Chosen(T) = Concat(f)
  BY DEF Chosen
<1> HIDE DEF f
<1>6. Concat(f) \in Seq(T) /\ MadeOf(Concat(f), f, 7)
  BY <1>3, ConcatSeq
<1>7. ASSUME NEW c \in T PROVE \E i \in DOMAIN Concat(f) : Concat(f)[i] = c
  <2>1. PICK i \in 1 .. 7 : BuildOrder[i] = c
    BY DEF BuildOrder, Chains
  <2>2. PICK from \in Nat : At(Concat(f), f[i], from)
    BY <1>6 DEF MadeOf
  <2>3. f[i] = << c >> /\ 1 \in DOMAIN << c >> /\ << c >>[1] = c
    BY <1>4, <2>1
  <2> QED
    BY <2>2, <2>3 DEF At
<1> QED
  BY <1>5, <1>6, <1>7

LEMMA HookIs ==
  ASSUME NEW k \in Configuration, NEW C, RestoreCommand(k) \subseteq C, NEW c \in ChainsOf[k]
  PROVE  Closed(k, C, hookOp(c)) /\ (c \notin DockerChains => Settles(hookOp(c), c))
<1>1. CASE c \in DockerChains
  BY <1>1 DEF hookOp, Closed
<1>2. CASE c \notin DockerChains
  <2> DEFINE o == Op("hook", c, 0)
  <2>1. o \in C /\ o.op = "hook" /\ o.chain = c
    BY DEF Op, RestoreCommand
  <2>2. hookOp(c) = << o >>
    BY <1>2 DEF hookOp
  <2> HIDE DEF o
  <2>3. << o >> \in Seq(C) /\ DOMAIN << o >> = {1} /\ << o >>[1] = o
    BY <2>1
  <2>4. \A d : ~Writes(k, o, d)
    BY <2>1 DEF Writes
  <2> QED
    BY <2>1, <2>2, <2>3, <2>4 DEF Closed, Settles
<1> QED
  BY <1>1, <1>2

LEMMA TearIs ==
  ASSUME NEW k \in Configuration, NEW C, RestoreCommand(k) \subseteq C, NEW c \in Chains \ ChainsOf[k]
  PROVE  LET piece == <<Op("unhook", c, 0), Op("flush", c, 0)>>
         IN  Closed(k, C, piece) /\ Completes(k, piece, c) /\ Settles(piece, c)
<1> DEFINE a == Op("unhook", c, 0)
           b == Op("flush", c, 0)
           piece == <<a, b>>
<1>1. a \in C /\ b \in C /\ a.op = "unhook" /\ a.chain = c /\ b.op = "flush" /\ b.chain = c
  BY DEF Op, RestoreCommand
<1> HIDE DEF a, b
<1>2. piece \in Seq(C) /\ DOMAIN piece = {1, 2} /\ piece[1] = a /\ piece[2] = b
  BY <1>1
<1> HIDE DEF piece
<1>3. \A d : ~Writes(k, a, d)
  BY <1>1 DEF Writes
<1>4. \A d : Writes(k, b, d) => Finishes(k, b, d)
  BY <1>1 DEF Writes, Finishes
<1>5. Finishes(k, b, c)
  BY <1>1 DEF Finishes
<1>6. Closed(k, C, piece)
  BY <1>2, <1>3, <1>4 DEF Closed
<1>7. Completes(k, piece, c) /\ Settles(piece, c)
  BY <1>1, <1>2, <1>5 DEF Completes, Settles
<1> QED
  BY <1>6, <1>7 DEF piece, a, b

LEMMA FillIs ==
  ASSUME NEW k \in Configuration, NEW c \in ChainsOf[k]
  PROVE  LET piece == << Op("flush", c, 0) >> \o [n \in DOMAIN LinesOf[k][c] |-> Op("append", c, n)]
         IN  Closed(k, BashCommand(k), piece) /\ Completes(k, piece, c)
<1> DEFINE C == BashCommand(k)
           N == Len(LinesOf[k][c])
           a == Op("flush", c, 0)
           b == [n \in DOMAIN LinesOf[k][c] |-> Op("append", c, n)]
           piece == << a >> \o b
<1>1. c \in Chains
  BY ChainsOfIs
<1>2. N \in Nat \ {0} /\ DOMAIN LinesOf[k][c] = 1 .. N
  BY <1>1, LinesFit
<1>3. a \in C /\ a.op = "flush" /\ a.chain = c
  BY <1>1 DEF Op, BashCommand
<1>4. \A n \in 1 .. N : b[n].op = "append" /\ b[n].chain = c /\ b[n].n = n /\ b[n] \in C
  BY <1>2 DEF Op, BashCommand
<1>5. b \in [1 .. N -> C]
  <2>1. b = [n \in 1 .. N |-> b[n]]
    BY <1>2
  <2> HIDE DEF b
  <2> QED
    BY <1>4, <2>1
<1> HIDE DEF a, b, N, C
<1>6. b \in Seq(C) /\ Len(b) = N
  BY <1>2, <1>5, AsSequence
<1>7. << a >> \in Seq(C)
  BY <1>3
<1>8. piece \in Seq(C) /\ Len(piece) = N + 1 /\ piece[1] = a
      /\ \A i \in 2 .. N + 1 : piece[i] = b[i - 1]
  BY <1>2, <1>6, <1>7
<1> HIDE DEF piece
<1>9. N + 1 \in DOMAIN piece /\ piece[N + 1] = b[N] /\ \A i \in DOMAIN piece : i <= N + 1
  <2>1. N + 1 \in 2 .. N + 1 /\ (N + 1) - 1 = N
    BY <1>2
  <2>2. DOMAIN piece = 1 .. N + 1
    BY <1>8
  <2> QED
    BY <1>8, <2>1, <2>2
<1>10. Finishes(k, piece[N + 1], c)
  <2>1. N \in 1 .. N
    BY <1>2
  <2> QED
    BY <1>4, <1>9, <2>1 DEF Finishes, N
<1>11. ASSUME NEW i \in DOMAIN piece, NEW d, Writes(k, piece[i], d) PROVE d = c
  <2>1. piece[i].op \in {"flush", "append"} /\ piece[i].chain = c
    <3>1. CASE i = 1
      BY <1>3, <1>8, <3>1
    <3>2. CASE i # 1
      <4>1. i \in 2 .. N + 1 /\ i - 1 \in 1 .. N
        BY <1>2, <1>8, <3>2
      <4> QED
        BY <1>4, <1>8, <4>1
    <3> QED
      BY <3>1, <3>2
  <2> QED
    BY <1>11, <2>1 DEF Writes
<1>12. Closed(k, C, piece)
  BY <1>8, <1>9, <1>10, <1>11 DEF Closed
<1>13. Completes(k, piece, c)
  BY <1>9, <1>10 DEF Completes
<1> QED
  BY <1>12, <1>13 DEF piece, a, b, C

LEMMA TornDownIs ==
  ASSUME NEW k \in Configuration, NEW C, RestoreCommand(k) \subseteq C
  PROVE  /\ Closed(k, C, TornDown(k))
         /\ \A c \in Chains \ ChainsOf[k] : Completes(k, TornDown(k), c) /\ Settles(TornDown(k), c)
<1> DEFINE T == Chains \ ChainsOf[k]
           gone == Chosen(T)
           piece(c) == <<Op("unhook", c, 0), Op("flush", c, 0)>>
           ss == [i \in DOMAIN gone |-> piece(gone[i])]
           n == Len(gone)
<1>1. TornDown(k) = Concat(ss)
  <2>1. only(BuildOrder, LAMBDA c : c \notin ChainsOf[k]) = gone
    <3>1. \A i \in DOMAIN BuildOrder : BuildOrder[i] \in Chains
      BY DEF BuildOrder, Chains
    <3>2. [i \in DOMAIN BuildOrder |-> IF BuildOrder[i] \notin ChainsOf[k] THEN << BuildOrder[i] >> ELSE <<>>]
          = [i \in DOMAIN BuildOrder |-> IF BuildOrder[i] \in T THEN << BuildOrder[i] >> ELSE <<>>]
      BY <3>1
    <3> QED
      BY <3>2 DEF only, Chosen
  <2> QED
    BY <2>1 DEF TornDown
<1>2. gone \in Seq(T) /\ \A c \in T : \E i \in DOMAIN gone : gone[i] = c
  BY ChosenIs
<1> HIDE DEF gone
<1>3. n \in Nat /\ DOMAIN gone = 1 .. n /\ \A i \in 1 .. n : gone[i] \in T
  BY <1>2
<1>4. ASSUME NEW c \in T PROVE Closed(k, C, piece(c)) /\ Completes(k, piece(c), c) /\ Settles(piece(c), c)
  BY TearIs
<1> HIDE DEF piece
<1>5. DOMAIN ss = 1 .. n /\ ss \in [1 .. n -> {piece(c) : c \in T}] /\ \A i \in 1 .. n : ss[i] = piece(gone[i])
  BY <1>3
<1> HIDE DEF ss, T, n
<1>6. Len(ss) = n /\ ss = [i \in 1 .. n |-> ss[i]]
  BY <1>3, <1>5, AsSequence
<1>7. \A i \in 1 .. n : Closed(k, C, ss[i])
  BY <1>3, <1>4, <1>5
<1>8. /\ Closed(k, C, Concat(ss))
      /\ \A c : (\E i \in 1 .. n : Completes(k, ss[i], c)) => Completes(k, Concat(ss), c)
      /\ \A c : (\E i \in 1 .. n : Settles(ss[i], c)) => Settles(Concat(ss), c)
  BY <1>3, <1>5, <1>6, <1>7, ClosedConcat
<1>9. ASSUME NEW c \in T PROVE Completes(k, Concat(ss), c) /\ Settles(Concat(ss), c)
  <2>1. PICK i \in 1 .. n : gone[i] = c
    BY <1>2, <1>3
  <2> QED
    BY <1>4, <1>5, <1>8, <2>1
<1> QED
  BY <1>1, <1>8, <1>9 DEF T

LEMMA BuiltIs ==
  ASSUME NEW k \in Configuration
  PROVE  only(BuildOrder, LAMBDA c : c \in ChainsOf[k]) = Chosen(ChainsOf[k])
BY DEF only, Chosen

\* The bash script finishes every chain and hooks or unhooks those of zfw.
LEMMA BashIs ==
  ASSUME NEW k \in Configuration
  PROVE  /\ Closed(k, BashCommand(k), BashProgram(k))
         /\ \A c \in Chains : Completes(k, BashProgram(k), c)
         /\ \A c \in Chains \ DockerChains : Settles(BashProgram(k), c)
<1> DEFINE T == ChainsOf[k]
           C == BashCommand(k)
           built == Chosen(T)
           body(c) == << Op("flush", c, 0) >> \o [n \in DOMAIN LinesOf[k][c] |-> Op("append", c, n)]
           fill(c) == body(c) \o hookOp(c)
           ss == [i \in DOMAIN built |-> fill(built[i])]
           n == Len(built)
<1>1. BashProgram(k) = Concat(ss) \o TornDown(k)
  BY Zenon, BuiltIs DEF BashProgram
<1>2. T \subseteq Chains
  BY ChainsOfIs
<1>3. built \in Seq(T) /\ \A c \in T : \E i \in DOMAIN built : built[i] = c
  BY <1>2, ChosenIs
<1> HIDE DEF built
<1>4. n \in Nat /\ DOMAIN built = 1 .. n /\ \A i \in 1 .. n : built[i] \in T
  BY <1>3
<1>5. RestoreCommand(k) \subseteq C
  BY DEF BashCommand
<1>6. ASSUME NEW c \in T
      PROVE  /\ Closed(k, C, fill(c)) /\ Completes(k, fill(c), c)
             /\ c \notin DockerChains => Settles(fill(c), c)
  <2>1. Closed(k, C, body(c)) /\ Completes(k, body(c), c)
    BY FillIs
  <2>2. Closed(k, C, hookOp(c)) /\ (c \notin DockerChains => Settles(hookOp(c), c))
    BY <1>5, HookIs
  <2> HIDE DEF body, C
  <2> QED
    BY <2>1, <2>2, ClosedJoin
<1> HIDE DEF fill
<1>7. DOMAIN ss = 1 .. n /\ ss \in [1 .. n -> {fill(c) : c \in T}] /\ \A i \in 1 .. n : ss[i] = fill(built[i])
  BY <1>4
<1> HIDE DEF ss, T, n, C
<1>8. Len(ss) = n /\ ss = [i \in 1 .. n |-> ss[i]]
  BY <1>4, <1>7, AsSequence
<1>9. \A i \in 1 .. n : Closed(k, C, ss[i])
  BY <1>4, <1>6, <1>7
<1>10. /\ Closed(k, C, Concat(ss))
       /\ \A c : (\E i \in 1 .. n : Completes(k, ss[i], c)) => Completes(k, Concat(ss), c)
       /\ \A c : (\E i \in 1 .. n : Settles(ss[i], c)) => Settles(Concat(ss), c)
  BY <1>4, <1>7, <1>8, <1>9, ClosedConcat
<1>11. ASSUME NEW c \in T
       PROVE  Completes(k, Concat(ss), c) /\ (c \notin DockerChains => Settles(Concat(ss), c))
  <2>1. PICK i \in 1 .. n : built[i] = c
    BY <1>3, <1>4
  <2> QED
    BY <1>6, <1>7, <1>10, <2>1
<1>12. /\ Closed(k, C, TornDown(k))
       /\ \A c \in Chains \ T : Completes(k, TornDown(k), c) /\ Settles(TornDown(k), c)
  BY <1>5, TornDownIs DEF T
<1>13. /\ Closed(k, C, BashProgram(k))
       /\ \A c : Completes(k, Concat(ss), c) \/ Completes(k, TornDown(k), c) => Completes(k, BashProgram(k), c)
       /\ \A c : Settles(Concat(ss), c) \/ Settles(TornDown(k), c) => Settles(BashProgram(k), c)
  <2> DEFINE u == Concat(ss)
             w == TornDown(k)
  <2>1. Closed(k, C, u) /\ Closed(k, C, w)
    BY <1>10, <1>12
  <2>2. BashProgram(k) = u \o w
    BY <1>1
  <2> HIDE DEF u, w
  <2>3. /\ Closed(k, C, u \o w)
        /\ \A c : Completes(k, u, c) \/ Completes(k, w, c) => Completes(k, u \o w, c)
        /\ \A c : Settles(u, c) \/ Settles(w, c) => Settles(u \o w, c)
    BY <2>1, ClosedJoin
  <2> QED
    BY <2>2, <2>3 DEF u, w
<1> QED
  BY SMTT(30), <1>11, <1>12, <1>13 DEF C

\* The restore script as well, with fewer commands.
LEMMA RestoreIs ==
  ASSUME NEW k \in Configuration
  PROVE  /\ Closed(k, RestoreCommand(k), RestoreProgram(k))
         /\ \A c \in Chains : Completes(k, RestoreProgram(k), c)
         /\ \A c \in Chains \ DockerChains : Settles(RestoreProgram(k), c)
<1> DEFINE T == ChainsOf[k]
           C == RestoreCommand(k)
           built == Chosen(T)
           ss == [i \in DOMAIN built |-> hookOp(built[i])]
           n == Len(built)
           a == Op("swap", "none", 4)
           b == Op("swap", "none", 6)
           swaps == <<a, b>>
<1>1. RestoreProgram(k) = (swaps \o Concat(ss)) \o TornDown(k)
  BY BuiltIs DEF RestoreProgram
<1>2. T \subseteq Chains
  BY ChainsOfIs
<1>3. built \in Seq(T) /\ \A c \in T : \E i \in DOMAIN built : built[i] = c
  BY <1>2, ChosenIs
<1> HIDE DEF built
<1>4. n \in Nat /\ DOMAIN built = 1 .. n /\ \A i \in 1 .. n : built[i] \in T
  BY <1>3
<1>5. ASSUME NEW c \in T
      PROVE  Closed(k, C, hookOp(c)) /\ (c \notin DockerChains => Settles(hookOp(c), c))
  BY HookIs
<1>6. DOMAIN ss = 1 .. n /\ ss \in [1 .. n -> {hookOp(c) : c \in T}] /\ \A i \in 1 .. n : ss[i] = hookOp(built[i])
  BY <1>4
<1>7. /\ Closed(k, C, swaps)
      /\ \A c \in T : Completes(k, swaps, c)
  <2>1. a \in C /\ b \in C /\ a.op = "swap" /\ b.op = "swap" /\ a.n = 4 /\ b.n = 6
    BY DEF Op, RestoreCommand
  <2> HIDE DEF a, b, C
  <2>2. swaps \in Seq(C) /\ DOMAIN swaps = {1, 2} /\ swaps[1] = a /\ swaps[2] = b
    BY <2>1
  <2> HIDE DEF swaps
  <2>3. \A c : /\ Writes(k, a, c) => Finishes(k, a, c)
               /\ Writes(k, b, c) => Finishes(k, b, c)
    BY <2>1 DEF Writes, Finishes
  <2>4. \A c \in T : Finishes(k, a, c) \/ Finishes(k, b, c)
    BY <1>2, <2>1 DEF Finishes, TableOf
  <2>5. Closed(k, C, swaps)
    BY <2>2, <2>3 DEF Closed
  <2> QED
    BY <2>2, <2>4, <2>5 DEF Completes
<1> HIDE DEF ss, n, C, swaps, T
<1>8. Len(ss) = n /\ ss = [i \in 1 .. n |-> ss[i]]
  BY <1>4, <1>6, AsSequence
<1>9. \A i \in 1 .. n : Closed(k, C, ss[i])
  BY <1>4, <1>5, <1>6
<1>10. /\ Closed(k, C, Concat(ss))
       /\ \A c : (\E i \in 1 .. n : Settles(ss[i], c)) => Settles(Concat(ss), c)
  BY <1>4, <1>6, <1>8, <1>9, ClosedConcat
<1>11. ASSUME NEW c \in T, c \notin DockerChains PROVE Settles(Concat(ss), c)
  <2>1. PICK i \in 1 .. n : built[i] = c
    BY <1>3, <1>4
  <2> QED
    BY <1>5, <1>6, <1>10, <1>11, <2>1
<1>12. /\ Closed(k, C, TornDown(k))
       /\ \A c \in Chains \ T : Completes(k, TornDown(k), c) /\ Settles(TornDown(k), c)
  BY TornDownIs DEF T, C
<1>13. /\ Closed(k, C, swaps \o Concat(ss))
       /\ \A c : Completes(k, swaps, c) => Completes(k, swaps \o Concat(ss), c)
       /\ \A c : Settles(Concat(ss), c) => Settles(swaps \o Concat(ss), c)
  BY <1>7, <1>10, ClosedJoin
<1>14. /\ Closed(k, C, RestoreProgram(k))
       /\ \A c : Completes(k, swaps \o Concat(ss), c) \/ Completes(k, TornDown(k), c)
                   => Completes(k, RestoreProgram(k), c)
       /\ \A c : Settles(swaps \o Concat(ss), c) \/ Settles(TornDown(k), c)
                   => Settles(RestoreProgram(k), c)
  <2> DEFINE u == swaps \o Concat(ss)
             w == TornDown(k)
  <2>1. Closed(k, C, u) /\ Closed(k, C, w)
    BY <1>12, <1>13
  <2>2. RestoreProgram(k) = u \o w
    BY <1>1
  <2> HIDE DEF u, w
  <2>3. /\ Closed(k, C, u \o w)
        /\ \A c : Completes(k, u, c) \/ Completes(k, w, c) => Completes(k, u \o w, c)
        /\ \A c : Settles(u, c) \/ Settles(w, c) => Settles(u \o w, c)
    BY <2>1, ClosedJoin
  <2> QED
    BY <2>2, <2>3 DEF u, w
<1> QED
  BY <1>7, <1>11, <1>12, <1>13, <1>14 DEF C

Mode == {"bash", "restore"}

\* What the invariant below needs of a script.
LEMMA ProgramIs ==
  ASSUME NEW k \in Configuration, NEW m \in Mode
  PROVE  LET P == Programs[k][m]
         IN  /\ P \in Seq(BashCommand(k)) /\ 1 \in DOMAIN P /\ Len(P) \in Nat /\ DOMAIN P = 1 .. Len(P)
             /\ Closed(k, BashCommand(k), P)
             /\ m = "restore" => P \in Seq(RestoreCommand(k))
             /\ \A c \in Chains : Completes(k, P, c)
             /\ \A c \in Chains \ DockerChains : Settles(P, c)
<1> DEFINE P == Programs[k][m]
<1>1. Programs = [j \in Configuration |-> [bash |-> BashProgram(j), restore |-> RestoreProgram(j)]]
  BY TableIs DEF Programs
<1>2. (m = "bash" => P = BashProgram(k)) /\ (m = "restore" => P = RestoreProgram(k))
  BY <1>1
<1> HIDE DEF P
<1>3. RestoreCommand(k) \subseteq BashCommand(k)
  BY DEF BashCommand
<1>4. \A s : s \in Seq(RestoreCommand(k)) => s \in Seq(BashCommand(k))
  BY <1>3, WiderSeq
<1>5. Closed(k, BashCommand(k), P) /\ (m = "restore" => P \in Seq(RestoreCommand(k)))
  <2>1. CASE m = "bash"
    BY <1>2, <2>1, BashIs
  <2>2. CASE m = "restore"
    BY <1>2, <1>4, <2>2, RestoreIs DEF Closed
  <2> QED
    BY <2>1, <2>2 DEF Mode
<1>6. /\ \A c \in Chains : Completes(k, P, c)
      /\ \A c \in Chains \ DockerChains : Settles(P, c)
  BY <1>2, BashIs, RestoreIs DEF Mode
<1>7. P \in Seq(BashCommand(k))
  BY <1>5 DEF Closed
<1>8. DOMAIN P # {}
  <2>1. "ZFW-IN" \in Chains
    BY DEF Chains
  <2> QED
    BY <1>6, <2>1 DEF Completes
<1>9. 1 \in DOMAIN P /\ Len(P) \in Nat /\ DOMAIN P = 1 .. Len(P)
  BY <1>7, <1>8
<1> QED
  BY <1>5, <1>6, <1>7, <1>9 DEF P

OnChains(f) == f = [c \in Chains |-> f[c]]

\* How one command leaves the chains.
LEMMA WrittenIs ==
  ASSUME NEW k \in Configuration, NEW ch, OnChains(ch),
         NEW o \in BashCommand(k), NEW c \in Chains
  PROVE  LET next == Written(ch, k, o)
         IN  /\ OnChains(next)
             /\ ~Writes(k, o, c) => next[c] = ch[c]
             /\ Finishes(k, o, c) => next[c] = Whole(k)[c]
             /\ \/ next[c] \in {ch[c], Stock}
                \/ c \in ChainsOf[k] /\ \E n \in DOMAIN LinesOf[k][c] : next[c] = [of |-> k, n |-> n]
             /\ o \in RestoreCommand(k) /\ c \in ChainsOf[k] => next[c] \in {ch[c], Whole(k)[c]}
<1> DEFINE next == Written(ch, k, o)
<1>0. ch = [d \in Chains |-> ch[d]]
  BY DEF OnChains
<1>1. k # Nothing
  BY DEF Configuration, Nothing
<1>2. Whole(k)[c] = IF c \in ChainsOf[k] THEN [of |-> k, n |-> Len(LinesOf[k][c])] ELSE Stock
  BY <1>1 DEF Whole
<1>3. Len(LinesOf[k][c]) \in DOMAIN LinesOf[k][c]
  BY LinesFit
<1>4. CASE o.op = "swap"
  <2>1. next = [d \in Chains |-> IF d \in TableOf(o.n) \cap ChainsOf[k]
                                 THEN [of |-> k, n |-> Len(LinesOf[k][d])] ELSE ch[d]]
    BY <1>4 DEF Written
  <2>2. OnChains(next)
    BY <2>1 DEF OnChains
  <2>3. next[c] = IF c \in TableOf(o.n) \cap ChainsOf[k] THEN [of |-> k, n |-> Len(LinesOf[k][c])] ELSE ch[c]
    BY <2>1
  <2> HIDE DEF next
  <2> QED
    BY <1>2, <1>3, <1>4, <2>2, <2>3 DEF Writes, Finishes, next
<1>5. CASE o.op = "append"
  <2>1. o.chain \in ChainsOf[k] /\ o.n \in DOMAIN LinesOf[k][o.chain]
    BY <1>5 DEF BashCommand, RestoreCommand
  <2>2. next = [ch EXCEPT ![o.chain] = [of |-> k, n |-> o.n]]
    BY <1>5 DEF Written
  <2>3. o.chain \in Chains
    BY <2>1, ChainsOfIs
  <2>4. OnChains(next)
    BY <1>0, <2>2, <2>3 DEF OnChains
  <2>5. next[c] = IF c = o.chain THEN [of |-> k, n |-> o.n] ELSE ch[c]
    BY <1>0, <2>2, <2>3
  <2>6. o \notin RestoreCommand(k)
    BY <1>5 DEF RestoreCommand
  <2> HIDE DEF next
  <2> QED
    BY <1>2, <1>5, <2>1, <2>4, <2>5, <2>6 DEF Writes, Finishes, next
<1>6. CASE o.op = "flush"
  <2>1. o.chain \in Chains /\ (o \in RestoreCommand(k) => o.chain \notin ChainsOf[k])
    BY <1>6, ChainsOfIs DEF BashCommand, RestoreCommand
  <2>2. next = [ch EXCEPT ![o.chain] = Stock]
    BY <1>6 DEF Written
  <2>3. OnChains(next)
    BY <1>0, <2>1, <2>2 DEF OnChains
  <2>4. next[c] = IF c = o.chain THEN Stock ELSE ch[c]
    BY <1>0, <2>1, <2>2
  <2> HIDE DEF next
  <2> QED
    BY <1>2, <1>6, <2>1, <2>3, <2>4 DEF Writes, Finishes, next
<1>7. CASE o.op \notin {"swap", "append", "flush"}
  <2>1. next = ch
    BY <1>7 DEF Written
  <2> QED
    BY <1>7, <2>1 DEF Writes, Finishes
<1> QED
  BY <1>4, <1>5, <1>6, <1>7

-----------------------------------------------------------------------------
(* The invariant *)

\* The chains of a configuration, or of none, that are hooked.
HooksOf(k) == IF k = Nothing THEN DockerChains ELSE ChainsOf[k]

\* A chain during an apply: empty, as before, or begun by the script.
Begun(c) ==
  \/ kernel[c] \in {Stock, Whole(live)[c]}
  \/ /\ c \in ChainsOf[script.of]
     /\ \E n \in DOMAIN LinesOf[script.of][c] : kernel[c] = [of |-> script.of, n |-> n]

\* The commands still to come.
ToCome(c, P, from) ==
  /\ \/ kernel[c] = Whole(script.of)[c]
     \/ \E j \in DOMAIN P : from <= j /\ Finishes(script.of, P[j], c)
  /\ c \notin DockerChains =>
       \/ c \in hooked <=> c \in ChainsOf[script.of]
       \/ \E j \in DOMAIN P : from <= j /\ P[j].op \in {"hook", "unhook"} /\ P[j].chain = c

LiveInv ==
  /\ running \in SUBSET Container
  /\ live \in Configuration \cup {Nothing}
  /\ kernel = [c \in Chains |-> kernel[c]]
  /\ hooked \in SUBSET Chains
  /\ ~Running => kernel = Whole(live) /\ hooked = HooksOf(live)
  /\ Running =>
       /\ script \in [of : Configuration, mode : Mode, at : Nat]
       /\ script.at \in DOMAIN Program(script)
       /\ DockerChains \subseteq hooked
       /\ \A c \in Chains :
            /\ Begun(c)
            /\ ToCome(c, Program(script), script.at)
            /\ script.mode = "restore" /\ c \in ChainsOf[script.of]
                 => kernel[c] \in {Whole(live)[c], Whole(script.of)[c]}
            /\ c \in HooksOf(live) \cap ChainsOf[script.of] => c \in hooked

LEMMA WholeIs ==
  ASSUME NEW k \in Configuration \cup {Nothing}, NEW c \in Chains
  PROVE  /\ Whole(k) = [d \in Chains |-> Whole(k)[d]]
         /\ Whole(Nothing)[c] = Stock
         /\ k # Nothing => Whole(k)[c] = IF c \in ChainsOf[k] THEN [of |-> k, n |-> Len(LinesOf[k][c])] ELSE Stock
BY DEF Whole

LEMMA LiveInvInit == Init => LiveInv
<1> SUFFICES ASSUME Init PROVE LiveInv
  OBVIOUS
<1>1. ~Running /\ live = Nothing /\ kernel = [c \in Chains |-> Stock] /\ hooked = DockerChains
      /\ running \in SUBSET Container
  BY DEF Init, Running
<1>2. kernel = Whole(live)
  BY <1>1 DEF Whole
<1>3. DockerChains \subseteq Chains
  BY DEF DockerChains, Chains
<1>4. kernel = [c \in Chains |-> kernel[c]]
  BY <1>1
<1> QED
  BY <1>1, <1>2, <1>3, <1>4 DEF LiveInv, HooksOf

LEMMA LiveInvRest ==
  ASSUME LiveInv, NEW c \in Container, StartContainer(c) \/ StopContainer(c)
  PROVE  LiveInv'
<1>1. running' \in SUBSET Container
  BY DEF StartContainer, StopContainer, LiveInv
<1>2. UNCHANGED <<live, kernel, hooked, script>>
  BY DEF StartContainer, StopContainer
<1> QED
  BY <1>1, <1>2 DEF LiveInv, Running, Begun, ToCome, Program

LEMMA LiveInvRevert ==
  ASSUME LiveInv, Revert
  PROVE  LiveInv'
<1>1. /\ kernel' = [c \in Chains |-> Stock] /\ hooked' = DockerChains
      /\ live' = Nothing /\ script' = Idle /\ running' = running
  BY DEF Revert
<1>2. ~Running' /\ kernel' = Whole(live') /\ hooked' = HooksOf(live')
  BY <1>1 DEF Running, Whole, HooksOf
<1>3. DockerChains \subseteq Chains
  BY DEF DockerChains, Chains
<1>4. kernel' = [c \in Chains |-> kernel'[c]]
  BY <1>1
<1> QED
  BY <1>1, <1>2, <1>3, <1>4 DEF LiveInv

LEMMA LiveInvBegin ==
  ASSUME LiveInv, NEW k \in Configuration, NEW mode \in Mode, ~Running,
         script' = [of |-> k, mode |-> mode, at |-> 1],
         UNCHANGED <<running, live, kernel, hooked>>
  PROVE  LiveInv'
<1> DEFINE P == Programs[k][mode]
<1>3. kernel = Whole(live) /\ hooked = HooksOf(live) /\ live \in Configuration \cup {Nothing}
  BY DEF LiveInv
<1>4. /\ script'.of = k /\ script'.mode = mode /\ script'.at = 1
      /\ script' \in [of : Configuration, mode : Mode, at : Nat]
  OBVIOUS
<1>5. Program(script)' = P
  BY <1>4 DEF Program
<1>6. /\ 1 \in DOMAIN P /\ DOMAIN P = 1 .. Len(P) /\ Len(P) \in Nat
      /\ \A c \in Chains : Completes(k, P, c)
      /\ \A c \in Chains \ DockerChains : Settles(P, c)
  BY ProgramIs
<1> HIDE DEF P
<1>7. \A j \in DOMAIN P : 1 <= j
  BY <1>6
<1>8. ASSUME NEW c \in Chains PROVE Begun(c)' /\ ToCome(c, Program(script), script.at)'
  <2>1. Begun(c)'
    BY <1>3 DEF Begun
  <2>2. \E j \in DOMAIN P : 1 <= j /\ Finishes(k, P[j], c)
    BY <1>6, <1>7 DEF Completes
  <2>3. c \notin DockerChains => \E j \in DOMAIN P : 1 <= j /\ P[j].op \in {"hook", "unhook"} /\ P[j].chain = c
    BY <1>6, <1>7 DEF Settles
  <2>4. ToCome(c, Program(script), script.at)'
    BY <1>4, <1>5, <2>2, <2>3 DEF ToCome
  <2> QED
    BY <2>1, <2>4
<1>9. ASSUME NEW c \in Chains
      PROVE  /\ kernel'[c] = Whole(live')[c]
             /\ (c \in HooksOf(live) => c \in hooked)'
  BY <1>3 DEF HooksOf
<1>10. DockerChains \subseteq hooked
  BY <1>3, ChainsOfIs DEF HooksOf
<1>11. (script.at \in DOMAIN Program(script))'
  BY <1>4, <1>5, <1>6
<1>12. Running'
  BY DEF Running, Idle, Mode
<1>13. Whole(live)' = Whole(live')
  BY DEF Whole
<1> QED
  BY <1>4, <1>8, <1>9, <1>10, <1>11, <1>12, <1>13 DEF LiveInv, HooksOf

LEMMA LiveInvApply ==
  ASSUME LiveInv, NEW name \in DOMAIN RuleSets, NEW mode \in Mode, Apply(name, mode)
  PROVE  LiveInv'
<1>1. /\ ~Running /\ script' = [of |-> [name |-> name, run |-> running], mode |-> mode, at |-> 1]
      /\ UNCHANGED <<running, live, kernel, hooked>>
  BY DEF Apply
<1>2. [name |-> name, run |-> running] \in Configuration
  BY DEF Apply, Configuration, Valid, LiveInv
<1>3. PICK k \in Configuration : k = [name |-> name, run |-> running]
  BY <1>2
<1> QED
  BY <1>1, <1>3, LiveInvBegin

\* How one command leaves the hooks.
LEMMA HookedIs ==
  ASSUME NEW k \in Configuration, NEW o \in BashCommand(k), NEW hooks \in SUBSET Chains,
         NEW after,
         after = (CASE o.op = "hook"   -> hooks \cup {o.chain}
                    [] o.op = "unhook" -> hooks \ {o.chain}
                    [] OTHER           -> hooks)
  PROVE  /\ after \in SUBSET Chains
         /\ \A c \in Chains : c \in hooks /\ c \in ChainsOf[k] => c \in after
         /\ \A c \in Chains : o.op \in {"hook", "unhook"} /\ o.chain = c
                                => (c \in after <=> c \in ChainsOf[k])
         /\ \A c \in Chains : ~(o.op \in {"hook", "unhook"} /\ o.chain = c)
                                => (c \in after <=> c \in hooks)
<1>1. o.op = "hook" => o.chain \in ChainsOf[k] /\ o.chain \in Chains
  BY ChainsOfIs DEF BashCommand, RestoreCommand
<1>2. o.op = "unhook" => o.chain \notin ChainsOf[k]
  BY DEF BashCommand, RestoreCommand
<1>3. CASE o.op = "hook"
  <2>1. after = hooks \cup {o.chain}
    BY <1>3
  <2> QED
    BY <1>1, <1>3, <2>1
<1>4. CASE o.op = "unhook"
  <2>1. after = hooks \ {o.chain}
    BY <1>4
  <2> QED
    BY <1>2, <1>4, <2>1
<1>5. CASE o.op \notin {"hook", "unhook"}
  <2>1. after = hooks
    BY <1>5
  <2> QED
    BY <1>5, <2>1
<1> QED
  BY <1>3, <1>4, <1>5

LEMMA LiveInvCommand ==
  ASSUME LiveInv, Step, NEW k \in Configuration, NEW m \in Mode, NEW at \in Nat,
         script = [of |-> k, mode |-> m, at |-> at]
  PROVE  LiveInv'
<1> DEFINE P == Programs[k][m]
           o == P[at]
<1>1. script.of = k /\ script.mode = m /\ script.at = at /\ Running
  BY DEF Step
<1>2. Program(script) = P /\ Current = o
  BY <1>1 DEF Program, Current
<1>3. /\ P \in Seq(BashCommand(k)) /\ Len(P) \in Nat /\ DOMAIN P = 1 .. Len(P)
      /\ Closed(k, BashCommand(k), P)
      /\ m = "restore" => P \in Seq(RestoreCommand(k))
  BY ProgramIs
<1> HIDE DEF P
<1>4. /\ live \in Configuration \cup {Nothing} /\ kernel = [c \in Chains |-> kernel[c]]
      /\ hooked \in SUBSET Chains /\ DockerChains \subseteq hooked /\ running \in SUBSET Container
  BY <1>1 DEF LiveInv
<1>5. /\ at \in DOMAIN P
      /\ \A c \in Chains :
            /\ Begun(c)
            /\ ToCome(c, P, at)
            /\ m = "restore" /\ c \in ChainsOf[k] => kernel[c] \in {Whole(live)[c], Whole(k)[c]}
            /\ c \in HooksOf(live) \cap ChainsOf[k] => c \in hooked
  BY <1>1, <1>2 DEF LiveInv
<1>6. o \in BashCommand(k) /\ (m = "restore" => o \in RestoreCommand(k))
  BY <1>3, <1>5
<1>7. /\ kernel' = Written(kernel, k, o)
      /\ hooked' = CASE o.op = "hook"   -> hooked \cup {o.chain}
                     [] o.op = "unhook" -> hooked \ {o.chain}
                     [] OTHER           -> hooked
      /\ running' = running
      /\ IF at < Len(P)
         THEN script' = [script EXCEPT !.at = @ + 1] /\ live' = live
         ELSE script' = Idle /\ live' = k
  BY <1>1, <1>2 DEF Step
<1> HIDE DEF o
<1>8. ASSUME NEW c \in Chains
      PROVE  /\ OnChains(kernel')
             /\ ~Writes(k, o, c) => kernel'[c] = kernel[c]
             /\ Finishes(k, o, c) => kernel'[c] = Whole(k)[c]
             /\ \/ kernel'[c] \in {kernel[c], Stock}
                \/ c \in ChainsOf[k] /\ \E n \in DOMAIN LinesOf[k][c] : kernel'[c] = [of |-> k, n |-> n]
             /\ o \in RestoreCommand(k) /\ c \in ChainsOf[k] => kernel'[c] \in {kernel[c], Whole(k)[c]}
  <2>1. OnChains(kernel)
    BY <1>4 DEF OnChains
  <2>2. LET next == Written(kernel, k, o)
        IN  /\ OnChains(next)
            /\ ~Writes(k, o, c) => next[c] = kernel[c]
            /\ Finishes(k, o, c) => next[c] = Whole(k)[c]
            /\ \/ next[c] \in {kernel[c], Stock}
               \/ c \in ChainsOf[k] /\ \E n \in DOMAIN LinesOf[k][c] : next[c] = [of |-> k, n |-> n]
            /\ o \in RestoreCommand(k) /\ c \in ChainsOf[k] => next[c] \in {kernel[c], Whole(k)[c]}
    BY <1>6, <2>1, WrittenIs
  <2>3. kernel' = Written(kernel, k, o)
    BY <1>7
  <2> QED
    BY <2>2, <2>3
<1>9. /\ hooked' \in SUBSET Chains
      /\ \A c \in Chains : c \in hooked /\ c \in ChainsOf[k] => c \in hooked'
      /\ \A c \in Chains : o.op \in {"hook", "unhook"} /\ o.chain = c
                             => (c \in hooked' <=> c \in ChainsOf[k])
      /\ \A c \in Chains : ~(o.op \in {"hook", "unhook"} /\ o.chain = c)
                             => (c \in hooked' <=> c \in hooked)
  <2>1. hooked \in SUBSET Chains /\ o \in BashCommand(k)
    BY <1>4, <1>6
  <2>2. hooked' = CASE o.op = "hook"   -> hooked \cup {o.chain}
                    [] o.op = "unhook" -> hooked \ {o.chain}
                    [] OTHER           -> hooked
    BY <1>7
  <2> QED
    BY <2>1, <2>2, HookedIs
<1>10. DockerChains \subseteq hooked' /\ kernel' = [d \in Chains |-> kernel'[d]]
  <2>1. DockerChains \subseteq Chains /\ DockerChains \subseteq ChainsOf[k]
    BY ChainsOfIs
  <2>2. "ZFW-IN" \in Chains
    BY DEF Chains
  <2> QED
    BY <1>4, <1>8, <1>9, <2>1, <2>2 DEF OnChains
<1>11. ASSUME NEW c \in Chains
       PROVE  \/ kernel'[c] \in {Stock, Whole(live)[c]}
              \/ c \in ChainsOf[k] /\ \E n \in DOMAIN LinesOf[k][c] : kernel'[c] = [of |-> k, n |-> n]
  BY <1>1, <1>5, <1>8 DEF Begun
<1>12. ASSUME NEW c \in Chains
       PROVE  \/ kernel'[c] = Whole(k)[c]
              \/ \E j \in DOMAIN P : at + 1 <= j /\ Finishes(k, P[j], c)
  <2>1. \/ kernel'[c] = Whole(k)[c]
        \/ \E j \in DOMAIN P : at <= j /\ Finishes(k, P[j], c)
    <3>1. CASE Writes(k, o, c)
      BY <1>3, <1>5, <3>1 DEF Closed, o
    <3>2. CASE ~Writes(k, o, c)
      BY <1>1, <1>5, <1>8, <3>2 DEF ToCome
    <3> QED
      BY <3>1, <3>2
  <2>2. \A j \in DOMAIN P : at <= j => j = at \/ at + 1 <= j
    BY <1>3
  <2>3. Finishes(k, P[at], c) => kernel'[c] = Whole(k)[c]
    BY <1>8 DEF o
  <2> QED
    BY <2>1, <2>2, <2>3
<1>13. ASSUME NEW c \in Chains, c \notin DockerChains
       PROVE  \/ c \in hooked' <=> c \in ChainsOf[k]
              \/ \E j \in DOMAIN P : at + 1 <= j /\ P[j].op \in {"hook", "unhook"} /\ P[j].chain = c
  <2>1. \/ c \in hooked <=> c \in ChainsOf[k]
        \/ \E j \in DOMAIN P : at <= j /\ P[j].op \in {"hook", "unhook"} /\ P[j].chain = c
    BY <1>1, <1>5, <1>13 DEF ToCome
  <2>2. \A j \in DOMAIN P : at <= j => j = at \/ at + 1 <= j
    BY <1>3
  <2>3. P[at].op \in {"hook", "unhook"} /\ P[at].chain = c => (c \in hooked' <=> c \in ChainsOf[k])
    BY <1>9 DEF o
  <2>4. (c \in hooked <=> c \in ChainsOf[k]) => (c \in hooked' <=> c \in ChainsOf[k])
    BY <1>9
  <2> QED
    BY <2>1, <2>2, <2>3, <2>4
<1>14. ASSUME NEW c \in Chains
       PROVE  /\ m = "restore" /\ c \in ChainsOf[k] => kernel'[c] \in {Whole(live)[c], Whole(k)[c]}
              /\ c \in HooksOf(live) \cap ChainsOf[k] => c \in hooked'
  BY <1>5, <1>6, <1>8, <1>9
<1>15. CASE at < Len(P)
  <2>1. live' = live /\ script' = [of |-> k, mode |-> m, at |-> at + 1]
    BY <1>7, <1>15
  <2>2. /\ script'.of = k /\ script'.mode = m /\ script'.at = at + 1
        /\ script' \in [of : Configuration, mode : Mode, at : Nat]
    BY <2>1
  <2>3. Program(script)' = P
    BY <2>2 DEF Program, P
  <2>4. Running' /\ at + 1 \in DOMAIN P
    BY <1>3, <1>15, <2>1 DEF Running, Idle
  <2>5. Whole(live)' = Whole(live) /\ HooksOf(live)' = HooksOf(live)
    BY <2>1 DEF Whole, HooksOf
  <2>6. ASSUME NEW c \in Chains PROVE Begun(c)' /\ ToCome(c, Program(script), script.at)'
    <3>1. Begun(c)'
      BY <1>11, <2>2, <2>5 DEF Begun
    <3>2. ToCome(c, Program(script), script.at)'
      BY <1>12, <1>13, <2>2, <2>3 DEF ToCome
    <3> QED
      BY <3>1, <3>2
  <2>7. (script.at \in DOMAIN Program(script))'
    BY <2>2, <2>3, <2>4
  <2>8. ASSUME NEW c \in Chains
        PROVE  /\ (script.mode = "restore" /\ c \in ChainsOf[script.of]
                     => kernel[c] \in {Whole(live)[c], Whole(script.of)[c]})'
               /\ (c \in HooksOf(live) \cap ChainsOf[script.of] => c \in hooked)'
    <3>1. Whole(script.of)' = Whole(k)
      BY <2>2 DEF Whole
    <3> QED
      BY <1>14, <2>2, <2>5, <3>1
  <2> QED
    BY <1>4, <1>7, <1>9, <1>10, <2>1, <2>2, <2>4, <2>6, <2>7, <2>8 DEF LiveInv
<1>16. CASE ~(at < Len(P))
  <2>1. live' = k /\ script' = Idle
    BY <1>7, <1>16
  <2>2. \A j \in DOMAIN P : ~(at + 1 <= j)
    BY <1>3, <1>5, <1>16
  <2>3. \A c \in Chains : kernel'[c] = Whole(k)[c]
    BY <1>12, <2>2
  <2>4. kernel' = Whole(k)
    <3>1. Whole(k) = [d \in Chains |-> Whole(k)[d]]
      BY DEF Whole
    <3> QED
      BY <1>10, <2>3, <3>1
  <2>5. hooked' = ChainsOf[k]
    <3>1. \A c \in Chains : c \in hooked' <=> c \in ChainsOf[k]
      <4>1. DockerChains \subseteq ChainsOf[k]
        BY ChainsOfIs
      <4> QED
        BY <1>10, <1>13, <2>2, <4>1
    <3>2. ChainsOf[k] \subseteq Chains
      BY ChainsOfIs
    <3> QED
      BY <1>9, <3>1, <3>2
  <2>6. k # Nothing
    BY DEF Configuration, Nothing
  <2>7. ~Running' /\ (kernel = Whole(live))' /\ (hooked = HooksOf(live))'
    <3>1. Whole(live)' = Whole(k)
      BY <2>1 DEF Whole
    <3> QED
      BY <2>1, <2>4, <2>5, <2>6, <3>1 DEF Running, HooksOf
  <2> QED
    BY <1>4, <1>7, <1>9, <1>10, <2>1, <2>7 DEF LiveInv
<1> QED
  BY <1>15, <1>16

LEMMA LiveInvStep == LiveInv /\ Step => LiveInv'
<1> SUFFICES ASSUME LiveInv, Step PROVE LiveInv'
  OBVIOUS
<1>1. script \in [of : Configuration, mode : Mode, at : Nat]
  BY DEF Step, LiveInv
<1>2. PICK k \in Configuration, m \in Mode, at \in Nat :
        script = [of |-> k, mode |-> m, at |-> at]
  BY <1>1
<1> QED
  BY <1>2, LiveInvCommand

LEMMA LiveInvStutter == LiveInv /\ UNCHANGED vars => LiveInv'
BY DEF LiveInv, vars, Running, Begun, ToCome, Program, Whole, HooksOf

LEMMA LiveInvNext == LiveInv /\ [Next]_vars => LiveInv'
<1> SUFFICES ASSUME LiveInv, [Next]_vars PROVE LiveInv'
  OBVIOUS
<1>1. CASE \E c \in Container : StartContainer(c) \/ StopContainer(c)
  BY <1>1, LiveInvRest
<1>2. CASE \E name \in DOMAIN RuleSets, mode \in {"bash", "restore"} : Apply(name, mode)
  BY <1>2, LiveInvApply DEF Mode
<1>3. CASE Step
  BY <1>3, LiveInvStep
<1>4. CASE Revert
  BY <1>4, LiveInvRevert
<1>5. CASE UNCHANGED vars
  BY <1>5, LiveInvStutter
<1> QED
  BY <1>1, <1>2, <1>3, <1>4, <1>5 DEF Next

LEMMA LiveInvHolds == Spec => []LiveInv
BY LiveInvInit, LiveInvNext, PTL DEF Spec

-----------------------------------------------------------------------------
(* What the invariant means for the lines and for the packets *)

\* What chain c holds.
LEMMA HeldIs ==
  ASSUME LiveInv, NEW c \in Chains
  PROVE  \/ kernel[c] = Stock
         \/ \E k \in Configuration : \E n \in DOMAIN LinesOf[k][c] :
              /\ kernel[c] = [of |-> k, n |-> n]
              /\ k \in {live, script.of}
              /\ Running \/ n = Len(LinesOf[k][c])
<1>1. ASSUME kernel[c] = Whole(live)[c], kernel[c] # Stock
      PROVE  \E k \in Configuration : \E n \in DOMAIN LinesOf[k][c] :
               kernel[c] = [of |-> k, n |-> n] /\ k = live /\ n = Len(LinesOf[k][c])
  <2>1. live \in Configuration
    BY <1>1, WholeIs DEF LiveInv
  <2>2. kernel[c] = [of |-> live, n |-> Len(LinesOf[live][c])]
    BY <1>1, <2>1 DEF Whole
  <2>3. Len(LinesOf[live][c]) \in DOMAIN LinesOf[live][c]
    BY <2>1, LinesFit
  <2> QED
    BY <2>1, <2>2, <2>3
<1>2. CASE ~Running
  BY <1>1, <1>2 DEF LiveInv
<1>3. CASE Running
  <2>1. Begun(c) /\ script.of \in Configuration
    BY <1>3 DEF LiveInv
  <2> QED
    BY <1>1, <1>3, <2>1 DEF Begun
<1> QED
  BY <1>2, <1>3

\* Every chain of the kernel is empty or holds the first lines of a
\* configuration's, and the record names one that was valid, whatever apply is
\* under way, failed or was reverted: the state TypeOK describes.
THEOREM LiveTypeCorrect == Spec => []TypeOK
<1>1. ASSUME LiveInv PROVE TypeOK
  <2>1. DOMAIN kernel = Chains
    <3>1. kernel = [c \in Chains |-> kernel[c]]
      BY <1>1 DEF LiveInv
    <3> QED
      BY <3>1
  <2>2. ASSUME NEW c \in Chains, kernel[c] # Stock
        PROVE  kernel[c].of \in Configuration /\ kernel[c].n \in DOMAIN LinesOf[kernel[c].of][c]
    <3>1. PICK k \in Configuration : \E n \in DOMAIN LinesOf[k][c] : kernel[c] = [of |-> k, n |-> n]
      BY <1>1, <2>2, HeldIs
    <3> QED
      BY <3>1
  <2>3. /\ running \subseteq Container /\ live \in Configuration \cup {Nothing} /\ hooked \subseteq Chains
        /\ Running => script.of \in Configuration /\ script.at \in DOMAIN Program(script)
    BY <1>1 DEF LiveInv
  <2> QED
    BY <2>1, <2>2, <2>3 DEF TypeOK
<1> QED
  BY <1>1, LiveInvHolds, PTL

\* No rule set that Validate lets through, with no set of running containers,
\* compiles to a command iptables refuses: no line names an address of the
\* other family, and no multiport match names more than MaxMultiport ports.
THEOREM ScriptsAlwaysParse == Spec => []ScriptsParse
<1>1. ASSUME LiveInv, Running PROVE ~Rejected(script.of, Current)
  <2>1. PICK k \in Configuration, m \in Mode, at \in Nat : script = [of |-> k, mode |-> m, at |-> at]
    BY <1>1 DEF LiveInv
  <2>2. script.of = k /\ Current = Programs[k][m][at] /\ at \in DOMAIN Programs[k][m]
    BY <1>1, <2>1 DEF LiveInv, Current, Program
  <2>3. Current \in BashCommand(k)
    BY <2>2, ProgramIs
  <2>4. \A c \in Chains : \A n \in DOMAIN LinesOf[k][c] : ~Refused(c, LinesOf[k][c][n])
    BY LinesFit
  <2>5. ChainsOf[k] \subseteq Chains
    BY ChainsOfIs
  <2> HIDE DEF Current
  <2>6. CASE Current.op = "append"
    <3>1. Current.chain \in Chains /\ Current.n \in DOMAIN LinesOf[k][Current.chain]
      BY <2>3, <2>5, <2>6 DEF BashCommand, RestoreCommand
    <3>2. Rejected(k, Current) = Refused(Current.chain, LinesOf[k][Current.chain][Current.n])
      BY <2>6 DEF Rejected
    <3> QED
      BY <2>2, <2>4, <3>1, <3>2
  <2>7. CASE Current.op = "swap"
    <3>1. Rejected(k, Current) = \E c \in TableOf(Current.n) \cap ChainsOf[k] :
                                   \E n \in DOMAIN LinesOf[k][c] : Refused(c, LinesOf[k][c][n])
      BY <2>7 DEF Rejected
    <3> QED
      BY <2>2, <2>4, <2>5, <3>1
  <2>8. CASE Current.op \notin {"append", "swap"}
    BY <2>2, <2>8 DEF Rejected
  <2> QED
    BY <2>6, <2>7, <2>8
<1>2. LiveInv => ScriptsParse
  BY <1>1 DEF ScriptsParse
<1> QED
  BY <1>2, LiveInvHolds, PTL

\* What a chain of the kernel drops and accepts.
LEMMA HeldDecides ==
  ASSUME LiveInv, NEW c \in Chains
  PROVE  /\ Effect(kernel[c], c).drop \cap Established = {}
         /\ Effect(kernel[c], c).drop \subseteq Packet
         /\ Effect(kernel[c], c).drop \cap Effect(kernel[c], c).accept = {}
         /\ (\A k \in Configuration : NamesPeers(RulesOf[k])) =>
              /\ Effect(kernel[c], c).drop \subseteq Own(c)
              /\ c = "ZFW-FWD-OUT" => Effect(kernel[c], c).accept \subseteq Own(c)
<1>1. CASE kernel[c] = Stock
  <2>1. Effect(kernel[c], c) = [drop |-> {}, accept |-> {}]
    BY <1>1 DEF Effect
  <2> QED
    BY <2>1
<1>2. CASE kernel[c] # Stock
  <2>0. PICK k \in Configuration : \E n \in DOMAIN LinesOf[k][c] : kernel[c] = [of |-> k, n |-> n]
    BY <1>2, HeldIs
  <2>1. PICK n \in DOMAIN LinesOf[k][c] : kernel[c] = [of |-> k, n |-> n]
    BY <2>0
  <2>2. Effect(kernel[c], c) = Effects[k][c][n + 1]
    BY <1>2, <2>1 DEF Effect
  <2>3. n \in 0 .. Len(LinesOf[k][c])
    BY LinesFit
  <2> QED
    BY <2>2, <2>3, ChainsDecide
<1> QED
  BY <1>1, <1>2

\* For every rule set: no packet of an established connection is dropped, not
\* in the middle of the bash script, nor between the tables of the restore
\* script, nor after a revert.
THEOREM EstablishedAlwaysSurvives == Spec => []EstablishedSurvives
<1>1. ASSUME LiveInv, NEW p \in Dropped PROVE p.state # "established"
  <2>1. hooked \subseteq Chains
    BY <1>1 DEF LiveInv
  <2>2. PICK c \in hooked : p \in Effect(kernel[c], c).drop
    BY <1>1 DEF Dropped, Drops
  <2>3. p \in Packet /\ p \notin Established
    BY <1>1, <2>1, <2>2, HeldDecides
  <2> QED
    BY <2>3 DEF Established, InState, Match
<1>2. LiveInv => EstablishedSurvives
  BY <1>1 DEF EstablishedSurvives
<1> QED
  BY <1>2, LiveInvHolds, PTL

-----------------------------------------------------------------------------
(* The packets during an apply *)

LEMMA PeersStayNamed ==
  ASSUME \A name \in Valid : NamesPeers(RuleSets[name])
  PROVE  \A k \in Configuration : NamesPeers(RulesOf[k])
<1> SUFFICES ASSUME NEW k \in Configuration PROVE NamesPeers(RulesOf[k])
  OBVIOUS
<1> DEFINE rs == RuleSets[k.name]
           list(r) == ListPorts(sortedPorts(all(Published[r.container])))
           bind(r) == IF r.container \notin k.run \/ all(Published[r.container]) = {} THEN r
                      ELSE [r EXCEPT !.ports = list(r)]
<1>1. k.name \in Valid /\ k.name \in DOMAIN RuleSets
  BY DEF Configuration, Valid
<1>2. rs \in RuleSet /\ NamesPeers(rs)
  BY SMTT(30), <1>1, RuleSetsAssumption
<1>3. RulesOf[k] = [rs EXCEPT !.rules = [i \in DOMAIN rs.rules |-> bind(rs.rules[i])]]
  <2>1. RulesOf = [j \in Configuration |-> Resolved(j.name, j.run)]
    BY TableIs DEF RulesOf
  <2>2. RulesOf[k] = Resolved(k.name, k.run)
    BY <2>1
  <2> QED
    BY <2>2 DEF Resolved
<1> HIDE DEF list
<1>4. ASSUME NEW r \in Rule
      PROVE  bind(r).direction = r.direction /\ bind(r).zone = r.zone /\ bind(r).source = r.source
  BY DEF Rule
<1> HIDE DEF bind, rs
<1>5. RulesOf[k].rules = [i \in DOMAIN rs.rules |-> bind(rs.rules[i])]
  BY <1>2, <1>3 DEF RuleSet
<1>6. \A i \in DOMAIN rs.rules : rs.rules[i] \in Rule
  BY <1>2 DEF RuleSet
<1> QED
  BY <1>2, <1>4, <1>5, <1>6 DEF NamesPeers, IsOutbound

LEMMA DropsIs ==
  ASSUME NEW ch, NEW hooks, NEW p
  PROVE  p \in Drops(ch, hooks) <=>
           /\ \E c \in hooks : p \in Effect(ch[c], c).drop
           /\ "ZFW-FWD-OUT" \in hooks => p \notin Effect(ch["ZFW-FWD-OUT"], "ZFW-FWD-OUT").accept
<1> DEFINE gone(c) == Effect(ch[c], c).drop
<1>1. p \in UNION {gone(c) : c \in hooks} <=> \E c \in hooks : p \in gone(c)
  <2> HIDE DEF gone
  <2> QED
    BY Zenon
<1>2. CASE "ZFW-FWD-OUT" \in hooks
  BY <1>1, <1>2 DEF Drops
<1>3. CASE "ZFW-FWD-OUT" \notin hooks
  BY <1>1, <1>3 DEF Drops
<1> QED
  BY <1>2, <1>3

\* What a configuration drops once installed.
LEMMA DroppedByIs ==
  ASSUME \A k \in Configuration : NamesPeers(RulesOf[k])
  PROVE  /\ DroppedBy[Nothing] = {}
         /\ \A k \in Configuration : \A p :
              p \in DroppedBy[k] <=>
                \E c \in ChainsOf[k] : p \in Effects[k][c][Len(LinesOf[k][c]) + 1].drop
<1>1. DroppedBy = [k \in Configuration \cup {Nothing} |->
        Drops(Whole(k), DockerChains \cup (IF k = Nothing THEN {} ELSE ChainsOf[k]))]
  BY TableIs DEF DroppedBy
<1>2. DroppedBy[Nothing] = {}
  <2>1. DroppedBy[Nothing] = Drops(Whole(Nothing), DockerChains \cup {})
    BY <1>1
  <2>2. \A c \in DockerChains : Effect(Whole(Nothing)[c], c).drop = {}
    <3>1. DockerChains \subseteq Chains
      BY DEF DockerChains, Chains
    <3>2. \A c \in Chains : Whole(Nothing)[c] = Stock
      BY DEF Whole
    <3> QED
      BY <3>1, <3>2 DEF Effect
  <2>3. UNION {Effect(Whole(Nothing)[c], c).drop : c \in DockerChains \cup {}} = {}
    BY <2>2
  <2> QED
    BY <2>1, <2>3 DEF Drops
<1>3. ASSUME NEW k \in Configuration, NEW p
      PROVE  p \in DroppedBy[k] <=>
               \E c \in ChainsOf[k] : p \in Effects[k][c][Len(LinesOf[k][c]) + 1].drop
  <2> DEFINE full(c) == Effects[k][c][Len(LinesOf[k][c]) + 1]
             out == "ZFW-FWD-OUT"
  <2>1. k # Nothing
    BY DEF Configuration, Nothing
  <2>2. ChainsOf[k] \subseteq Chains /\ DockerChains \subseteq ChainsOf[k]
    BY ChainsOfIs
  <2>3. DroppedBy[k] = Drops(Whole(k), ChainsOf[k])
    <3>1. DroppedBy[k] = Drops(Whole(k), DockerChains \cup ChainsOf[k])
      BY <1>1, <2>1
    <3>2. DockerChains \cup ChainsOf[k] = ChainsOf[k]
      BY <2>2
    <3> QED
      BY <3>1, <3>2
  <2>4. ASSUME NEW c \in ChainsOf[k] PROVE Effect(Whole(k)[c], c) = full(c)
    <3>1. c \in Chains /\ Len(LinesOf[k][c]) \in Nat \ {0}
      BY <2>2, LinesFit
    <3>2. Whole(k)[c] = [of |-> k, n |-> Len(LinesOf[k][c])]
      BY <2>1, <2>4, <3>1 DEF Whole
    <3>3. Whole(k)[c] # Stock
      BY <3>1, <3>2 DEF Stock
    <3> QED
      BY <3>2, <3>3 DEF Effect
  <2>5. ASSUME NEW c \in ChainsOf[k]
        PROVE  /\ full(c).drop \subseteq Own(c) /\ full(c).drop \cap full(c).accept = {}
               /\ c = out => full(c).accept \subseteq Own(c)
    <3>1. c \in Chains /\ Len(LinesOf[k][c]) \in 0 .. Len(LinesOf[k][c])
      BY <2>2, LinesFit
    <3> QED
      BY <3>1, ChainsDecide
  <2> HIDE DEF full, out
  <2>6. p \in Drops(Whole(k), ChainsOf[k]) <=>
          /\ \E c \in ChainsOf[k] : p \in full(c).drop
          /\ out \in ChainsOf[k] => p \notin full(out).accept
    <3>1. /\ p \in Drops(Whole(k), ChainsOf[k]) <=>
               /\ \E c \in ChainsOf[k] : p \in Effect(Whole(k)[c], c).drop
               /\ out \in ChainsOf[k] => p \notin Effect(Whole(k)[out], out).accept
      BY DropsIs DEF out
    <3> QED
      BY <2>4, <3>1
  <2>7. ASSUME NEW c \in ChainsOf[k], p \in full(c).drop, out \in ChainsOf[k]
        PROVE  p \notin full(out).accept
    <3>1. CASE c = out
      BY <2>5, <2>7, <3>1
    <3>2. CASE c # out
      BY <2>2, <2>5, <2>7, <3>2, OwnApart
    <3> QED
      BY <3>1, <3>2
  <2> QED
    BY <2>3, <2>6, <2>7 DEF full
<1> QED
  BY <1>2, <1>3

\* What the hooked chains of the kernel drop.
LEMMA DroppedIs ==
  ASSUME LiveInv, \A k \in Configuration : NamesPeers(RulesOf[k]), NEW p
  PROVE  p \in Dropped <=> \E c \in hooked : p \in Effect(kernel[c], c).drop
<1> DEFINE eff(c) == Effect(kernel[c], c)
           out == "ZFW-FWD-OUT"
<1>1. hooked \subseteq Chains
  BY DEF LiveInv
<1>2. p \in Dropped <=> /\ \E c \in hooked : p \in eff(c).drop
                        /\ out \in hooked => p \notin eff(out).accept
  BY DropsIs DEF Dropped
<1>3. \A c \in hooked : /\ eff(c).drop \subseteq Own(c) /\ eff(c).drop \cap eff(c).accept = {}
                        /\ c = out => eff(c).accept \subseteq Own(c)
  BY <1>1, HeldDecides
<1> HIDE DEF eff, out
<1>4. ASSUME NEW c \in hooked, p \in eff(c).drop, out \in hooked PROVE p \notin eff(out).accept
  <2>1. CASE c = out
    BY <1>3, <1>4, <2>1
  <2>2. CASE c # out
    BY <1>1, <1>3, <1>4, <2>2, OwnApart
  <2> QED
    BY <2>1, <2>2
<1> QED
  BY <1>2, <1>4 DEF eff

\* While the rules of every saved rule set name the peers of their outbound
\* container rules: at every moment of an apply, in either mode, a packet is
\* dropped only if the rules before the apply or the rules after it drop it.
THEOREM NothingIsLostOnTheWay ==
  ASSUME \A name \in Valid : NamesPeers(RuleSets[name])
  PROVE  Spec => []NothingLostOnTheWay
<1>1. \A k \in Configuration : NamesPeers(RulesOf[k])
  BY PeersStayNamed
<1>2. ASSUME LiveInv, Running, NEW p \in Dropped
      PROVE  p \in DroppedBy[live] \cup DroppedBy[script.of]
  <2>1. hooked \subseteq Chains
    BY <1>2 DEF LiveInv
  <2>2. PICK c \in hooked : p \in Effect(kernel[c], c).drop
    BY <1>1, <1>2, DroppedIs
  <2>3. kernel[c] # Stock
    BY <2>2 DEF Effect
  <2>0. PICK k \in {live, script.of} : k \in Configuration /\ \E n \in DOMAIN LinesOf[k][c] :
          kernel[c] = [of |-> k, n |-> n]
    BY <1>2, <2>1, <2>3, HeldIs
  <2>4. PICK n \in DOMAIN LinesOf[k][c] : kernel[c] = [of |-> k, n |-> n] /\ k \in Configuration
    BY <2>0
  <2>5. p \in Effects[k][c][n + 1].drop
    BY <2>2, <2>3, <2>4 DEF Effect
  <2>6. c \in ChainsOf[k]
    <3>1. Begun(c) /\ live \in Configuration \cup {Nothing}
      BY <1>2, <2>1 DEF LiveInv
    <3>2. CASE kernel[c] = Whole(live)[c]
      <4>1. kernel[c] = [of |-> live, n |-> Len(LinesOf[live][c])] /\ c \in ChainsOf[live]
        BY <2>1, <2>3, <3>1, <3>2, WholeIs DEF Whole
      <4> QED
        BY <2>4, <4>1
    <3>3. CASE c \in ChainsOf[script.of] /\ \E m \in DOMAIN LinesOf[script.of][c] :
                 kernel[c] = [of |-> script.of, n |-> m]
      BY <2>4, <3>3
    <3> QED
      BY <2>3, <3>1, <3>2, <3>3 DEF Begun
  <2>7. n \in 0 .. Len(LinesOf[k][c])
    BY <2>1, <2>4, LinesFit
  <2>8. p \in Effects[k][c][Len(LinesOf[k][c]) + 1].drop
    BY <2>1, <2>4, <2>5, <2>7, ChainsDecide
  <2>9. p \in DroppedBy[k]
    BY <1>1, <2>4, <2>6, <2>8, DroppedByIs
  <2> QED
    BY <2>0, <2>9
<1>3. LiveInv => NothingLostOnTheWay
  BY <1>2 DEF NothingLostOnTheWay
<1> QED
  BY <1>3, LiveInvHolds, PTL

\* Under the same condition: an apply in restore mode never opens what is
\* closed before it and after it, although it swaps the IPv4 and the IPv6 table
\* and hooks each chain one after the other.
THEOREM RestoreIsAlwaysAtomic ==
  ASSUME \A name \in Valid : NamesPeers(RuleSets[name])
  PROVE  Spec => []RestoreIsAtomic
<1>1. \A k \in Configuration : NamesPeers(RulesOf[k])
  BY PeersStayNamed
<1>2. ASSUME LiveInv, Running, script.mode = "restore",
             NEW p, p \in DroppedBy[live], p \in DroppedBy[script.of]
      PROVE  p \in Dropped
  <2> DEFINE k == script.of
             full(j, c) == Effects[j][c][Len(LinesOf[j][c]) + 1]
  <2>1. k \in Configuration /\ live \in Configuration \cup {Nothing}
    BY <1>2 DEF LiveInv
  <2>2. live \in Configuration
    BY <1>1, <1>2, <2>1, DroppedByIs
  <2>3. PICK c \in ChainsOf[live] : p \in full(live, c).drop
    BY <1>1, <1>2, <2>2, DroppedByIs
  <2>4. PICK d \in ChainsOf[k] : p \in full(k, d).drop
    BY <1>1, <1>2, <2>1, DroppedByIs
  <2>5. c \in Chains /\ d \in Chains
    BY <2>1, <2>2, ChainsOfIs
  <2>6. ASSUME NEW j \in Configuration, NEW x \in Chains PROVE full(j, x).drop \subseteq Own(x)
    <3>1. Len(LinesOf[j][x]) \in 0 .. Len(LinesOf[j][x])
      BY LinesFit
    <3> QED
      BY <1>1, <3>1, ChainsDecide
  <2>7. c = d
    BY <2>1, <2>2, <2>3, <2>4, <2>5, <2>6, OwnApart
  <2> HIDE DEF k
  <2>8. c \in hooked /\ kernel[c] \in {Whole(live)[c], Whole(k)[c]}
    <3>1. live # Nothing
      BY <2>2 DEF Configuration, Nothing
    <3> QED
      BY <1>2, <2>3, <2>4, <2>5, <2>7, <3>1 DEF LiveInv, HooksOf, k
  <2>9. ASSUME NEW j \in {live, k} PROVE Effect(Whole(j)[c], c) = full(j, c)
    <3>1. j \in Configuration /\ c \in ChainsOf[j] /\ j # Nothing
      BY <2>1, <2>2, <2>3, <2>4, <2>7 DEF Configuration, Nothing, k
    <3>2. Whole(j)[c] = [of |-> j, n |-> Len(LinesOf[j][c])]
      BY <2>5, <3>1 DEF Whole
    <3>3. Len(LinesOf[j][c]) \in Nat \ {0}
      BY <2>5, <3>1, LinesFit
    <3>4. Whole(j)[c] # Stock
      BY <3>2, <3>3 DEF Stock
    <3> QED
      BY <3>2, <3>4 DEF Effect
  <2> HIDE DEF full
  <2>10. p \in Effect(kernel[c], c).drop
    BY <2>3, <2>4, <2>7, <2>8, <2>9
  <2> QED
    BY <1>1, <1>2, <2>8, <2>10, DroppedIs
<1>3. LiveInv => RestoreIsAtomic
  BY <1>2 DEF RestoreIsAtomic
<1> QED
  BY <1>3, LiveInvHolds, PTL
=============================================================================
