--------------------------- MODULE ZfwListsProofs ---------------------------
(***************************************************************************)
(* Theorems about ZfwLists, for every order of feeds and countries, every  *)
(* version of their lists and any number of requests and refreshes.        *)
(***************************************************************************)
EXTENDS ZfwLists, FiniteSetTheorems, TLAPS

USE OrderAssumption, NamesAssumption, VersionAssumption

-----------------------------------------------------------------------------
(* The feeds are the first lists *)

\* What a refresh counts through are feeds.
LEMMA FeedsComeFirst ==
  /\ Cardinality(Feed) \in 1 .. Len(Order)
  /\ \A i \in 1 .. Cardinality(Feed) : Order[i] \in Feed
<1> DEFINE Image(n) == {Order[i] : i \in 1 .. n}
<1>0. Len(Order) \in Nat
  OBVIOUS
<1>1. ASSUME NEW n \in 0 .. Len(Order)
      PROVE  IsFiniteSet(Image(n)) /\ Cardinality(Image(n)) <= n
  <2>1. IsFiniteSet(1 .. n) /\ Cardinality(1 .. n) = n
    <3>1. 1 \in Int /\ n \in Int /\ n >= 0
      BY <1>0
    <3>2. IsFiniteSet(1 .. n) /\ Cardinality(1 .. n) = IF 1 > n THEN 0 ELSE n - 1 + 1
      BY <3>1, FS_Interval
    <3> QED
      BY <3>1, <3>2
  <2>2. [i \in 1 .. n |-> Order[i]] \in Surjection(1 .. n, Image(n))
    BY DEF Surjection
  <2> HIDE DEF Image
  <2> QED
    BY <2>1, <2>2, FS_Surjection
<1>2. ASSUME NEW n \in 0 .. Len(Order), Feed \subseteq Image(n)
      PROVE  IsFiniteSet(Feed) /\ Cardinality(Feed) <= n
  <2>1. IsFiniteSet(Feed) /\ Cardinality(Feed) <= Cardinality(Image(n))
    BY <1>1, <1>2, FS_Subset
  <2> HIDE DEF Image
  <2> QED
    BY <1>1, <2>1, FS_CardinalityType
<1>3. Len(Order) \in Nat /\ DOMAIN Order = 1 .. Len(Order)
  OBVIOUS
<1>4. Feed \subseteq Image(Len(Order))
  BY <1>3 DEF List
<1>5. IsFiniteSet(Feed) /\ Cardinality(Feed) <= Len(Order)
  BY <1>2, <1>3, <1>4
<1>6. Cardinality(Feed) \in Nat /\ Cardinality(Feed) # 0
  BY <1>5, FS_CardinalityType, FS_EmptySet
<1>7. ASSUME NEW i \in 1 .. Cardinality(Feed), Order[i] \notin Feed
      PROVE  FALSE
  <2>1. i \in 1 .. Len(Order)
    BY <1>3, <1>5, <1>6
  <2>2. Feed \subseteq Image(i - 1)
    <3>1. ASSUME NEW f \in Feed PROVE f \in Image(i - 1)
      <4>1. PICK j \in 1 .. Len(Order) : f = Order[j]
        BY <1>3 DEF List
      <4>2. ~(i <= j)
        BY <1>3, <1>7, <2>1, <4>1
      <4>3. j \in 1 .. i - 1
        BY <2>1, <4>1, <4>2
      <4> QED
        BY SMTT(30), <4>1, <4>3
    <3> QED
      BY <3>1
  <2> HIDE DEF Image
  <2>3. Cardinality(Feed) <= i - 1
    BY <1>2, <1>3, <2>1, <2>2
  <2> QED
    BY <1>6, <2>1, <2>3
<1> QED
  BY <1>3, <1>5, <1>6, <1>7
-----------------------------------------------------------------------------
(* Types, places, and what a place says about the files *)

Places == {"idle", "protect", "fetch", "render", "write", "keep", "list", "load",
           "add", "swap", "destroy", "lock", "flush", "fill"}
Swapping == {"list", "load", "add", "swap", "destroy"}
Applying == {"flush", "fill"}

Turn == [pc : Places, op : {"none", "save", "apply", "refresh"},
         lan : LANs \cup {None}, at : 0 .. Len(Order), kept : SUBSET Entry]
ProcType == proc \in [Proc -> Turn]

\* Where a process is: refreshes swap, requests apply, and do so under the lock.
Place(p) ==
  /\ At(p, "idle") => proc[p] = Idle
  /\ At(p, "idle") \/ (proc[p].at \in 1 .. Last(p) /\ proc[p].lan \in LANs)
  /\ p \in Request => proc[p].pc \notin Swapping /\ (proc[p].pc \in Applying <=> mu = p)
  /\ p \in Refresher => proc[p].pc \notin Applying \cup {"lock"}
  /\ At(p, "keep") => Here(p) \in Feed
PlaceInv == \A p \in Proc : Place(p)

\* How many of its lists a request has rendered.
Rendered(p) ==
  IF proc[p].pc \in Applying \cup {"lock"} THEN Len(Order)
  ELSE IF At(p, "keep") THEN proc[p].at ELSE proc[p].at - 1

\* What a process has been through is there: the protected LAN, the cached
\* list, the ipset files.
Behind(p) ==
  /\ ~At(p, "idle") /\ ~At(p, "protect") => protected \in LANs
  /\ At(p, "render") => cache[Here(p)] # 0
  /\ At(p, "fill") => live[Here(p)] # None
  /\ p \in Request => \A i \in 1 .. Rendered(p) : file[Order[i]] # None
BehindInv == \A p \in Proc : Behind(p)

FreshInv == \A l \in List : fresh[l] => cache[l] # 0

TypeInv == TypeOK /\ ProcType /\ PlaceInv /\ BehindInv /\ FreshInv

\* The indexes, and the lists they stand for.
LEMMA Indexes ==
  /\ Len(Order) \in Nat /\ Len(Order) >= 1
  /\ \A i \in 1 .. Len(Order) : i \in DOMAIN Order /\ Order[i] \in List
  /\ \A p \in Proc : Last(p) \in 1 .. Len(Order)
  /\ \A p \in Refresher : p \notin Request /\ \A i \in 1 .. Last(p) : Order[i] \in Feed
  /\ 0 \notin Versions /\ 1 \in Versions
<1>1. Len(Order) \in Nat /\ DOMAIN Order = 1 .. Len(Order)
  OBVIOUS
<1>2. Cardinality(Feed) \in 1 .. Len(Order)
  BY SMTT(30), FeedsComeFirst
<1>3. \A i \in 1 .. Len(Order) : i \in DOMAIN Order /\ Order[i] \in List
  BY <1>1 DEF List
<1>4. \A p \in Proc : Last(p) \in 1 .. Len(Order)
  BY <1>1, <1>2 DEF Last
<1>5. \A p \in Refresher : p \notin Request /\ Last(p) = Cardinality(Feed)
  BY DEF Last
<1>6. 0 \notin Versions /\ 1 \in Versions
  <2>1. Len(Version) \in Nat /\ Len(Version) # 0
    OBVIOUS
  <2> QED
    BY <2>1
<1> QED
  BY <1>1, <1>2, <1>3, <1>4, <1>5, <1>6, FeedsComeFirst

\* What the filter leaves of a cached list are entries.
LEMMA FilteredType ==
  ASSUME TypeOK, NEW l \in List, cache[l] # 0
  PROVE  filtered(l) \in SUBSET Entry
<1>1. cache[l] \in Versions
  BY DEF TypeOK
<1>2. Version[cache[l]] \subseteq Entry
  BY <1>1 DEF Entry
<1> QED
  BY <1>2 DEF filtered

-----------------------------------------------------------------------------
(* Where the steps lead *)

\* The initial states have the types.
LEMMA TypeInit == Init => TypeInv
<1> SUFFICES ASSUME Init PROVE TypeInv
  OBVIOUS
<1>1. TypeOK
  BY Indexes DEF Init, TypeOK, Idle
<1>2. ProcType
  BY Indexes DEF Init, ProcType, Turn, Idle, Places
<1>3. PlaceInv
  BY DEF Init, PlaceInv, Place, At, Idle, Swapping, Applying, Proc
<1>4. BehindInv
  BY Indexes DEF Init, BehindInv, Behind, At, Idle, Rendered, Applying
<1>5. FreshInv
  BY DEF Init, FreshInv
<1> QED
  BY <1>1, <1>2, <1>3, <1>4, <1>5 DEF TypeInv

\* A process under way is at one of its lists; a refresh only at feeds.
LEMMA Working ==
  ASSUME TypeInv, NEW p \in Proc, ~At(p, "idle")
  PROVE  /\ proc[p].at \in 1 .. Last(p) /\ proc[p].at \in 1 .. Len(Order)
         /\ Here(p) \in List
         /\ p \in Refresher => Here(p) \in Feed
         /\ proc[p].lan \in LANs
BY Indexes DEF TypeInv, PlaceInv, Place, ProcType, Turn, Here

\* A process that stays with its list keeps its type.
LEMMA StayType ==
  ASSUME TypeInv, NEW p \in Proc, ~At(p, "idle"), NEW place \in Places, NEW kept \in SUBSET Entry,
         Goto(p, place) \/ Hold(p, kept, place)
  PROVE  /\ ProcType'
         /\ \A q \in Proc \ {p} : proc'[q] = proc[q]
         /\ proc'[p].pc = place /\ proc'[p].at = proc[p].at /\ proc'[p].lan = proc[p].lan
         /\ proc'[p].op = proc[p].op
         /\ proc'[p].kept \in {proc[p].kept, kept}
<1>1. proc[p] \in Turn
  BY DEF TypeInv, ProcType
<1>2. PICK k \in {proc[p].kept, kept} :
        proc' = [proc EXCEPT ![p] = [proc[p] EXCEPT !.pc = place, !.kept = k]]
  <2>1. CASE Goto(p, place)
    <3>1. [proc[p] EXCEPT !.pc = place] = [proc[p] EXCEPT !.pc = place, !.kept = proc[p].kept]
      BY <1>1 DEF Turn
    <3> QED
      BY <2>1, <3>1 DEF Goto
  <2>2. CASE Hold(p, kept, place)
    BY <2>2 DEF Hold
  <2> QED
    BY <2>1, <2>2
<1>3. [proc[p] EXCEPT !.pc = place, !.kept = k] \in Turn
  BY <1>1 DEF Turn
<1> QED
  BY <1>1, <1>2, <1>3 DEF TypeInv, ProcType, Turn

\* Going to another place, to another list, changes these fields.
LEMMA OtherTurn ==
  ASSUME NEW t \in Turn, NEW place, NEW i, NEW kept
  PROVE  [t EXCEPT !.pc = place, !.at = i, !.kept = kept]
           = [pc |-> place, op |-> t.op, lan |-> t.lan, at |-> i, kept |-> kept]
<1> DEFINE One == [pc : {place}, op : {t.op}, lan : {t.lan}, at : {i}, kept : {kept}]
<1>1. [t EXCEPT !.pc = place, !.at = i, !.kept = kept] \in One
  BY DEF Turn
<1>2. ASSUME NEW r \in One
      PROVE  r = [pc |-> place, op |-> t.op, lan |-> t.lan, at |-> i, kept |-> kept]
  OBVIOUS
<1> HIDE DEF One
<1> QED
  BY <1>1, <1>2

\* A process that goes on to its next list, or is done.
LEMMA NextListType ==
  ASSUME TypeInv, NEW p \in Proc, ~At(p, "idle"), NEW again \in Places, NEW after \in Places,
         NextList(p, again, after)
  PROVE  /\ ProcType'
         /\ \A q \in Proc \ {p} : proc'[q] = proc[q]
         /\ \/ /\ proc[p].at < Last(p)
               /\ proc'[p].pc = again /\ proc'[p].at = proc[p].at + 1 /\ proc'[p].lan = proc[p].lan
            \/ /\ proc[p].at = Last(p) /\ after # "idle"
               /\ proc'[p].pc = after /\ proc'[p].at = 1 /\ proc'[p].lan = proc[p].lan
            \/ /\ proc[p].at = Last(p) /\ after = "idle"
               /\ proc'[p] = Idle
<1>1. proc[p] \in Turn /\ proc[p].at \in 1 .. Last(p) /\ Last(p) \in 1 .. Len(Order)
  BY Working, Indexes DEF TypeInv, ProcType
<1>2. CASE proc[p].at < Last(p)
  <2>1. proc[p].at + 1 \in 0 .. Len(Order)
    BY <1>1, <1>2, Indexes
  <2> DEFINE u == [pc |-> again, op |-> proc[p].op, lan |-> proc[p].lan, at |-> proc[p].at + 1, kept |-> {}]
  <2>2. proc' = [proc EXCEPT ![p] = u]
    <3>1. [proc[p] EXCEPT !.pc = again, !.at = proc[p].at + 1, !.kept = {}] = u
      BY <1>1, OtherTurn
    <3> HIDE DEF u
    <3> QED
      BY <1>2, <3>1 DEF NextList
  <2>3. u \in Turn /\ u.pc = again /\ u.at = proc[p].at + 1 /\ u.lan = proc[p].lan
    BY <1>1, <2>1 DEF Turn
  <2> HIDE DEF u
  <2> QED
    BY <1>2, <2>2, <2>3 DEF TypeInv, ProcType
<1>3. CASE ~(proc[p].at < Last(p)) /\ after = "idle"
  <2>1. Idle \in Turn
    BY Indexes DEF Turn, Idle, Places
  <2>2. proc[p].at = Last(p)
    BY <1>1, <1>3, Indexes
  <2> QED
    BY <1>1, <1>3, <2>1, <2>2 DEF TypeInv, ProcType, NextList, Finish
<1>4. CASE ~(proc[p].at < Last(p)) /\ after # "idle"
  <2>1. 1 \in 0 .. Len(Order)
    BY Indexes
  <2> DEFINE u == [pc |-> after, op |-> proc[p].op, lan |-> proc[p].lan, at |-> 1, kept |-> {}]
  <2>2. proc' = [proc EXCEPT ![p] = u]
    <3>1. [proc[p] EXCEPT !.pc = after, !.at = 1, !.kept = {}] = u
      BY <1>1, OtherTurn
    <3> HIDE DEF u
    <3> QED
      BY <1>4, <3>1 DEF NextList
  <2>3. u \in Turn /\ u.pc = after /\ u.at = 1 /\ u.lan = proc[p].lan
    BY <1>1, <2>1 DEF Turn
  <2>4. proc[p].at = Last(p)
    BY <1>1, <1>4, Indexes
  <2> HIDE DEF u
  <2> QED
    BY <1>4, <2>2, <2>3, <2>4 DEF TypeInv, ProcType
<1> QED
  BY <1>2, <1>3, <1>4

\* What a step of p leaves of the other processes.
LEMMA Others ==
  ASSUME TypeInv, NEW p \in Proc,
         \A q \in Proc \ {p} : proc'[q] = proc[q],
         \A q \in Request \ {p} : mu' = q <=> mu = q,
         protected \in LANs => protected' \in LANs,
         \A l \in List : cache[l] # 0 => cache'[l] # 0,
         \A l \in List : file[l] # None => file'[l] # None,
         \A l \in List : live[l] # None => live'[l] # None,
         Place(p)', Behind(p)'
  PROVE  PlaceInv' /\ BehindInv'
<1>1. ASSUME NEW q \in Proc \ {p} PROVE Place(q)'
  BY <1>1 DEF TypeInv, PlaceInv, Place, At, Here, Last
<1>2. ASSUME NEW q \in Proc \ {p} PROVE Behind(q)'
  <2>1. Behind(q) /\ Place(q)
    BY <1>2 DEF TypeInv, PlaceInv, BehindInv
  <2>2. Rendered(q)' = Rendered(q)
    BY <1>2 DEF Rendered, At
  <2>3. ASSUME q \in Request, NEW i \in 1 .. Rendered(q) PROVE file'[Order[i]] # None
    <3>1. Rendered(q) <= Len(Order)
      BY <1>2, <2>1, Indexes DEF TypeInv, ProcType, Turn, Rendered, Place
    <3>2. Order[i] \in List
      BY <3>1, Indexes DEF TypeInv, ProcType, Turn, Rendered
    <3> QED
      BY <2>1, <2>3, <3>2 DEF Behind
  <2>4. At(q, "render") \/ At(q, "fill") => Here(q) \in List
    BY <1>2, Working DEF At
  <2> QED
    BY <1>2, <2>1, <2>2, <2>3, <2>4 DEF Behind, At, Here
<1> QED
  BY <1>1, <1>2 DEF PlaceInv, BehindInv

\* The variables but proc.
DataOK ==
  /\ upstream \in [ver : Versions, good : BOOLEAN]
  /\ cache \in [List -> {0} \cup Versions]
  /\ fresh \in [List -> BOOLEAN]
  /\ file \in [List -> {None} \cup SUBSET Entry]
  /\ lastKept \in [Feed -> SUBSET Entry]
  /\ protected \in LANs \cup {None}
  /\ saved \in LANs
  /\ live \in [List -> {None} \cup SUBSET Entry]
  /\ tmp \in [Feed -> {None} \cup SUBSET Entry]
  /\ loading \subseteq List
  /\ mu \in Request \cup {None}
  /\ FreshInv

LEMMA DataIsOK == TypeInv => DataOK
BY DEF TypeInv, TypeOK, DataOK

LEMMA Together ==
  ASSUME DataOK', ProcType', PlaceInv', BehindInv' PROVE TypeInv'
BY Indexes DEF TypeInv, DataOK, TypeOK, PlaceInv, Place, At

\* A process that is done with its list has rendered it, if it is a request.
LEMMA DoneLocal ==
  ASSUME TypeInv, NEW p \in Proc, ~At(p, "idle"), proc[p].pc \notin Applying \cup {"lock", "protect"},
         Done(p), UNCHANGED <<mu, protected>>,
         \A l \in List : file[l] # None => file'[l] # None,
         p \in Request => file'[Here(p)] # None
  PROVE  /\ ProcType' /\ Place(p)' /\ Behind(p)' /\ \A q \in Proc \ {p} : proc'[q] = proc[q]
         /\ proc'[p].pc \in {"fetch", "lock", "idle"}
<1> DEFINE after == IF p \in Request THEN "lock" ELSE "idle"
<1>1. "fetch" \in Places /\ after \in Places
  BY DEF Places
<1>2. NextList(p, "fetch", after)
  BY DEF Done
<1> HIDE DEF after
<1>3. /\ ProcType'
      /\ \A q \in Proc \ {p} : proc'[q] = proc[q]
      /\ \/ /\ proc[p].at < Last(p)
            /\ proc'[p].pc = "fetch" /\ proc'[p].at = proc[p].at + 1 /\ proc'[p].lan = proc[p].lan
         \/ /\ proc[p].at = Last(p) /\ after # "idle"
            /\ proc'[p].pc = after /\ proc'[p].at = 1 /\ proc'[p].lan = proc[p].lan
         \/ /\ proc[p].at = Last(p) /\ after = "idle"
            /\ proc'[p] = Idle
  BY <1>1, <1>2, NextListType
<1>4. /\ Place(p) /\ Behind(p) /\ proc[p].at \in 1 .. Last(p) /\ Last(p) \in 1 .. Len(Order)
      /\ proc[p].lan \in LANs
  BY Working, Indexes DEF TypeInv, PlaceInv, BehindInv
<1>5. Place(p)'
  BY <1>3, <1>4, Indexes DEF Place, At, Last, Idle, after, Swapping, Applying
<1>6. \A i \in 1 .. proc[p].at - 1 : p \in Request => file'[Order[i]] # None
  <2>1. p \in Request => Rendered(p) >= proc[p].at - 1
    BY <1>4 DEF Rendered, Place, Swapping, Applying
  <2>2. \A i \in 1 .. proc[p].at - 1 : Order[i] \in List
    BY <1>4, Indexes
  <2>3. p \in Request => Rendered(p) \in Nat
    BY <1>4, Indexes DEF Rendered
  <2> QED
    BY <1>4, <2>1, <2>2, <2>3 DEF Behind
<1>7. \A i \in 1 .. proc[p].at : p \in Request => file'[Order[i]] # None
  BY <1>4, <1>6 DEF Here
<1>8. Behind(p)'
  BY <1>3, <1>4, <1>7, Indexes DEF Behind, At, Rendered, Last, Applying, Idle, after
<1>9. proc'[p].pc \in {"fetch", "lock", "idle"}
  BY <1>3 DEF Idle, after
<1> QED
  BY <1>3, <1>5, <1>8, <1>9

-----------------------------------------------------------------------------
(* Every step keeps the types *)

LEMMA StartTyped ==
  ASSUME TypeInv, NEW p \in Proc, NEW op \in {"save", "apply", "refresh"}, NEW lan \in LANs,
         Start(p, op, lan)
  PROVE  TypeInv'
<1> DEFINE new == [Idle EXCEPT !.pc = "protect", !.op = op, !.lan = lan, !.at = 1]
<1>1. new = [pc |-> "protect", op |-> op, lan |-> lan, at |-> 1, kept |-> {}]
  <2> DEFINE One == [pc : {"protect"}, op : {op}, lan : {lan}, at : {1}, kept : {{}}]
  <2>1. new \in One
    BY DEF Idle
  <2>2. ASSUME NEW r \in One
        PROVE  r = [pc |-> "protect", op |-> op, lan |-> lan, at |-> 1, kept |-> {}]
    OBVIOUS
  <2> HIDE DEF One, new
  <2> QED
    BY <2>1, <2>2
<1>2. proc' = [proc EXCEPT ![p] = new]
  BY DEF Start
<1> HIDE DEF new
<1>3. new \in Turn
  BY <1>1, Indexes DEF Turn, Places
<1>4. proc'[p] = new /\ \A q \in Proc \ {p} : proc'[q] = proc[q]
  BY <1>2 DEF TypeInv, ProcType
<1>5. ProcType'
  BY <1>2, <1>3 DEF TypeInv, ProcType
<1>6. UNCHANGED <<upstream, disk, lastKept, protected, saved, kernel, mu>>
  BY DEF Start
<1>7. Place(p) /\ At(p, "idle")
  BY DEF TypeInv, PlaceInv, Start
<1>8. Place(p)'
  BY <1>1, <1>4, <1>6, <1>7, Indexes DEF Place, At, Last, Swapping, Applying, Idle
<1>9. Behind(p)'
  BY <1>1, <1>4, Indexes DEF Behind, At, Rendered, Applying
<1>10. PlaceInv' /\ BehindInv'
  <2>1. UNCHANGED <<cache, file, live, protected, mu>>
    BY <1>6 DEF disk, kernel
  <2> QED
    BY <1>4, <1>8, <1>9, <2>1, Others
<1>11. DataOK'
  BY <1>6, DataIsOK DEF DataOK, FreshInv, disk, kernel
<1> QED
  BY <1>5, <1>10, <1>11, Together

LEMMA ProtectTyped ==
  ASSUME TypeInv, NEW p \in Proc, Protect(p) PROVE TypeInv'
<1>1. ~At(p, "idle") /\ "fetch" \in Places /\ Goto(p, "fetch")
  BY DEF Protect, At, Places
<1>2. /\ ProcType'
      /\ \A q \in Proc \ {p} : proc'[q] = proc[q]
      /\ proc'[p].pc = "fetch" /\ proc'[p].at = proc[p].at /\ proc'[p].lan = proc[p].lan
  BY <1>1, StayType
<1>3. /\ UNCHANGED <<upstream, cache, fresh, file, lastKept, saved, live, tmp, loading, mu>>
      /\ protected' = proc[p].lan /\ At(p, "protect")
  BY DEF Protect, disk, kernel
<1>4. /\ proc[p].lan \in LANs /\ Place(p) /\ Behind(p)
      /\ proc[p].at \in 1 .. Last(p) /\ proc[p].at \in 1 .. Len(Order)
  BY <1>1, Working DEF TypeInv, PlaceInv, BehindInv
<1>5. Place(p)' /\ Behind(p)'
  BY <1>2, <1>3, <1>4 DEF Place, Behind, Rendered, At, Last, Swapping, Applying
<1>6. DataOK'
  BY <1>3, <1>4, DataIsOK DEF DataOK, FreshInv
<1> QED
  BY <1>2, <1>3, <1>4, <1>5, <1>6, Others, Together

LEMMA FetchTyped ==
  ASSUME TypeInv, NEW p \in Proc, Fetch(p) PROVE TypeInv'
<1>1. ~At(p, "idle") /\ At(p, "fetch") /\ "render" \in Places
  BY DEF Fetch, At, Places
<1>2. UNCHANGED <<upstream, file, lastKept, protected, saved, live, tmp, loading, mu>>
  BY DEF Fetch, kernel
<1>3. /\ proc[p].lan \in LANs /\ Place(p) /\ Behind(p) /\ Here(p) \in List
      /\ proc[p].at \in 1 .. Last(p) /\ proc[p].at \in 1 .. Len(Order)
  BY <1>1, Working DEF TypeInv, PlaceInv, BehindInv
<1>4. CASE FetchOver(p)
  <2>1. DataOK' /\ cache'[Here(p)] # 0 /\ \A l \in List : cache[l] # 0 => cache'[l] # 0
    BY <1>2, <1>3, <1>4, DataIsOK, Indexes DEF DataOK, FreshInv, FetchOver
  <2>2. /\ ProcType'
        /\ \A q \in Proc \ {p} : proc'[q] = proc[q]
        /\ proc'[p].pc = "render" /\ proc'[p].at = proc[p].at /\ proc'[p].lan = proc[p].lan
    BY <1>1, <1>4, StayType DEF FetchOver
  <2>3. Place(p)' /\ Behind(p)'
    BY <1>1, <1>2, <1>3, <2>1, <2>2 DEF Place, Behind, Rendered, At, Last, Here, Swapping, Applying
  <2> QED
    BY <1>2, <2>1, <2>2, <2>3, Others, Together
<1>5. CASE UNCHANGED <<cache, fresh>> /\ Goto(p, "render") /\ cache[Here(p)] # 0
  <2>1. DataOK'
    BY <1>2, <1>5, DataIsOK DEF DataOK, FreshInv
  <2>2. /\ ProcType'
        /\ \A q \in Proc \ {p} : proc'[q] = proc[q]
        /\ proc'[p].pc = "render" /\ proc'[p].at = proc[p].at /\ proc'[p].lan = proc[p].lan
    BY <1>1, <1>5, StayType
  <2>3. Place(p)' /\ Behind(p)'
    BY <1>1, <1>2, <1>3, <1>5, <2>2 DEF Place, Behind, Rendered, At, Last, Here, Swapping, Applying
  <2> QED
    BY <1>2, <1>5, <2>1, <2>2, <2>3, Others, Together
<1>6. CASE UNCHANGED <<cache, fresh>> /\ Finish(p)
  <2>1. DataOK'
    BY <1>2, <1>6, DataIsOK DEF DataOK, FreshInv
  <2>2. Idle \in Turn /\ proc'[p] = Idle /\ \A q \in Proc \ {p} : proc'[q] = proc[q]
    BY <1>6, Indexes DEF TypeInv, ProcType, Turn, Places, Idle, Finish
  <2>3. ProcType'
    BY <1>6, <2>2 DEF TypeInv, ProcType, Finish
  <2>4. Place(p)' /\ Behind(p)'
    BY <1>1, <1>2, <1>3, <2>2 DEF Place, Behind, Rendered, At, Idle, Swapping, Applying
  <2> QED
    BY <1>2, <1>6, <2>1, <2>2, <2>3, <2>4, Others, Together
<1>7. CASE UNCHANGED <<cache, fresh>> /\ Done(p) /\ p \notin Request
  <2>1. DataOK'
    BY <1>2, <1>7, DataIsOK DEF DataOK, FreshInv
  <2>2. ProcType' /\ Place(p)' /\ Behind(p)' /\ \A q \in Proc \ {p} : proc'[q] = proc[q]
    BY <1>1, <1>2, <1>7, DoneLocal DEF At, Applying
  <2> QED
    BY <1>2, <1>7, <2>1, <2>2, Others, Together
<1>8. \/ FetchOver(p)
      \/ /\ UNCHANGED <<cache, fresh>>
         /\ \/ Goto(p, "render") /\ (cache[Here(p)] # 0 \/ fresh[Here(p)])
            \/ Finish(p)
            \/ Done(p) /\ p \notin Request
  BY Indexes DEF Fetch, Proc
<1>9. fresh[Here(p)] => cache[Here(p)] # 0
  BY <1>3 DEF TypeInv, FreshInv
<1> QED
  BY <1>4, <1>5, <1>6, <1>7, <1>8, <1>9

LEMMA RenderTyped ==
  ASSUME TypeInv, NEW p \in Proc, Render(p) PROVE TypeInv'
<1>1. ~At(p, "idle") /\ At(p, "render")
  BY DEF Render, At
<1>2. UNCHANGED <<upstream, cache, fresh, file, lastKept, protected, saved, live, tmp, loading, mu>>
  BY DEF Render, disk, kernel
<1>3. /\ proc[p].lan \in LANs /\ Place(p) /\ Behind(p) /\ Here(p) \in List
      /\ (p \in Refresher \/ At(p, "keep") => Here(p) \in Feed)
      /\ proc[p].at \in 1 .. Last(p) /\ proc[p].at \in 1 .. Len(Order)
  BY <1>1, Working DEF TypeInv, PlaceInv, Place, BehindInv
<1>4. filtered(Here(p)) \in SUBSET Entry /\ "write" \in Places
  BY <1>1, <1>3, FilteredType DEF TypeInv, Behind, At, Places
<1>5. DataOK'
  BY <1>2, DataIsOK DEF DataOK, FreshInv
<1>6. CASE Hold(p, filtered(Here(p)), "write")
  <2>1. /\ ProcType'
        /\ \A q \in Proc \ {p} : proc'[q] = proc[q]
        /\ proc'[p].pc = "write" /\ proc'[p].at = proc[p].at /\ proc'[p].lan = proc[p].lan
    BY <1>1, <1>4, <1>6, StayType
  <2>2. Place(p)' /\ Behind(p)'
    BY <1>1, <1>2, <1>3, <2>1 DEF Place, Behind, Rendered, At, Last, Here, Swapping, Applying
  <2> QED
    BY <1>2, <1>5, <2>1, <2>2, Others, Together
<1>7. CASE Finish(p)
  <2>1. Idle \in Turn /\ proc'[p] = Idle /\ \A q \in Proc \ {p} : proc'[q] = proc[q]
    BY <1>7, Indexes DEF TypeInv, ProcType, Turn, Places, Idle, Finish
  <2>2. ProcType'
    BY <1>7, <2>1 DEF TypeInv, ProcType, Finish
  <2>3. Place(p)' /\ Behind(p)'
    BY <1>1, <1>2, <1>3, <2>1 DEF Place, Behind, Rendered, At, Idle, Swapping, Applying
  <2> QED
    BY <1>2, <1>5, <2>1, <2>2, <2>3, Others, Together
<1>8. CASE Done(p) /\ p \notin Request
  <2>1. ProcType' /\ Place(p)' /\ Behind(p)' /\ \A q \in Proc \ {p} : proc'[q] = proc[q]
    BY <1>1, <1>2, <1>8, DoneLocal DEF At, Applying
  <2> QED
    BY <1>2, <1>5, <2>1, Others, Together
<1> QED
  BY <1>6, <1>7, <1>8 DEF Render

LEMMA WriteTyped ==
  ASSUME TypeInv, NEW p \in Proc, Write(p) PROVE TypeInv'
<1>1. ~At(p, "idle") /\ At(p, "write")
  BY DEF Write, At
<1>2. UNCHANGED <<upstream, cache, fresh, lastKept, protected, saved, live, tmp, loading, mu>>
  BY DEF Write, kernel
<1>3. /\ proc[p].lan \in LANs /\ Place(p) /\ Behind(p) /\ Here(p) \in List
      /\ (p \in Refresher \/ At(p, "keep") => Here(p) \in Feed)
      /\ proc[p].at \in 1 .. Last(p) /\ proc[p].at \in 1 .. Len(Order)
  BY <1>1, Working DEF TypeInv, PlaceInv, Place, BehindInv
<1>4. proc[p].kept \in SUBSET Entry /\ "keep" \in Places
  BY DEF TypeInv, ProcType, Turn, Places
<1>5. DataOK' /\ file'[Here(p)] # None /\ \A l \in List : file[l] # None => file'[l] # None
  BY <1>2, <1>3, <1>4, DataIsOK DEF DataOK, FreshInv, Write
<1>6. CASE Here(p) \in Feed
  <2>1. /\ ProcType'
        /\ \A q \in Proc \ {p} : proc'[q] = proc[q]
        /\ proc'[p].pc = "keep" /\ proc'[p].at = proc[p].at /\ proc'[p].lan = proc[p].lan
    BY <1>1, <1>4, <1>6, StayType DEF Write
  <2>2. Place(p)'
    BY <1>1, <1>2, <1>3, <1>6, <2>1 DEF Place, At, Last, Here, Swapping, Applying
  <2>3. \A i \in 1 .. proc[p].at : p \in Request => file'[Order[i]] # None
    BY <1>1, <1>3, <1>5, Indexes DEF Behind, Rendered, Here, At, Applying
  <2>4. Behind(p)'
    BY <1>1, <1>2, <1>3, <2>1, <2>3 DEF Behind, Rendered, At, Applying
  <2> QED
    BY <1>2, <1>5, <2>1, <2>2, <2>4, Others, Together
<1>7. CASE Here(p) \notin Feed
  <2>1. Done(p)
    BY <1>7 DEF Write
  <2>2. ProcType' /\ Place(p)' /\ Behind(p)' /\ \A q \in Proc \ {p} : proc'[q] = proc[q]
    BY <1>1, <1>2, <1>5, <2>1, DoneLocal DEF At, Applying
  <2> QED
    BY <1>2, <1>5, <2>2, Others, Together
<1> QED
  BY <1>6, <1>7

LEMMA KeepTyped ==
  ASSUME TypeInv, NEW p \in Proc, Keep(p) PROVE TypeInv'
<1>1. ~At(p, "idle") /\ At(p, "keep")
  BY DEF Keep, At
<1>2. UNCHANGED <<upstream, cache, fresh, file, protected, saved, live, tmp, loading, mu>>
  BY DEF Keep, disk, kernel
<1>3. /\ proc[p].lan \in LANs /\ Place(p) /\ Behind(p) /\ Here(p) \in List
      /\ (p \in Refresher \/ At(p, "keep") => Here(p) \in Feed)
      /\ proc[p].at \in 1 .. Last(p) /\ proc[p].at \in 1 .. Len(Order)
  BY <1>1, Working DEF TypeInv, PlaceInv, Place, BehindInv
<1>4. proc[p].kept \in SUBSET Entry /\ "list" \in Places
  BY DEF TypeInv, ProcType, Turn, Places
<1>5. DataOK'
  BY <1>1, <1>2, <1>3, <1>4, DataIsOK DEF DataOK, FreshInv, Keep
<1>6. CASE p \in Refresher
  <2>1. /\ ProcType'
        /\ \A q \in Proc \ {p} : proc'[q] = proc[q]
        /\ proc'[p].pc = "list" /\ proc'[p].at = proc[p].at /\ proc'[p].lan = proc[p].lan
    BY <1>1, <1>4, <1>6, StayType DEF Keep
  <2>2. Place(p)' /\ Behind(p)'
    BY <1>1, <1>2, <1>3, <1>6, <2>1, Indexes
    DEF Place, Behind, Rendered, At, Last, Here, Swapping, Applying
  <2> QED
    BY <1>2, <1>5, <2>1, <2>2, Others, Together
<1>7. CASE p \notin Refresher
  <2>1. Done(p)
    BY <1>7 DEF Keep
  <2>2. p \in Request => file[Here(p)] # None
    BY <1>1, <1>3 DEF Behind, Rendered, At, Here, Applying
  <2>3. ProcType' /\ Place(p)' /\ Behind(p)' /\ \A q \in Proc \ {p} : proc'[q] = proc[q]
    <3>1. file'[Here(p)] = file[Here(p)]
      BY <1>1, <1>2, <1>3
    <3> QED
      BY <1>1, <1>2, <2>1, <2>2, <3>1, DoneLocal DEF At, Applying
  <2> QED
    BY <1>2, <1>5, <2>3, Others, Together
<1> QED
  BY <1>6, <1>7

\* swapLive: the process moves on within it, or is done with its list.
LEMMA SwapMoves ==
  ASSUME TypeInv, NEW p \in Proc, proc[p].pc \in Swapping,
         NEW place \in Swapping, NEW kept \in SUBSET Entry,
         Done(p) \/ Goto(p, place) \/ Hold(p, kept, place),
         UNCHANGED <<upstream, cache, fresh, file, lastKept, protected, saved, mu>>,
         live' \in [List -> {None} \cup SUBSET Entry],
         \A l \in List : live[l] # None => live'[l] # None,
         tmp' \in [Feed -> {None} \cup SUBSET Entry],
         loading' \subseteq loading
  PROVE  TypeInv'
<1>1. ~At(p, "idle") /\ proc[p].pc \notin Applying \cup {"lock", "protect"} /\ place \in Places
  BY DEF At, Swapping, Applying, Places
<1>2. Place(p) /\ Behind(p) /\ p \notin Request
  BY DEF TypeInv, PlaceInv, BehindInv, Place
<1>3. DataOK'
  BY DataIsOK DEF DataOK, FreshInv
<1>4. CASE Done(p)
  <2>1. ProcType' /\ Place(p)' /\ Behind(p)' /\ \A q \in Proc \ {p} : proc'[q] = proc[q]
    BY <1>1, <1>2, <1>4, DoneLocal
  <2> QED
    BY <1>3, <2>1, Others, Together
<1>5. CASE Goto(p, place) \/ Hold(p, kept, place)
  <2>1. /\ ProcType'
        /\ \A q \in Proc \ {p} : proc'[q] = proc[q]
        /\ proc'[p].pc = place /\ proc'[p].at = proc[p].at /\ proc'[p].lan = proc[p].lan
    BY <1>1, <1>5, StayType
  <2>2. Place(p)' /\ Behind(p)'
    BY <1>1, <1>2, <2>1 DEF Place, Behind, At, Last, Swapping, Applying
  <2> QED
    BY <1>3, <2>1, <2>2, Others, Together
<1> QED
  BY <1>4, <1>5

LEMMA SwappingTyped ==
  ASSUME TypeInv, NEW p \in Proc,
         ListLive(p) \/ Load(p) \/ Add(p) \/ LoadFails(p) \/ Swap(p) \/ Destroy(p)
  PROVE  TypeInv'
<1>1. proc[p].pc \in Swapping /\ {"list", "load", "add", "swap", "destroy"} = Swapping
  BY DEF ListLive, Load, Add, LoadFails, Swap, Destroy, At, Swapping
<1>2. Here(p) \in Feed /\ Here(p) \in List
  BY <1>1, Working DEF At, Swapping, TypeInv, PlaceInv, Place, Proc
<1>3. /\ DataOK /\ UNCHANGED <<upstream, cache, fresh, file, lastKept, protected, saved, mu>>
      /\ proc[p].kept \in SUBSET Entry
  BY DataIsOK DEF ListLive, Load, Add, LoadFails, Swap, Destroy, disk, kernel, TypeInv, ProcType, Turn
<1>4. CASE ListLive(p)
  <2>1. UNCHANGED <<live, tmp, loading>> /\ lastKept[Here(p)] \in SUBSET Entry
    BY <1>2, <1>3, <1>4 DEF ListLive, kernel, DataOK
  <2> QED
    BY <1>1, <1>3, <1>4, <2>1, SwapMoves DEF ListLive, DataOK
<1>5. CASE Load(p)
  <2>1. UNCHANGED <<live, loading>> /\ tmp' \in [Feed -> {None} \cup SUBSET Entry]
    BY <1>2, <1>3, <1>5 DEF Load, DataOK
  <2>2. Done(p) \/ \E place \in Swapping : Goto(p, place)
    BY <1>1, <1>5 DEF Load
  <2>3. live' \in [List -> {None} \cup SUBSET Entry]
    BY <1>3, <2>1 DEF DataOK
  <2> QED
    BY <1>1, <1>3, <1>5, <2>1, <2>2, <2>3, SwapMoves
<1>6. CASE Add(p)
  <2>1. UNCHANGED <<live, loading>> /\ tmp' \in [Feed -> {None} \cup SUBSET Entry]
    BY <1>2, <1>3, <1>6 DEF Add, DataOK
  <2>2. Done(p) \/ \E place \in Swapping : Goto(p, place)
    BY <1>1, <1>6 DEF Add
  <2>3. live' \in [List -> {None} \cup SUBSET Entry]
    BY <1>3, <2>1 DEF DataOK
  <2> QED
    BY <1>1, <1>3, <1>6, <2>1, <2>2, <2>3, SwapMoves
<1>7. CASE LoadFails(p)
  <2>1. UNCHANGED <<live, loading>> /\ tmp' \in [Feed -> {None} \cup SUBSET Entry]
    BY <1>2, <1>3, <1>7 DEF LoadFails, DataOK
  <2>2. Done(p) \/ \E place \in Swapping : Goto(p, place)
    BY <1>1, <1>7 DEF LoadFails
  <2>3. live' \in [List -> {None} \cup SUBSET Entry]
    BY <1>3, <2>1 DEF DataOK
  <2> QED
    BY <1>1, <1>3, <1>7, <2>1, <2>2, <2>3, SwapMoves
<1>8. CASE Swap(p)
  <2>1. /\ live' \in [List -> {None} \cup SUBSET Entry]
        /\ tmp' \in [Feed -> {None} \cup SUBSET Entry]
        /\ \A l \in List : live[l] # None => live'[l] # None
    BY ZenonT(60), <1>2, <1>3, <1>8 DEF Swap, DataOK, kernel
  <2>2. loading' \subseteq loading
    BY <1>8 DEF Swap, kernel
  <2> QED
    BY <1>1, <1>3, <1>8, <2>1, <2>2, SwapMoves DEF Swap, DataOK
<1>9. CASE Destroy(p)
  <2>1. UNCHANGED <<live, loading>> /\ tmp' \in [Feed -> {None} \cup SUBSET Entry]
    BY <1>2, <1>3, <1>9 DEF Destroy, DataOK
  <2>2. Done(p) \/ \E place \in Swapping : Goto(p, place)
    BY <1>1, <1>9 DEF Destroy
  <2>3. live' \in [List -> {None} \cup SUBSET Entry]
    BY <1>3, <2>1 DEF DataOK
  <2> QED
    BY <1>1, <1>3, <1>9, <2>1, <2>2, <2>3, SwapMoves
<1> QED
  BY <1>4, <1>5, <1>6, <1>7, <1>8, <1>9

LEMMA LockTyped ==
  ASSUME TypeInv, NEW p \in Proc, Lock(p) PROVE TypeInv'
<1>1. ~At(p, "idle") /\ At(p, "lock") /\ "flush" \in Places /\ mu = None
  BY DEF Lock, At, Places
<1>2. UNCHANGED <<upstream, cache, fresh, file, lastKept, protected, live, tmp, loading>>
  BY DEF Lock, disk, kernel
<1>3. /\ proc[p].lan \in LANs /\ Place(p) /\ Behind(p) /\ p \in Request
      /\ proc[p].at \in 1 .. Last(p) /\ proc[p].at \in 1 .. Len(Order)
  BY <1>1, Working DEF TypeInv, PlaceInv, Place, BehindInv, At, Proc
<1>4. DataOK'
  BY <1>2, <1>3, DataIsOK DEF DataOK, FreshInv, Lock
<1>5. CASE Finish(p) /\ UNCHANGED mu
  <2>1. Idle \in Turn /\ proc'[p] = Idle /\ \A q \in Proc \ {p} : proc'[q] = proc[q]
    BY <1>5, Indexes DEF TypeInv, ProcType, Turn, Places, Idle, Finish
  <2>2. ProcType'
    BY <1>5, <2>1 DEF TypeInv, ProcType, Finish
  <2>3. Place(p)' /\ Behind(p)'
    BY <1>1, <1>2, <1>3, <1>5, <2>1 DEF Place, Behind, Rendered, At, Idle, Swapping, Applying
  <2> QED
    BY <1>2, <1>4, <1>5, <2>1, <2>2, <2>3, Others, Together
<1>6. CASE mu' = p /\ Goto(p, "flush")
  <2>1. /\ ProcType'
        /\ \A q \in Proc \ {p} : proc'[q] = proc[q]
        /\ proc'[p].pc = "flush" /\ proc'[p].at = proc[p].at /\ proc'[p].lan = proc[p].lan
    BY <1>1, <1>6, StayType
  <2>2. Place(p)' /\ Behind(p)'
    BY <1>1, <1>2, <1>3, <1>6, <2>1 DEF Place, Behind, Rendered, At, Last, Here, Swapping, Applying
  <2>3. \A q \in Request \ {p} : mu' = q <=> mu = q
    BY <1>1, <1>6 DEF Proc
  <2> QED
    BY <1>2, <1>4, <2>1, <2>2, <2>3, Others, Together
<1> QED
  BY <1>5, <1>6 DEF Lock

LEMMA FlushTyped ==
  ASSUME TypeInv, NEW p \in Proc, Flush(p) PROVE TypeInv'
<1>1. ~At(p, "idle") /\ At(p, "flush") /\ "fill" \in Places
  BY DEF Flush, At, Places
<1>2. UNCHANGED <<upstream, cache, fresh, file, lastKept, protected, saved, tmp, mu>>
  BY DEF Flush, disk
<1>3. /\ proc[p].lan \in LANs /\ Place(p) /\ Behind(p) /\ p \in Request /\ Here(p) \in List
      /\ proc[p].at \in 1 .. Last(p) /\ proc[p].at \in 1 .. Len(Order)
  BY <1>1, Working DEF TypeInv, PlaceInv, Place, BehindInv, At, Proc, Applying
<1>4. file[Here(p)] \in SUBSET Entry
  BY <1>1, <1>3, DataIsOK DEF DataOK, Behind, Rendered, Here, At, Applying
<1>5. DataOK' /\ live'[Here(p)] # None /\ \A l \in List : live[l] # None => live'[l] # None
  BY <1>2, <1>3, DataIsOK DEF DataOK, FreshInv, Flush
<1>6. /\ ProcType'
      /\ \A q \in Proc \ {p} : proc'[q] = proc[q]
      /\ proc'[p].pc = "fill" /\ proc'[p].at = proc[p].at /\ proc'[p].lan = proc[p].lan
  BY <1>1, <1>4, StayType DEF Flush
<1>7. Place(p)' /\ Behind(p)'
  BY <1>1, <1>2, <1>3, <1>5, <1>6 DEF Place, Behind, Rendered, At, Last, Here, Swapping, Applying
<1> QED
  BY <1>2, <1>5, <1>6, <1>7, Others, Together

LEMMA FillTyped ==
  ASSUME TypeInv, NEW p \in Proc, Fill(p) PROVE TypeInv'
<1>1. ~At(p, "idle") /\ At(p, "fill") /\ {"flush", "idle"} \subseteq Places
  BY DEF Fill, At, Places
<1>2. UNCHANGED <<upstream, cache, fresh, file, lastKept, protected, saved, tmp>>
  BY DEF Fill, disk
<1>3. /\ proc[p].lan \in LANs /\ Place(p) /\ Behind(p) /\ p \in Request /\ Here(p) \in List
      /\ proc[p].at \in 1 .. Last(p) /\ proc[p].at \in 1 .. Len(Order)
  BY <1>1, Working DEF TypeInv, PlaceInv, Place, BehindInv, At, Proc, Applying
<1>4. mu = p /\ mu' = IF proc[p].at < Last(p) THEN mu ELSE None
  BY <1>1, <1>3 DEF Place, At, Applying, Fill
<1>5. proc[p].kept \in SUBSET Entry
  BY DEF TypeInv, ProcType, Turn
<1>6. live[Here(p)] # None
  BY <1>1, <1>3 DEF Behind
<1>7. DataOK' /\ \A l \in List : live[l] # None => live'[l] # None
  BY <1>2, <1>3, <1>4, <1>5, <1>6, DataIsOK DEF DataOK, FreshInv, Fill
<1>8. /\ ProcType'
      /\ \A q \in Proc \ {p} : proc'[q] = proc[q]
      /\ \/ /\ proc[p].at < Last(p)
            /\ proc'[p].pc = "flush" /\ proc'[p].at = proc[p].at + 1 /\ proc'[p].lan = proc[p].lan
         \/ proc[p].at = Last(p) /\ proc'[p] = Idle
  BY <1>1, NextListType DEF Fill
<1>9. Place(p)' /\ Behind(p)'
  BY <1>1, <1>2, <1>3, <1>4, <1>8, Indexes
  DEF Place, Behind, Rendered, At, Last, Here, Swapping, Applying, Idle, Proc
<1>10. \A q \in Request \ {p} : mu' = q <=> mu = q
  BY <1>4 DEF Proc
<1> QED
  BY <1>2, <1>7, <1>8, <1>9, <1>10, Others, Together

LEMMA FillFailsTyped ==
  ASSUME TypeInv, NEW p \in Request, FillFails(p) PROVE TypeInv'
<1>1. p \in Proc /\ ~At(p, "idle") /\ At(p, "fill")
  BY DEF FillFails, At, Proc
<1>2. UNCHANGED <<upstream, cache, fresh, file, lastKept, protected, saved, tmp, loading>> /\ mu' = None
  BY DEF FillFails, disk
<1>3. Place(p) /\ Behind(p) /\ Here(p) \in List
  BY <1>1, Working DEF TypeInv, PlaceInv, BehindInv
<1>4. mu = p
  BY <1>1, <1>3 DEF Place, At, Applying
<1>5. proc[p].kept \in SUBSET Entry
  BY <1>1 DEF TypeInv, ProcType, Turn
<1>6. live[Here(p)] # None
  BY <1>1, <1>3 DEF Behind
<1>7. PICK part \in SUBSET proc[p].kept : live' = [live EXCEPT ![Here(p)] = live[Here(p)] \cup part]
  BY DEF FillFails
<1>8. DataOK' /\ \A l \in List : live[l] # None => live'[l] # None
  BY <1>2, <1>3, <1>5, <1>6, <1>7, DataIsOK DEF DataOK, FreshInv
<1>9. Idle \in Turn /\ proc'[p] = Idle /\ \A q \in Proc \ {p} : proc'[q] = proc[q]
  BY <1>1, Indexes DEF TypeInv, ProcType, Turn, Places, Idle, Finish, FillFails
<1>10. ProcType'
  BY <1>9 DEF TypeInv, ProcType, Finish, FillFails
<1>11. Place(p)' /\ Behind(p)'
  BY <1>1, <1>2, <1>3, <1>9 DEF Place, Behind, Rendered, At, Idle, Swapping, Applying, Proc
<1>12. \A q \in Request \ {p} : mu' = q <=> mu = q
  BY <1>1, <1>2, <1>4 DEF Proc
<1> QED
  BY <1>1, <1>2, <1>8, <1>9, <1>10, <1>11, <1>12, Others, Together

LEMMA EnvironmentTyped ==
  ASSUME TypeInv, Publisher \/ (\E l \in List : Ages(l)) \/ Restart PROVE TypeInv'
<1>1. CASE Publisher \/ \E l \in List : Ages(l)
  <2>1. UNCHANGED <<cache, file, lastKept, protected, saved, live, tmp, loading, mu, proc>>
    BY <1>1 DEF Publisher, Ages, disk, kernel
  <2>2. /\ upstream' \in [ver : Versions, good : BOOLEAN]
        /\ fresh' \in [List -> BOOLEAN] /\ FreshInv'
    <3>1. CASE Publisher
      <4>1. UNCHANGED fresh /\ upstream' \in [ver : Versions, good : BOOLEAN]
        BY <3>1, DataIsOK DEF DataOK, Publisher, disk
      <4> QED
        BY <2>1, <4>1, DataIsOK DEF DataOK, FreshInv
    <3>2. ASSUME NEW l \in List, Ages(l)
          PROVE  /\ upstream' \in [ver : Versions, good : BOOLEAN]
                 /\ fresh' \in [List -> BOOLEAN] /\ FreshInv'
      BY <2>1, <3>2, DataIsOK DEF DataOK, Ages, FreshInv
    <3> QED
      BY <1>1, <3>1, <3>2
  <2>3. DataOK' /\ ProcType'
    BY <2>1, <2>2, DataIsOK DEF DataOK, TypeInv, ProcType
  <2>4. PlaceInv' /\ BehindInv'
    BY <2>1 DEF TypeInv, PlaceInv, BehindInv, Place, Behind, Rendered, At, Here, Last
  <2> QED
    BY <2>3, <2>4, Together
<1>2. CASE Restart
  <2>1. /\ UNCHANGED <<upstream, cache, fresh, file, saved, live, tmp, loading>>
        /\ mu' = None /\ proc' = [p \in Proc |-> Idle]
        /\ lastKept' \in [Feed -> SUBSET Entry] /\ protected' = None
    BY <1>2 DEF Restart, disk, kernel
  <2>2. DataOK'
    BY <2>1, DataIsOK DEF DataOK, FreshInv
  <2>3. ProcType'
    BY <2>1, Indexes DEF ProcType, Turn, Idle, Places
  <2>4. PlaceInv'
    BY <2>1 DEF PlaceInv, Place, At, Idle, Swapping, Applying, Proc
  <2>5. BehindInv'
    <3>1. ASSUME NEW p \in Proc PROVE Behind(p)'
      <4>1. proc'[p].pc = "idle" /\ proc'[p].at = 0
        BY <2>1 DEF Idle
      <4>2. Rendered(p)' = 0 - 1
        BY <4>1 DEF Rendered, At, Applying
      <4> QED
        BY <4>1, <4>2 DEF Behind, At
    <3> QED
      BY <3>1 DEF BehindInv
  <2> QED
    BY <2>2, <2>3, <2>4, <2>5, Together
<1> QED
  BY <1>1, <1>2

LEMMA TypeStep == TypeInv /\ [Next]_vars => TypeInv'
<1> SUFFICES ASSUME TypeInv, [Next]_vars PROVE TypeInv'
  OBVIOUS
<1>1. CASE UNCHANGED vars
  BY <1>1 DEF vars, disk, kernel, bounds, TypeInv, TypeOK, ProcType, PlaceInv, BehindInv, FreshInv,
     Place, Behind, Rendered, At, Here, Last
<1>5. ASSUME NEW p \in Request, FillFails(p) PROVE TypeInv'
  BY <1>5, FillFailsTyped
<1>2. ASSUME NEW p \in Proc, Step(p) \/ LoadFails(p) PROVE TypeInv'
  BY <1>2, ProtectTyped, FetchTyped, RenderTyped, WriteTyped, KeepTyped, SwappingTyped,
     LockTyped, FlushTyped, FillTyped DEF Step
<1>3. ASSUME NEW p \in Request, PostApply(p) \/ \E lan \in LANs : PostRules(p, lan) PROVE TypeInv'
  BY <1>3, StartTyped, DataIsOK DEF PostApply, PostRules, DataOK, Proc
<1>4. ASSUME NEW p \in Refresher, RefreshFeeds(p) PROVE TypeInv'
  BY <1>4, StartTyped, DataIsOK DEF RefreshFeeds, DataOK, Proc
<1> QED
  BY <1>1, <1>2, <1>3, <1>4, <1>5, EnvironmentTyped DEF Next, Proc

\* Every process stays at its place: a refresh works on feeds only, an apply
\* alone has Server.mu, and finds what its Ensure left behind.
LEMMA ListsTyped == Spec => []TypeInv
BY TypeInit, TypeStep, PTL DEF Spec

\* The variables keep their types, the list a process is at included.
THEOREM ListsTypeCorrect == Spec => []TypeOK
<1>1. TypeInv => TypeOK
  BY DEF TypeInv
<1> QED
  BY <1>1, ListsTyped, PTL

-----------------------------------------------------------------------------
(* What a step does with the entries of a list *)

\* The places at which a process carries entries from one place to the next.
Carrying == {"write", "keep", "load", "add", "fill"}

\* What p carries, and from where it has it.
Carries(p) ==
  LET goes(from, to) == At(p, from) /\ proc'[p].pc = to
      keeps == proc'[p].kept = proc[p].kept IN
  \/ proc'[p].pc \notin Carrying \cup {"list", "swap"}
  \/ /\ Here(p)' = Here(p)
     /\ \/ /\ goes("render", "write")
           /\ proc'[p].kept = filtered(Here(p)) /\ filtered(Here(p)) # {}
        \/ goes("write", "keep") /\ keeps
        \/ goes("keep", "list") /\ lastKept'[Here(p)] = proc[p].kept
        \/ goes("list", "load") /\ proc'[p].kept = lastKept[Here(p)]
        \/ goes("load", "add") /\ keeps
        \/ /\ goes("add", "swap")
           /\ tmp[Here(p)] # None /\ tmp'[Here(p)] = tmp[Here(p)] \cup proc[p].kept
        \/ goes("flush", "fill") /\ p \in Request /\ proc'[p].kept = file[Here(p)]

\* What p leaves in the ipset file, lastKept, the live set, the temporary set.
Files(p) ==
  \/ file' = file
  \/ At(p, "write") /\ file' = [file EXCEPT ![Here(p)] = proc[p].kept]
Remembers(p) ==
  \/ lastKept' = lastKept
  \/ /\ At(p, "keep") /\ Here(p) \in Feed
     /\ lastKept' = [lastKept EXCEPT ![Here(p)] = proc[p].kept]
Lives(p) ==
  \/ live' = live /\ loading' = loading
  \/ /\ At(p, "swap") /\ Here(p) \in Feed /\ tmp[Here(p)] # None
     /\ live' = [live EXCEPT ![Here(p)] = tmp[Here(p)]]
     /\ loading' = loading \ {Here(p)}
  \/ live' = [live EXCEPT ![Here(p)] = {}] /\ loading' = loading \cup {Here(p)}
  \/ /\ At(p, "fill") /\ live[Here(p)] # None
     /\ \/ /\ live' = [live EXCEPT ![Here(p)] = live[Here(p)] \cup proc[p].kept]
           /\ loading' = loading \ {Here(p)}
        \/ \E part \in SUBSET proc[p].kept :
             live' = [live EXCEPT ![Here(p)] = live[Here(p)] \cup part] /\ loading' = loading
Temps(p) ==
  \/ tmp' = tmp
  \/ /\ p \in Refresher /\ Here(p) \in Feed
     /\ \/ \E X \in {{}, None, live[Here(p)]} : tmp' = [tmp EXCEPT ![Here(p)] = X]
        \/ /\ At(p, "add") /\ tmp[Here(p)] # None
           /\ tmp' = [tmp EXCEPT ![Here(p)] = tmp[Here(p)] \cup proc[p].kept]

LEMMA DonePlace ==
  ASSUME TypeInv, NEW p \in Proc, ~At(p, "idle"), Done(p)
  PROVE  /\ \A q \in Proc \ {p} : proc'[q] = proc[q]
         /\ proc'[p].pc \in {"fetch", "lock", "idle"}
<1> DEFINE after == IF p \in Request THEN "lock" ELSE "idle"
<1>1. "fetch" \in Places /\ after \in Places /\ NextList(p, "fetch", after)
  BY DEF Places, Done
<1>2. Idle.pc = "idle" /\ after \in {"lock", "idle"}
  BY DEF Idle
<1> HIDE DEF after
<1> QED
  BY <1>1, <1>2, NextListType

LEMMA GoesTo ==
  ASSUME TypeInv, NEW p \in Proc, NEW place, Goto(p, place)
  PROVE  /\ \A q \in Proc \ {p} : proc'[q] = proc[q]
         /\ proc'[p].pc = place /\ proc'[p].at = proc[p].at /\ proc'[p].kept = proc[p].kept
         /\ Here(p)' = Here(p)
<1>1. proc \in [Proc -> Turn] /\ proc' = [proc EXCEPT ![p] = [proc[p] EXCEPT !.pc = place]]
  BY DEF TypeInv, ProcType, Goto
<1>2. proc'[p] = [proc[p] EXCEPT !.pc = place] /\ \A q \in Proc \ {p} : proc'[q] = proc[q]
  BY <1>1
<1>3. ASSUME NEW t \in Turn
      PROVE  /\ [t EXCEPT !.pc = place].pc = place
             /\ [t EXCEPT !.pc = place].at = t.at /\ [t EXCEPT !.pc = place].kept = t.kept
  BY DEF Turn
<1>4. proc'[p].pc = place /\ proc'[p].at = proc[p].at /\ proc'[p].kept = proc[p].kept
  BY <1>1, <1>2, <1>3
<1> QED
  BY <1>2, <1>4 DEF Here

\* A process goes its way, or fails on it.
Moves(p) == Step(p) \/ LoadFails(p) \/ (p \in Request /\ FillFails(p))

LEMMA Effect ==
  ASSUME TypeInv, NEW p \in Proc, Moves(p)
  PROVE  /\ \A q \in Proc \ {p} : proc'[q] = proc[q]
         /\ Here(p) \in List
         /\ Carries(p) /\ Files(p) /\ Remembers(p) /\ Lives(p) /\ Temps(p)
<1> DEFINE Goal == /\ \A q \in Proc \ {p} : proc'[q] = proc[q]
                   /\ Carries(p) /\ Files(p) /\ Remembers(p) /\ Lives(p) /\ Temps(p)
<1>1. ~At(p, "idle")
  BY DEF Moves, Step, LoadFails, FillFails, Protect, Fetch, Render, Write, Keep, ListLive, Load, Add,
     Swap, Destroy, Lock, Flush, Fill, At
<1>2. /\ Here(p) \in List /\ (p \in Refresher \/ At(p, "keep") => Here(p) \in Feed)
      /\ Place(p) /\ Behind(p) /\ DataOK /\ proc[p].kept \in SUBSET Entry
  BY <1>1, Working, DataIsOK DEF TypeInv, PlaceInv, BehindInv, Place, ProcType, Turn
<1>3. /\ {"fetch", "render", "write", "keep", "list", "load", "add", "swap", "destroy", "flush",
          "fill", "idle"} \subseteq Places
  BY DEF Places
<1>4. CASE Protect(p) \/ Fetch(p) \/ Lock(p)
  <2>1. /\ UNCHANGED <<file, lastKept, live, tmp, loading>>
        /\ Done(p) \/ Finish(p) \/ \E place \in {"fetch", "render", "flush"} : Goto(p, place)
    BY <1>4 DEF Protect, Fetch, FetchOver, Lock, disk, kernel, At
  <2>2. CASE Done(p)
    BY <1>1, <1>2, <2>1, <2>2, DonePlace DEF Carries, Files, Remembers, Lives, Temps, Carrying
  <2>3. CASE Finish(p)
    <3>1. proc'[p].pc = "idle" /\ \A q \in Proc \ {p} : proc'[q] = proc[q]
      BY <2>3 DEF TypeInv, ProcType, Finish, Idle
    <3> QED
      BY <1>2, <2>1, <3>1 DEF Carries, Files, Remembers, Lives, Temps, Carrying
  <2>4. ASSUME NEW place \in {"fetch", "render", "flush"}, Goto(p, place) PROVE Goal
    BY <1>1, <1>2, <2>1, <2>4, GoesTo DEF Carries, Files, Remembers, Lives, Temps, Carrying
  <2> QED
    BY <1>2, <2>1, <2>2, <2>3, <2>4
<1>5. CASE Render(p)
  <2>1. filtered(Here(p)) \in SUBSET Entry
    BY <1>2, <1>5, FilteredType DEF Render, Behind, At, TypeInv
  <2>2. UNCHANGED <<file, lastKept, live, tmp, loading>> /\ At(p, "render")
    BY <1>5 DEF Render, disk, kernel
  <2>3. CASE Hold(p, filtered(Here(p)), "write") /\ filtered(Here(p)) # {}
    <3>1. /\ proc'[p].pc = "write" /\ proc'[p].at = proc[p].at /\ proc'[p].kept = filtered(Here(p))
          /\ \A q \in Proc \ {p} : proc'[q] = proc[q]
      BY <1>3, <2>1, <2>3 DEF Hold, TypeInv, ProcType, Turn
    <3> QED
      BY <1>2, <2>2, <2>3, <3>1 DEF Carries, Files, Remembers, Lives, Temps, At, Here
  <2>4. CASE Finish(p)
    <3>1. proc'[p].pc = "idle" /\ \A q \in Proc \ {p} : proc'[q] = proc[q]
      BY <2>4 DEF TypeInv, ProcType, Finish, Idle
    <3> QED
      BY <1>2, <2>2, <3>1 DEF Carries, Files, Remembers, Lives, Temps, Carrying
  <2>5. CASE Done(p)
    BY <1>1, <1>2, <2>2, <2>5, DonePlace DEF Carries, Files, Remembers, Lives, Temps, Carrying
  <2> QED
    BY <1>5, <2>3, <2>4, <2>5 DEF Render
<1>6. CASE Write(p)
  <2>1. /\ UNCHANGED <<lastKept, live, tmp, loading>> /\ At(p, "write")
        /\ file' = [file EXCEPT ![Here(p)] = proc[p].kept]
        /\ Done(p) \/ Goto(p, "keep")
    BY <1>6 DEF Write, kernel
  <2>2. CASE Done(p)
    BY <1>1, <1>2, <2>1, <2>2, DonePlace DEF Carries, Files, Remembers, Lives, Temps, Carrying, At
  <2>3. CASE Goto(p, "keep")
    <3>1. /\ proc'[p].pc = "keep" /\ proc'[p].at = proc[p].at /\ proc'[p].kept = proc[p].kept
          /\ \A q \in Proc \ {p} : proc'[q] = proc[q]
      BY <2>3, GoesTo
    <3> QED
      BY <1>2, <2>1, <3>1 DEF Carries, Files, Remembers, Lives, Temps, At, Here
  <2> QED
    BY <2>1, <2>2, <2>3
<1>7. CASE Keep(p)
  <2>1. /\ UNCHANGED <<file, live, tmp, loading>> /\ At(p, "keep")
        /\ lastKept' = [lastKept EXCEPT ![Here(p)] = proc[p].kept]
        /\ lastKept'[Here(p)] = proc[p].kept
        /\ Done(p) \/ Goto(p, "list")
    BY <1>2, <1>7 DEF Keep, kernel, disk, DataOK
  <2>2. CASE Done(p)
    BY <1>1, <1>2, <2>1, <2>2, DonePlace DEF Carries, Files, Remembers, Lives, Temps, Carrying, At
  <2>3. CASE Goto(p, "list")
    <3>1. /\ proc'[p].pc = "list" /\ proc'[p].at = proc[p].at
          /\ \A q \in Proc \ {p} : proc'[q] = proc[q]
      BY <2>3, GoesTo
    <3> QED
      BY <1>2, <2>1, <3>1 DEF Carries, Files, Remembers, Lives, Temps, At, Here
  <2> QED
    BY <2>1, <2>2, <2>3
<1>8. CASE ListLive(p)
  <2>1. /\ UNCHANGED <<file, lastKept, live, tmp, loading>> /\ At(p, "list") /\ p \in Refresher
        /\ Done(p) \/ Hold(p, lastKept[Here(p)], "load")
    BY <1>2, <1>8 DEF ListLive, kernel, disk, At, Place, Swapping, Proc
  <2>2. CASE Done(p)
    BY <1>1, <1>2, <2>1, <2>2, DonePlace DEF Carries, Files, Remembers, Lives, Temps, Carrying, At
  <2>3. CASE Hold(p, lastKept[Here(p)], "load")
    <3>1. /\ proc'[p].pc = "load" /\ proc'[p].at = proc[p].at /\ proc'[p].kept = lastKept[Here(p)]
          /\ \A q \in Proc \ {p} : proc'[q] = proc[q]
      BY <1>2, <1>3, <2>3 DEF Hold, TypeInv, ProcType, Turn
    <3> QED
      BY <1>2, <2>1, <3>1 DEF Carries, Files, Remembers, Lives, Temps, At, Here
  <2> QED
    BY <2>1, <2>2, <2>3
<1>9. CASE Load(p)
  <2>1. /\ UNCHANGED <<file, lastKept, live, loading>> /\ At(p, "load") /\ p \in Refresher
        /\ tmp' = [tmp EXCEPT ![Here(p)] = {}]
    BY <1>2, <1>9 DEF Load, disk, At, Place, Swapping, Proc
  <2>2. /\ proc'[p].pc = "add" /\ proc'[p].at = proc[p].at /\ proc'[p].kept = proc[p].kept
        /\ \A q \in Proc \ {p} : proc'[q] = proc[q]
    BY <1>9, GoesTo DEF Load
  <2> QED
    BY <1>2, <2>1, <2>2 DEF Carries, Files, Remembers, Lives, Temps, At, Here
<1>10. CASE Add(p)
  <2>1. /\ UNCHANGED <<file, lastKept, live, loading>> /\ At(p, "add") /\ p \in Refresher
        /\ \/ Done(p) /\ UNCHANGED tmp
           \/ /\ tmp[Here(p)] # None /\ Goto(p, "swap")
              /\ tmp' = [tmp EXCEPT ![Here(p)] = tmp[Here(p)] \cup proc[p].kept]
    BY <1>2, <1>10 DEF Add, disk, At, Place, Swapping, Proc
  <2>2. CASE Done(p) /\ UNCHANGED tmp
    BY SMTT(30), <1>1, <1>2, <2>1, <2>2, DonePlace DEF Carries, Files, Remembers, Lives, Temps, Carrying, At
  <2>3. CASE /\ tmp[Here(p)] # None /\ Goto(p, "swap")
             /\ tmp' = [tmp EXCEPT ![Here(p)] = tmp[Here(p)] \cup proc[p].kept]
    <3>1. /\ proc'[p].pc = "swap" /\ proc'[p].at = proc[p].at
          /\ \A q \in Proc \ {p} : proc'[q] = proc[q]
      BY <2>3, GoesTo
    <3>2. tmp'[Here(p)] = tmp[Here(p)] \cup proc[p].kept
      BY <1>2, <2>1, <2>3 DEF DataOK
    <3> QED
      BY <1>2, <2>1, <2>3, <3>1, <3>2 DEF Carries, Files, Remembers, Lives, Temps, At, Here
  <2> QED
    BY <2>1, <2>2, <2>3
<1>11. CASE LoadFails(p) \/ Destroy(p)
  <2>1. /\ UNCHANGED <<file, lastKept, live, loading>> /\ p \in Refresher
        /\ tmp' \in {tmp, [tmp EXCEPT ![Here(p)] = None]} /\ Done(p)
    BY <1>2, <1>11 DEF LoadFails, Destroy, disk, At, Place, Swapping, Proc
  <2> QED
    BY <1>1, <1>2, <2>1, DonePlace DEF Carries, Files, Remembers, Lives, Temps, Carrying
<1>12. CASE Swap(p)
  <2>1. /\ UNCHANGED <<file, lastKept>> /\ At(p, "swap") /\ p \in Refresher
        /\ \/ Done(p) /\ UNCHANGED <<live, tmp, loading>>
           \/ /\ tmp[Here(p)] # None /\ Goto(p, "destroy")
              /\ live' = [live EXCEPT ![Here(p)] = tmp[Here(p)]]
              /\ loading' = loading \ {Here(p)}
              /\ tmp' = [tmp EXCEPT ![Here(p)] = live[Here(p)]]
    BY <1>2, <1>12 DEF Swap, disk, kernel, At, Place, Swapping, Proc
  <2>2. CASE Done(p) /\ UNCHANGED <<live, tmp, loading>>
    BY <1>1, <1>2, <2>1, <2>2, DonePlace DEF Carries, Files, Remembers, Lives, Temps, Carrying, At
  <2>3. CASE /\ tmp[Here(p)] # None /\ Goto(p, "destroy")
             /\ live' = [live EXCEPT ![Here(p)] = tmp[Here(p)]]
             /\ loading' = loading \ {Here(p)}
             /\ tmp' = [tmp EXCEPT ![Here(p)] = live[Here(p)]]
    <3>1. proc'[p].pc = "destroy" /\ \A q \in Proc \ {p} : proc'[q] = proc[q]
      BY <2>3, GoesTo
    <3> QED
      BY <1>2, <2>1, <2>3, <3>1 DEF Carries, Files, Remembers, Lives, Temps, Carrying
  <2> QED
    BY <2>1, <2>2, <2>3
<1>13. CASE Flush(p)
  <2>1. /\ UNCHANGED <<file, lastKept, tmp>> /\ At(p, "flush") /\ p \in Request
        /\ live' = [live EXCEPT ![Here(p)] = {}] /\ loading' = loading \cup {Here(p)}
    BY <1>2, <1>13 DEF Flush, disk, At, Place, Applying, Proc
  <2>2. file[Here(p)] \in SUBSET Entry
    BY <1>1, <1>2, <2>1, Working, Indexes DEF DataOK, Behind, Rendered, Here, At, Applying
  <2>3. /\ proc'[p].pc = "fill" /\ proc'[p].at = proc[p].at /\ proc'[p].kept = file[Here(p)]
        /\ \A q \in Proc \ {p} : proc'[q] = proc[q]
    BY <1>3, <1>13, <2>2 DEF Flush, Hold, TypeInv, ProcType, Turn
  <2> QED
    BY <1>2, <2>1, <2>3 DEF Carries, Files, Remembers, Lives, Temps, At, Here
<1>14. CASE Fill(p)
  <2>1. /\ UNCHANGED <<file, lastKept, tmp>> /\ At(p, "fill") /\ live[Here(p)] # None
        /\ live' = [live EXCEPT ![Here(p)] = live[Here(p)] \cup proc[p].kept]
        /\ loading' = loading \ {Here(p)}
    BY <1>2, <1>14 DEF Fill, disk, At, Behind
  <2>2. proc'[p].pc \in {"flush", "idle"} /\ \A q \in Proc \ {p} : proc'[q] = proc[q]
    <3>1. Idle.pc = "idle"
      BY DEF Idle
    <3> QED
      BY <1>1, <1>3, <1>14, <3>1, NextListType DEF Fill
  <2> QED
    BY <1>2, <2>1, <2>2 DEF Carries, Files, Remembers, Lives, Temps, Carrying
<1>15. CASE FillFails(p)
  <2>1. /\ UNCHANGED <<file, lastKept, tmp, loading>> /\ At(p, "fill") /\ live[Here(p)] # None
        /\ \E part \in SUBSET proc[p].kept :
             live' = [live EXCEPT ![Here(p)] = live[Here(p)] \cup part]
    BY <1>2, <1>15 DEF FillFails, disk, At, Behind
  <2>2. proc'[p].pc = "idle" /\ \A q \in Proc \ {p} : proc'[q] = proc[q]
    BY <1>15 DEF FillFails, TypeInv, ProcType, Finish, Idle
  <2> QED
    BY <1>2, <2>1, <2>2 DEF Carries, Files, Remembers, Lives, Temps, Carrying
<1> QED
  BY <1>2, <1>4, <1>5, <1>6, <1>7, <1>8, <1>9, <1>10, <1>11, <1>12, <1>13, <1>14, <1>15
  DEF Step, Moves

\* A step of anyone else leaves what a process carries, and where.
LEMMA OthersCarry ==
  ASSUME NEW q \in Proc, proc'[q] = proc[q]
  PROVE  Here(q)' = Here(q) /\ proc'[q].pc = proc[q].pc /\ proc'[q].kept = proc[q].kept
BY DEF Here

\* The steps that are not a process's way through its lists.
LEMMA OtherSteps ==
  ASSUME TypeInv, Next, ~ \E p \in Proc : Moves(p)
  PROVE  /\ UNCHANGED <<file, live, tmp, loading>>
         /\ \/ /\ UNCHANGED lastKept
               /\ \A p \in Proc : proc'[p] = proc[p] \/ (At(p, "idle") /\ proc'[p].pc = "protect")
            \/ /\ lastKept' = [f \in Feed |-> {}]
               /\ \A p \in Proc : proc'[p].pc = "idle"
<1>1. ASSUME NEW p \in Proc, NEW op, NEW lan, Start(p, op, lan)
      PROVE  /\ UNCHANGED <<file, live, tmp, loading, lastKept>>
             /\ \A q \in Proc : proc'[q] = proc[q] \/ (At(q, "idle") /\ proc'[q].pc = "protect")
  <2> DEFINE new == [Idle EXCEPT !.pc = "protect", !.op = op, !.lan = lan, !.at = 1]
  <2>1. new.pc = "protect"
    BY DEF Idle
  <2>2. proc' = [proc EXCEPT ![p] = new]
    BY <1>1 DEF Start
  <2> HIDE DEF new
  <2>3. \A q \in Proc : proc'[q] = IF q = p THEN new ELSE proc[q]
    BY <2>2 DEF TypeInv, ProcType
  <2> QED
    BY <1>1, <2>1, <2>3 DEF Start, disk, kernel
<1>2. CASE \E p \in Proc : \E op, lan : Start(p, op, lan)
  BY <1>1, <1>2
<1>3. CASE Publisher \/ \E l \in List : Ages(l)
  BY <1>3 DEF Publisher, Ages, disk, kernel
<1>4. CASE Restart
  <2>1. Idle.pc = "idle"
    BY DEF Idle
  <2> QED
    BY <1>4, <2>1 DEF Restart, disk, kernel
<1> QED
  BY <1>2, <1>3, <1>4 DEF Next, Moves, PostApply, PostRules, RefreshFeeds, Proc

-----------------------------------------------------------------------------
(* No feed blocks the operator's own ranges *)

Clean(X) == X \cap SpecialUse = {} /\ (Cardinality(LANs) = 1 => X \cap LANs = {})
CarriesClean(p) == proc[p].pc \in Carrying /\ Here(p) \in Feed => Clean(proc[p].kept)

\* Whatever may become a live set is clean, wherever it is.
StoredClean ==
  \A f \in Feed : /\ file[f] # None => Clean(file[f])
                  /\ Clean(lastKept[f])
                  /\ live[f] # None => Clean(live[f])
                  /\ tmp[f] # None => Clean(tmp[f])
CleanInv == StoredClean /\ \A p \in Proc : CarriesClean(p)

\* The filter leaves no special-use range and not the protected LAN.
LEMMA FilteredIsClean ==
  ASSUME NEW f \in Feed, protected \in LANs PROVE Clean(filtered(f))
<1>1. filtered(f) \cap SpecialUse = {} /\ protected \notin filtered(f)
  BY DEF filtered
<1>2. Cardinality(LANs) = 1 => LANs = {protected}
  BY FS_Singleton
<1> QED
  BY <1>1, <1>2 DEF Clean

LEMMA CleanUnion == Clean({}) /\ \A X, Y : Clean(X) /\ Clean(Y) => Clean(X \cup Y)
BY DEF Clean

LEMMA CleanPart ==
  ASSUME NEW X, NEW Y, NEW part \in SUBSET Y, Clean(X), Clean(Y) PROVE Clean(X \cup part)
BY DEF Clean

LEMMA CleanStep == TypeInv /\ CleanInv /\ [Next]_vars => CleanInv'
<1> SUFFICES ASSUME TypeInv, CleanInv, [Next]_vars PROVE CleanInv'
  OBVIOUS
<1>1. ASSUME NEW p \in Proc, Moves(p) PROVE CleanInv'
  <2>1. /\ \A q \in Proc \ {p} : proc'[q] = proc[q]
        /\ Here(p) \in List
        /\ Carries(p) /\ Files(p) /\ Remembers(p) /\ Lives(p) /\ Temps(p)
    BY <1>1, Effect
  <2>2. CarriesClean(p) /\ DataOK /\ Behind(p) /\ Feed \subseteq List
    BY DataIsOK DEF CleanInv, TypeInv, BehindInv
  <2>3. \A f \in Feed : file'[f] # None => Clean(file'[f])
    BY <2>1, <2>2 DEF Files, DataOK, CleanInv, StoredClean, CarriesClean, At, Carrying
  <2>4. \A f \in Feed : Clean(lastKept'[f])
    BY <2>1, <2>2 DEF Remembers, DataOK, CleanInv, StoredClean, CarriesClean, At, Carrying
  <2>5. \A f \in Feed : live'[f] # None => Clean(live'[f])
    <3>1. CASE live' = live
      BY <3>1 DEF CleanInv, StoredClean
    <3>2. CASE At(p, "swap") /\ Here(p) \in Feed /\ live' = [live EXCEPT ![Here(p)] = tmp[Here(p)]]
               /\ tmp[Here(p)] # None
      BY <2>2, <3>2 DEF DataOK, CleanInv, StoredClean
    <3>3. CASE live' = [live EXCEPT ![Here(p)] = {}]
      BY <2>2, <3>3, CleanUnion DEF DataOK, CleanInv, StoredClean
    <3>4. CASE /\ At(p, "fill") /\ live[Here(p)] # None
               /\ \E part \in SUBSET proc[p].kept :
                    live' = [live EXCEPT ![Here(p)] = live[Here(p)] \cup part]
      <4>1. PICK part \in SUBSET proc[p].kept :
              live' = [live EXCEPT ![Here(p)] = live[Here(p)] \cup part]
        BY <3>4
      <4>2. Here(p) \in Feed => Clean(live[Here(p)]) /\ Clean(proc[p].kept)
        BY <2>2, <3>4 DEF CleanInv, StoredClean, CarriesClean, At, Carrying
      <4>3. Here(p) \in Feed => Clean(live[Here(p)] \cup part)
        BY <4>2, CleanPart
      <4> QED
        BY <2>1, <2>2, <4>1, <4>3 DEF DataOK, CleanInv, StoredClean
    <3> QED
      BY <2>1, <3>1, <3>2, <3>3, <3>4 DEF Lives
  <2>6. \A f \in Feed : tmp'[f] # None => Clean(tmp'[f])
    <3>1. CASE \E X \in {{}, None, live[Here(p)]} : tmp' = [tmp EXCEPT ![Here(p)] = X]
      BY <2>2, <3>1, CleanUnion DEF DataOK, CleanInv, StoredClean
    <3>2. CASE /\ At(p, "add") /\ Here(p) \in Feed /\ tmp[Here(p)] # None
               /\ tmp' = [tmp EXCEPT ![Here(p)] = tmp[Here(p)] \cup proc[p].kept]
      BY <2>2, <3>2, CleanUnion DEF DataOK, CleanInv, StoredClean, CarriesClean, At, Carrying
    <3>3. CASE tmp' = tmp
      BY <3>3 DEF CleanInv, StoredClean
    <3> QED
      BY <2>1, <3>1, <3>2, <3>3 DEF Temps
  <2>7. CarriesClean(p)'
    <3> SUFFICES ASSUME proc'[p].pc \in Carrying, Here(p)' \in Feed PROVE Clean(proc'[p].kept)
      BY DEF CarriesClean
    <3>1. Here(p)' = Here(p) /\ Here(p) \in Feed
      BY <2>1 DEF Carries
    <3>2. CASE At(p, "render") /\ proc'[p].kept = filtered(Here(p))
      BY <2>2, <3>1, <3>2, FilteredIsClean DEF Behind, At
    <3>3. CASE proc[p].pc \in Carrying /\ proc'[p].kept = proc[p].kept
      BY <2>2, <3>1, <3>3 DEF CarriesClean
    <3>4. CASE proc'[p].kept = lastKept[Here(p)]
      BY <3>1, <3>4 DEF CleanInv, StoredClean
    <3>5. CASE At(p, "flush") /\ p \in Request /\ proc'[p].kept = file[Here(p)]
      <4>1. file[Here(p)] # None
        BY <2>2, <3>5, Working, Indexes DEF Behind, Rendered, Here, At, Applying
      <4> QED
        BY <3>1, <3>5, <4>1 DEF CleanInv, StoredClean
    <3> QED
      BY <2>1, <3>2, <3>3, <3>4, <3>5 DEF Carries, Carrying, At
  <2>8. ASSUME NEW q \in Proc \ {p} PROVE CarriesClean(q)'
    BY <2>1, <2>8, OthersCarry DEF CarriesClean, CleanInv
  <2> QED
    BY <2>3, <2>4, <2>5, <2>6, <2>7, <2>8 DEF CleanInv, StoredClean
<1>2. CASE Next /\ ~ \E p \in Proc : Moves(p)
  <2>1. StoredClean'
    BY <1>2, OtherSteps, CleanUnion DEF CleanInv, StoredClean
  <2>2. ASSUME NEW q \in Proc PROVE CarriesClean(q)'
    <3>1. proc'[q] = proc[q] \/ proc'[q].pc \notin Carrying
      BY <1>2, OtherSteps DEF Carrying
    <3> QED
      BY <3>1, OthersCarry DEF CarriesClean, CleanInv
  <2> QED
    BY <2>1, <2>2 DEF CleanInv
<1>3. CASE UNCHANGED vars
  BY <1>3 DEF vars, disk, kernel, CleanInv, StoredClean, CarriesClean, Here
<1> QED
  BY <1>1, <1>2, <1>3

\* No feed blocks a special-use range or the one LAN there is, through
\* whichever of cache, ipset file, lastKept and temporary set its entries
\* came, and however requests and refreshes interleave.
THEOREM ListsNeverBlockOwn == Spec => []NeverBlocksOwn
<1>1. Init => CleanInv
  BY CleanUnion DEF Init, CleanInv, StoredClean, CarriesClean, Idle, Carrying
<1>2. CleanInv => NeverBlocksOwn
  BY DEF CleanInv, StoredClean, Clean, NeverBlocksOwn
<1> QED
  BY <1>1, <1>2, CleanStep, ListsTyped, PTL DEF Spec

-----------------------------------------------------------------------------
(* What is there stays until there is better *)

\* No ipset file is empty, nor what is about to become one.
SomeInv ==
  /\ \A l \in List : file[l] # {}
  /\ \A p \in Proc : At(p, "write") => proc[p].kept # {}

LEMMA SomeStep == TypeInv /\ SomeInv /\ [Next]_vars => SomeInv'
<1> SUFFICES ASSUME TypeInv, SomeInv, [Next]_vars PROVE SomeInv'
  OBVIOUS
<1>1. ASSUME NEW p \in Proc, Moves(p) PROVE SomeInv'
  <2>1. /\ \A q \in Proc \ {p} : proc'[q] = proc[q]
        /\ Carries(p) /\ Files(p) /\ DataOK
    BY <1>1, Effect, DataIsOK
  <2>2. \A l \in List : file'[l] # {}
    BY <2>1 DEF Files, SomeInv, DataOK
  <2>3. proc'[p].pc = "write" => proc'[p].kept # {}
    BY <2>1 DEF Carries, Carrying
  <2> QED
    BY <2>1, <2>2, <2>3 DEF SomeInv, At
<1>2. CASE Next /\ ~ \E p \in Proc : Moves(p)
  <2>1. UNCHANGED file /\ \A q \in Proc : proc'[q] = proc[q] \/ proc'[q].pc \in {"protect", "idle"}
    BY <1>2, OtherSteps
  <2> QED
    BY <2>1 DEF SomeInv, At
<1>3. CASE UNCHANGED vars
  BY <1>3 DEF vars, disk, SomeInv, At
<1> QED
  BY <1>1, <1>2, <1>3

\* Neither a payload the bounds refuse nor a list the filter leaves nothing of
\* takes the place of what was there: whatever the publishers serve, a render
\* reads a list one of them has served, and no ipset file is ever empty.
THEOREM LastGoodListsAreKept == Spec => []LastGoodIsKept
<1>1. Init => SomeInv
  BY DEF Init, SomeInv, At, Idle
<1>2. TypeInv /\ SomeInv => LastGoodIsKept
  <2> SUFFICES ASSUME TypeInv, SomeInv PROVE LastGoodIsKept
    OBVIOUS
  <2>1. \A p \in Proc : At(p, "render") => cache[Here(p)] # 0
    BY DEF TypeInv, BehindInv, Behind
  <2> QED
    BY <2>1 DEF SomeInv, LastGoodIsKept
<1> QED
  BY <1>1, <1>2, SomeStep, ListsTyped, PTL DEF Spec

-----------------------------------------------------------------------------
(* The set the chains match is whole *)

Whole(X) ==
  \E v \in Versions, P \in SUBSET LANs :
    /\ Cardinality(P) <= 1
    /\ Version[v] \ UNION {SpecialUse, P} # {}
    /\ Version[v] \ UNION {SpecialUse, P} \subseteq X

\* What p carries is a whole list, and so is what it has left where its next
\* step takes it from.
CarriesWhole(p) ==
  Here(p) \in Feed =>
    /\ proc[p].pc \in Carrying => Whole(proc[p].kept)
    /\ At(p, "list") => Whole(lastKept[Here(p)])
    /\ At(p, "swap") => Whole(tmp[Here(p)])

\* A live set is whole unless an apply has begun to load it.  The temporary
\* set may be anything, except to the refresh that has just filled it.
StoredWhole ==
  \A f \in Feed : /\ file[f] # None => Whole(file[f])
                  /\ live[f] # None /\ f \notin loading => Whole(live[f])
WholeInv == StoredWhole /\ \A p \in Proc : CarriesWhole(p)

LEMMA FilteredIsWhole ==
  ASSUME TypeInv, NEW f \in Feed, cache[f] # 0, protected \in LANs, filtered(f) # {}
  PROVE  Whole(filtered(f))
<1>1. cache[f] \in Versions
  BY DataIsOK DEF DataOK
<1>2. {protected} \in SUBSET LANs /\ Cardinality({protected}) <= 1
  <2>1. Cardinality({protected}) = 1
    BY FS_Singleton
  <2> QED
    BY <2>1
<1>3. filtered(f) = Version[cache[f]] \ UNION {SpecialUse, {protected}}
  BY DEF filtered
<1> QED
  BY <1>1, <1>2, <1>3 DEF Whole

LEMMA WholeUnion == \A X, Y : Whole(X) \/ Whole(Y) => Whole(X \cup Y)
BY DEF Whole

LEMMA WholeStep ==
  ASSUME \A p, q \in Refresher : p = q
  PROVE  TypeInv /\ WholeInv /\ [Next]_vars => WholeInv'
<1> SUFFICES ASSUME TypeInv, WholeInv, [Next]_vars PROVE WholeInv'
  OBVIOUS
<1>1. ASSUME NEW p \in Proc, Moves(p) PROVE WholeInv'
  <2>1. /\ \A q \in Proc \ {p} : proc'[q] = proc[q]
        /\ Here(p) \in List
        /\ Carries(p) /\ Files(p) /\ Remembers(p) /\ Lives(p) /\ Temps(p)
    BY <1>1, Effect
  <2>2. CarriesWhole(p) /\ DataOK /\ Behind(p) /\ Place(p) /\ Feed \subseteq List
    BY DataIsOK DEF WholeInv, TypeInv, BehindInv, PlaceInv
  <2>3. \A f \in Feed : file'[f] # None => Whole(file'[f])
    BY <2>1, <2>2 DEF Files, DataOK, WholeInv, StoredWhole, CarriesWhole, At, Carrying
  <2>4. ASSUME NEW f \in Feed, live'[f] # None, f \notin loading' PROVE Whole(live'[f])
    <3>1. CASE f # Here(p)
      <4>1. f \notin loading /\ live'[f] = live[f]
        BY <2>1, <2>2, <2>4, <3>1 DEF Lives, DataOK
      <4> QED
        BY <2>4, <4>1 DEF WholeInv, StoredWhole
    <3>2. CASE f = Here(p)
      <4>1. CASE live' = live /\ loading' = loading
        BY <2>4, <4>1 DEF WholeInv, StoredWhole
      <4>2. CASE At(p, "swap") /\ live' = [live EXCEPT ![Here(p)] = tmp[Here(p)]]
        BY <2>2, <3>2, <4>2 DEF CarriesWhole, DataOK
      <4>3. CASE At(p, "fill") /\ live' = [live EXCEPT ![Here(p)] = live[Here(p)] \cup proc[p].kept]
        BY <2>2, <3>2, <4>3, WholeUnion DEF CarriesWhole, Carrying, At, DataOK
      <4>4. CASE /\ At(p, "fill") /\ live[Here(p)] # None /\ loading' = loading
                 /\ \E part \in SUBSET proc[p].kept :
                      live' = [live EXCEPT ![Here(p)] = live[Here(p)] \cup part]
        <5>1. PICK part : live' = [live EXCEPT ![Here(p)] = live[Here(p)] \cup part]
          BY <4>4
        <5>2. Whole(live[f])
          BY <2>4, <3>2, <4>4 DEF WholeInv, StoredWhole
        <5> QED
          BY <2>2, <3>2, <5>1, <5>2, WholeUnion DEF DataOK
      <4> QED
        BY <2>1, <2>4, <3>2, <4>1, <4>2, <4>3, <4>4 DEF Lives
    <3> QED
      BY <3>1, <3>2
  <2>5. CarriesWhole(p)'
    <3> SUFFICES ASSUME Here(p)' \in Feed, proc'[p].pc \in Carrying \cup {"list", "swap"}
                 PROVE  /\ proc'[p].pc \in Carrying => Whole(proc'[p].kept)
                        /\ At(p, "list")' => Whole(lastKept'[Here(p)'])
                        /\ At(p, "swap")' => Whole(tmp'[Here(p)'])
      BY DEF CarriesWhole, At
    <3>1. Here(p)' = Here(p) /\ Here(p) \in Feed
      BY <2>1 DEF Carries
    <3>2. Carrying \cap {"list", "swap"} = {}
      BY DEF Carrying
    <3>3. CASE /\ At(p, "render") /\ proc'[p].pc = "write"
               /\ proc'[p].kept = filtered(Here(p)) /\ filtered(Here(p)) # {}
      BY <2>2, <3>1, <3>3, FilteredIsWhole DEF Behind, At
    <3>4. CASE proc[p].pc \in Carrying /\ proc'[p].pc \in Carrying /\ proc'[p].kept = proc[p].kept
      BY <2>2, <3>1, <3>2, <3>4 DEF CarriesWhole, At
    <3>5. CASE At(p, "keep") /\ proc'[p].pc = "list" /\ lastKept'[Here(p)] = proc[p].kept
      BY <2>2, <3>1, <3>5 DEF CarriesWhole, At, Carrying
    <3>6. CASE At(p, "list") /\ proc'[p].pc = "load" /\ proc'[p].kept = lastKept[Here(p)]
      BY <2>2, <3>1, <3>6 DEF CarriesWhole, At
    <3>7. CASE /\ At(p, "add") /\ proc'[p].pc = "swap"
               /\ tmp'[Here(p)] = tmp[Here(p)] \cup proc[p].kept
      <4>1. Whole(proc[p].kept)
        BY <2>2, <3>1, <3>7 DEF CarriesWhole, At, Carrying
      <4>2. Whole(tmp'[Here(p)])
        BY <3>7, <4>1, WholeUnion
      <4> QED
        BY <3>1, <3>7, <4>2 DEF At, Carrying
    <3>8. CASE At(p, "flush") /\ proc'[p].pc = "fill" /\ p \in Request /\ proc'[p].kept = file[Here(p)]
      <4>1. file[Here(p)] # None
        BY <2>2, <3>8, Working, Indexes DEF Behind, Rendered, Here, At, Applying
      <4> QED
        BY <3>1, <3>8, <4>1 DEF WholeInv, StoredWhole, At
    <3>9. \/ /\ At(p, "render") /\ proc'[p].pc = "write"
             /\ proc'[p].kept = filtered(Here(p)) /\ filtered(Here(p)) # {}
          \/ At(p, "write") /\ proc'[p].pc = "keep" /\ proc'[p].kept = proc[p].kept
          \/ At(p, "keep") /\ proc'[p].pc = "list" /\ lastKept'[Here(p)] = proc[p].kept
          \/ At(p, "list") /\ proc'[p].pc = "load" /\ proc'[p].kept = lastKept[Here(p)]
          \/ At(p, "load") /\ proc'[p].pc = "add" /\ proc'[p].kept = proc[p].kept
          \/ /\ At(p, "add") /\ proc'[p].pc = "swap"
             /\ tmp'[Here(p)] = tmp[Here(p)] \cup proc[p].kept
          \/ At(p, "flush") /\ proc'[p].pc = "fill" /\ p \in Request /\ proc'[p].kept = file[Here(p)]
      BY <2>1 DEF Carries
    <3>10. /\ At(p, "write") /\ proc'[p].pc = "keep" => proc[p].pc \in Carrying /\ proc'[p].pc \in Carrying
           /\ At(p, "load") /\ proc'[p].pc = "add" => proc[p].pc \in Carrying /\ proc'[p].pc \in Carrying
      BY DEF At, Carrying
    <3> QED
      BY <3>3, <3>4, <3>5, <3>6, <3>7, <3>8, <3>9, <3>10
  <2>6. ASSUME NEW q \in Proc \ {p} PROVE CarriesWhole(q)'
    <3>1. CarriesWhole(q) /\ Here(q)' = Here(q) /\ proc'[q] = proc[q]
      BY <2>1, <2>6, OthersCarry DEF WholeInv
    <3>2. At(q, "list") /\ Here(q) \in Feed => Whole(lastKept'[Here(q)])
      BY <2>1, <2>2, <3>1 DEF CarriesWhole, Remembers, DataOK, At, Carrying
    <3>3. At(q, "swap") => tmp' = tmp
      <4>1. At(q, "swap") => q \in Refresher
        BY DEF TypeInv, PlaceInv, Place, At, Swapping, Proc
      <4> QED
        BY <2>1, <2>6, <4>1 DEF Temps
    <3> QED
      BY <3>1, <3>2, <3>3 DEF CarriesWhole, At
  <2> QED
    BY <2>3, <2>4, <2>5, <2>6 DEF WholeInv, StoredWhole
<1>2. CASE Next /\ ~ \E p \in Proc : Moves(p)
  <2>2. StoredWhole'
    BY <1>2, OtherSteps DEF WholeInv, StoredWhole
  <2>3. ASSUME NEW q \in Proc PROVE CarriesWhole(q)'
    <3>1. CASE proc'[q] = proc[q] /\ UNCHANGED <<lastKept, tmp>>
      BY <3>1, OthersCarry DEF CarriesWhole, WholeInv, At
    <3>2. CASE proc'[q].pc \in {"protect", "idle"}
      BY <3>2 DEF CarriesWhole, At, Carrying
    <3> QED
      BY <1>2, <3>1, <3>2, OtherSteps
  <2> QED
    BY <2>2, <2>3 DEF WholeInv
<1>3. CASE UNCHANGED vars
  BY <1>3 DEF vars, disk, kernel, WholeInv, StoredWhole, CarriesWhole, Here, At
<1> QED
  BY <1>1, <1>2, <1>3

\* The set the chains match is never empty or a part of a list, except from
\* when an apply begins to load it until a load or a refresh has succeeded, as
\* long as refreshes do not overlap.  The hypothesis leaves any number of
\* requests, restarts in the middle of any of them, and refreshes whose ipset
\* commands stop half-way.
THEOREM LiveSetsAreWhole ==
  ASSUME \A p, q \in Refresher : p = q PROVE Spec => []LiveIsWhole
<1>1. Init => WholeInv
  BY DEF Init, WholeInv, StoredWhole, CarriesWhole, Idle, Carrying, At
<1>2. WholeInv => LiveIsWhole
  BY DEF WholeInv, StoredWhole, Whole, LiveIsWhole, Kept
<1> QED
  BY <1>1, <1>2, WholeStep, ListsTyped, PTL DEF Spec
=============================================================================
