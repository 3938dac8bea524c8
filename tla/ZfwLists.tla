------------------------------ MODULE ZfwLists ------------------------------
(***************************************************************************)
(* The lists behind feed and country sources (internal/feeds,              *)
(* internal/geo): how a list goes from its publisher to the cache, through *)
(* the filter into the ipset file, and into the set the kernel matches.    *)
(*                                                                         *)
(* Two kinds of process touch them.  A request (save or apply) ensures the *)
(* lists of its rule set without Server.mu; an apply then loads the        *)
(* ipset files.  A refresh (the ticker, the "Update now" button) swaps the *)
(* sets that are live.                                                     *)
(*                                                                         *)
(* Abstractions.  The publishers serve successive versions of the lists,   *)
(* or something the bounds check refuses.  A list is its set of entries;   *)
(* a LAN stands for the entries that overlap it.  The `add` lines of one   *)
(* ipset document are one step, and so are a download and the rename that  *)
(* publishes it.  The meta sidecar is left out.                            *)
(***************************************************************************)
EXTENDS Integers, Sequences, FiniteSets

CONSTANTS
  Feed,        \* the feeds the rules name
  Order,       \* the feeds, then the countries, as Ensure takes them
  Version,     \* Version[v]: the entries version v of every list has
  SpecialUse,  \* the entries that overlap neverBlock
  LANs,        \* the LANs of the rule sets that are posted
  Request,     \* requests under way at the same time
  Refresher,   \* refreshes under way at the same time
  None,        \* no such set, nobody
  MaxOps,      \* bound: requests
  MaxAge,      \* bound: how often a cached list gets too old
  MaxFaults    \* bound: crashes and ipset commands that fail

List == {Order[i] : i \in DOMAIN Order}
Proc == Request \cup Refresher
Versions == DOMAIN Version
Entry == UNION {Version[v] : v \in Versions}

ASSUME OrderAssumption ==
  /\ Order \in Seq(List)
  /\ Feed # {} /\ Feed \subseteq List
  /\ Cardinality(List) = Len(Order)
  /\ \A i, j \in DOMAIN Order : i < j /\ Order[j] \in Feed => Order[i] \in Feed
ASSUME NamesAssumption ==
  /\ Request \cap Refresher = {}
  /\ None \notin Proc \cup LANs
  /\ \A X \in SUBSET Entry : X # None
  /\ IsFiniteSet(LANs)
ASSUME VersionAssumption ==
  Version # << >> /\ Versions = 1 .. Len(Version)

VARIABLES
  upstream,   \* [ver, good]: what the publishers serve
  cache,      \* list -> the cached version, 0 for none
  fresh,      \* list -> the cache is younger than maxAge
  file,       \* list -> the entries of its ipset file, or None
  lastKept,   \* feed -> Manager.lastKept
  protected,  \* Manager.protected
  saved,      \* the LAN of rules.json
  live,       \* list -> the set the chains match, or None
  tmp,        \* feed -> the temporary set, or None
  loading,    \* history: lists an apply began to load, not loaded or swapped since
  mu,         \* the holder of Server.mu, or None
  proc,       \* process -> [pc, op, lan, at, kept]
  ops, ages, faults

disk == <<cache, fresh, file>>
kernel == <<live, tmp, loading>>
bounds == <<ops, ages, faults>>
vars == <<upstream, disk, lastKept, protected, saved, kernel, mu, proc, bounds>>

Idle == [pc |-> "idle", op |-> "none", lan |-> None, at |-> 0, kept |-> {}]

TypeOK ==
  /\ upstream \in [ver : Versions, good : BOOLEAN]
  /\ cache \in [List -> {0} \cup Versions]
  /\ fresh \in [List -> BOOLEAN]
  /\ file \in [List -> {None} \cup SUBSET Entry]
  /\ lastKept \in [Feed -> SUBSET Entry]
  /\ protected \in LANs \cup {None}
  /\ saved \in LANs
  /\ live \in [List -> {None} \cup SUBSET Entry]
  /\ tmp \in [Feed -> {None} \cup SUBSET Entry]
  /\ loading \subseteq List
  /\ mu \in Request \cup {None}
  /\ \A p \in Proc : proc[p] = Idle \/ (proc[p].at \in DOMAIN Order /\ proc[p].lan \in LANs)

-----------------------------------------------------------------------------
(* Processes *)

At(p, place) == proc[p].pc = place
Here(p) == Order[proc[p].at]  \* the list p works on
Last(p) == IF p \in Request THEN Len(Order) ELSE Cardinality(Feed)

Goto(p, place) == proc' = [proc EXCEPT ![p].pc = place]
Hold(p, kept, place) == proc' = [proc EXCEPT ![p].pc = place, ![p].kept = kept]
Finish(p) == proc' = [proc EXCEPT ![p] = Idle]

\* A mutant of NextList: one list too many.
NextListBeyond(p, again, after) ==
  IF proc[p].at <= Last(p)
  THEN proc' = [proc EXCEPT ![p].pc = again, ![p].at = @ + 1, ![p].kept = {}]
  ELSE Finish(p)

\* The next list from `again`, or, after the last, on to `after`.
NextList(p, again, after) ==
  IF proc[p].at < Last(p)
  THEN proc' = [proc EXCEPT ![p].pc = again, ![p].at = @ + 1, ![p].kept = {}]
  ELSE IF after = "idle" THEN Finish(p)
  ELSE proc' = [proc EXCEPT ![p].pc = after, ![p].at = 1, ![p].kept = {}]

\* Where a process goes when it is done with its list.
Done(p) == NextList(p, "fetch", IF p \in Request THEN "lock" ELSE "idle")

Start(p, op, lan) ==
  /\ At(p, "idle")
  /\ proc' = [proc EXCEPT ![p] = [Idle EXCEPT !.pc = "protect", !.op = op, !.lan = lan, !.at = 1]]
  /\ UNCHANGED <<upstream, disk, lastKept, protected, saved, kernel, mu, ages, faults>>

\* POST rules with a rule set of this LAN; POST apply; RefreshFeeds.
PostRules(p, lan) == ops < MaxOps /\ Start(p, "save", lan) /\ ops' = ops + 1
PostApply(p) == ops < MaxOps /\ Start(p, "apply", saved) /\ ops' = ops + 1
RefreshFeeds(p) == Start(p, "refresh", saved) /\ UNCHANGED ops

\* Protect(feedProtection(rs))
Protect(p) ==
  /\ At(p, "protect")
  /\ protected' = proc[p].lan
  /\ Goto(p, "fetch")
  /\ UNCHANGED <<upstream, disk, lastKept, saved, kernel, mu, bounds>>

-----------------------------------------------------------------------------
(* Ensure and the first half of Refresh: fetch, render *)

\* A mutant of FetchOver: whatever arrives replaces the cache.
FetchOverAnything(p) ==
  /\ cache' = [cache EXCEPT ![Here(p)] = IF upstream.good THEN upstream.ver ELSE 0]
  /\ fresh' = [fresh EXCEPT ![Here(p)] = TRUE]
  /\ Goto(p, "render")

\* The payload passes the bounds: the cache is replaced by a rename.
FetchOver(p) ==
  /\ upstream.good
  /\ cache' = [cache EXCEPT ![Here(p)] = upstream.ver]
  /\ fresh' = [fresh EXCEPT ![Here(p)] = TRUE]
  /\ Goto(p, "render")

\* Ensure fetches what is too old, Refresh always.  A failure is tolerated
\* over a cache; without one a request fails and a refresh goes on.
Fetch(p) ==
  /\ At(p, "fetch")
  /\ LET wanted == p \in Refresher \/ ~fresh[Here(p)] IN
     \/ wanted /\ FetchOver(p)
     \/ /\ ~wanted \/ ~upstream.good
        /\ IF ~wanted \/ cache[Here(p)] # 0 THEN Goto(p, "render")
           ELSE IF p \in Request THEN Finish(p)
           ELSE Done(p)
        /\ UNCHANGED <<cache, fresh>>
  /\ UNCHANGED <<upstream, file, lastKept, protected, saved, kernel, mu, bounds>>

\* A mutant of filtered: an entry that contains a special range is kept.
filteredNot(l) == IF l \in Feed THEN Version[cache[l]] \ {protected} ELSE Version[cache[l]]

\* filtered: what neverBlock and the protected ranges leave of a feed.
filtered(l) ==
  IF l \in Feed THEN Version[cache[l]] \ UNION {SpecialUse, {protected}}
  ELSE Version[cache[l]]

\* A mutant of Render: what the filter leaves is not looked at.
RenderAnything(p) ==
  /\ At(p, "render")
  /\ Hold(p, filtered(Here(p)), "write")
  /\ UNCHANGED <<upstream, disk, lastKept, protected, saved, kernel, mu, bounds>>

\* render reads and filters the cached list.  If that leaves nothing the
\* request fails, and a refresh goes on to its next feed ...
Render(p) ==
  /\ At(p, "render")
  /\ IF filtered(Here(p)) # {} THEN Hold(p, filtered(Here(p)), "write")
     ELSE IF p \in Request THEN Finish(p)
     ELSE Done(p)
  /\ UNCHANGED <<upstream, disk, lastKept, protected, saved, kernel, mu, bounds>>

\* ... and publishes the ipset file ...
Write(p) ==
  /\ At(p, "write")
  /\ file' = [file EXCEPT ![Here(p)] = proc[p].kept]
  /\ IF Here(p) \in Feed THEN Goto(p, "keep") ELSE Done(p)
  /\ UNCHANGED <<upstream, cache, fresh, lastKept, protected, saved, kernel, mu, bounds>>

\* A mutant of Keep: the first render is remembered for good.
KeepFirst(p) ==
  /\ At(p, "keep")
  /\ lastKept' = [lastKept EXCEPT ![Here(p)] = IF @ = {} THEN proc[p].kept ELSE @]
  /\ IF p \in Refresher THEN Goto(p, "list") ELSE Done(p)
  /\ UNCHANGED <<upstream, disk, protected, saved, kernel, mu, bounds>>

\* ... and remembers what it put there.
Keep(p) ==
  /\ At(p, "keep")
  /\ lastKept' = [lastKept EXCEPT ![Here(p)] = proc[p].kept]
  /\ IF p \in Refresher THEN Goto(p, "list") ELSE Done(p)
  /\ UNCHANGED <<upstream, disk, protected, saved, kernel, mu, bounds>>

-----------------------------------------------------------------------------
(* swapLive *)

\* Only a set that is live is refreshed.
ListLive(p) ==
  /\ At(p, "list")
  /\ IF live[Here(p)] = None THEN Done(p) ELSE Hold(p, lastKept[Here(p)], "load")
  /\ UNCHANGED <<upstream, disk, lastKept, protected, saved, kernel, mu, bounds>>

\* ipset restore: create (-exist) and flush the temporary set ...
Load(p) ==
  /\ At(p, "load")
  /\ tmp' = [tmp EXCEPT ![Here(p)] = {}]
  /\ Goto(p, "add")
  /\ UNCHANGED <<upstream, disk, lastKept, protected, saved, live, loading, mu, bounds>>

\* ... and add the entries, which fails when the set is gone.
Add(p) ==
  /\ At(p, "add")
  /\ IF tmp[Here(p)] = None THEN Done(p) /\ UNCHANGED tmp
     ELSE /\ tmp' = [tmp EXCEPT ![Here(p)] = @ \cup proc[p].kept]
          /\ Goto(p, "swap")
  /\ UNCHANGED <<upstream, disk, lastKept, protected, saved, live, loading, mu, bounds>>

\* A mutant of LoadFails: the exit status of ipset restore is discarded.
LoadFailsUnnoticed(p) ==
  /\ faults < MaxFaults /\ faults' = faults + 1
  /\ At(p, "add")
  /\ Goto(p, "swap")
  /\ UNCHANGED <<upstream, disk, lastKept, protected, saved, kernel, mu, ops, ages>>

\* ipset restore stops half-way (its deadline, or the client of the button is
\* gone); destroying the temporary set may fail as well.
LoadFails(p) ==
  /\ faults < MaxFaults /\ faults' = faults + 1
  /\ At(p, "add")
  /\ tmp' \in {tmp, [tmp EXCEPT ![Here(p)] = None]}
  /\ Done(p)
  /\ UNCHANGED <<upstream, disk, lastKept, protected, saved, live, loading, mu, ops, ages>>

\* ipset swap fails when one of the sets is gone.
Swap(p) ==
  /\ At(p, "swap")
  /\ IF tmp[Here(p)] = None THEN Done(p) /\ UNCHANGED kernel
     ELSE /\ live' = [live EXCEPT ![Here(p)] = tmp[Here(p)]]
          /\ tmp' = [tmp EXCEPT ![Here(p)] = live[Here(p)]]
          /\ loading' = loading \ {Here(p)}
          /\ Goto(p, "destroy")
  /\ UNCHANGED <<upstream, disk, lastKept, protected, saved, mu, bounds>>

Destroy(p) ==
  /\ At(p, "destroy")
  /\ tmp' = [tmp EXCEPT ![Here(p)] = None]
  /\ Done(p)
  /\ UNCHANGED <<upstream, disk, lastKept, protected, saved, live, loading, mu, bounds>>

-----------------------------------------------------------------------------
(* The rest of a request *)

Lock(p) ==
  /\ At(p, "lock") /\ mu = None
  /\ IF proc[p].op = "save" THEN saved' = proc[p].lan /\ Finish(p) /\ UNCHANGED mu
     ELSE mu' = p /\ Goto(p, "flush") /\ UNCHANGED saved
  /\ UNCHANGED <<upstream, disk, lastKept, protected, kernel, bounds>>

\* emitGeoSets: the script restores the ipset file into the very set ...
Flush(p) ==
  /\ At(p, "flush")
  /\ live' = [live EXCEPT ![Here(p)] = {}]
  /\ loading' = loading \cup {Here(p)}
  /\ Hold(p, file[Here(p)], "fill")
  /\ UNCHANGED <<upstream, disk, lastKept, protected, saved, tmp, mu, bounds>>

\* ... and then the chains follow; the apply is over.
Fill(p) ==
  /\ At(p, "fill")
  /\ live' = [live EXCEPT ![Here(p)] = @ \cup proc[p].kept]
  /\ loading' = loading \ {Here(p)}
  /\ NextList(p, "flush", "idle")
  /\ mu' = IF proc[p].at < Last(p) THEN mu ELSE None
  /\ UNCHANGED <<upstream, disk, lastKept, protected, saved, tmp, bounds>>

\* The restore fails, and the engine reverts, or runEngine's deadline kills
\* both and the chains of an earlier apply stay: either way the set is there
\* with a part of its entries.
FillFails(p) ==
  /\ faults < MaxFaults /\ faults' = faults + 1
  /\ At(p, "fill")
  /\ \E part \in SUBSET proc[p].kept : live' = [live EXCEPT ![Here(p)] = @ \cup part]
  /\ Finish(p)
  /\ mu' = None
  /\ UNCHANGED <<upstream, disk, lastKept, protected, saved, tmp, loading, ops, ages>>

-----------------------------------------------------------------------------
(* The environment *)

\* A publisher goes on to the next version, fails, or recovers.
Publisher ==
  /\ \/ upstream.ver + 1 \in Versions /\ upstream' = [upstream EXCEPT !.ver = @ + 1]
     \/ upstream' = [upstream EXCEPT !.good = ~@]
  /\ UNCHANGED <<disk, lastKept, protected, saved, kernel, mu, proc, bounds>>

\* A cached list becomes older than maxAge.
Ages(l) ==
  /\ fresh[l] /\ ages < MaxAge
  /\ fresh' = [fresh EXCEPT ![l] = FALSE]
  /\ ages' = ages + 1
  /\ UNCHANGED <<upstream, cache, file, lastKept, protected, saved, kernel, mu, proc, ops, faults>>

\* The daemon restarts, and a running engine goes with it; files and sets stay.
Restart ==
  /\ faults < MaxFaults /\ faults' = faults + 1
  /\ mu' = None
  /\ proc' = [p \in Proc |-> Idle]
  /\ lastKept' = [f \in Feed |-> {}]
  /\ protected' = None
  /\ UNCHANGED <<upstream, disk, saved, kernel, ops, ages>>

-----------------------------------------------------------------------------
Init ==
  /\ upstream = [ver |-> 1, good |-> TRUE]
  /\ cache = [l \in List |-> 0]
  /\ fresh = [l \in List |-> FALSE]
  /\ file = [l \in List |-> None]
  /\ lastKept = [f \in Feed |-> {}]
  /\ protected = None
  /\ saved \in LANs
  /\ live = [l \in List |-> None]
  /\ tmp = [f \in Feed |-> None]
  /\ loading = {}
  /\ mu = None
  /\ proc = [p \in Proc |-> Idle]
  /\ ops = 0 /\ ages = 0 /\ faults = 0

Step(p) ==
  \/ Protect(p) \/ Fetch(p) \/ Render(p) \/ Write(p) \/ Keep(p)
  \/ ListLive(p) \/ Load(p) \/ Add(p) \/ Swap(p) \/ Destroy(p)
  \/ Lock(p) \/ Flush(p) \/ Fill(p)

Next ==
  \/ \E p \in Request : PostApply(p) \/ FillFails(p) \/ \E lan \in LANs : PostRules(p, lan)
  \/ \E p \in Refresher : RefreshFeeds(p) \/ LoadFails(p)
  \/ \E p \in Proc : Step(p)
  \/ Publisher \/ Restart
  \/ \E l \in List : Ages(l)

Spec == Init /\ [][Next]_vars

\* Goroutines run on, and the ticker of RunFeedRefresh ticks.
Fairness ==
  /\ \A p \in Proc : WF_vars(Step(p))
  /\ \A p \in Refresher : WF_vars(RefreshFeeds(p))

FairSpec == Spec /\ Fairness

-----------------------------------------------------------------------------
(* Properties *)

Kept(f, v, P) == Version[v] \ UNION {SpecialUse, P}

\* The set the chains match is never empty or a part of a list, except while
\* an apply loads it, and after one whose load failed or was killed until the
\* next load or refresh: refreshes that stop half-way or restart, temporary sets
\* they leave behind, and swaps in the middle of an apply included.
LiveIsWhole ==
  \A f \in Feed : live[f] # None /\ f \notin loading =>
    \E v \in Versions, P \in SUBSET LANs :
      Cardinality(P) <= 1 /\ Kept(f, v, P) # {} /\ Kept(f, v, P) \subseteq live[f]

\* No feed blocks a special-use range or the one LAN there is, through
\* whichever of cache, ipset file, lastKept and temporary set it came.
NeverBlocksOwn ==
  \A f \in Feed : live[f] # None =>
    /\ live[f] \cap SpecialUse = {}
    /\ Cardinality(LANs) = 1 => live[f] \cap LANs = {}

\* Neither a payload the bounds refuse nor a list the filter leaves nothing of
\* takes the place of what was there: a render reads a list its publisher has
\* served, and an ipset file has entries.
LastGoodIsKept ==
  /\ \A p \in Proc : At(p, "render") => cache[Here(p)] # 0
  /\ \A l \in List : file[l] # {}

\* A live feed catches up: once the publisher stays with a version the filter
\* leaves something of, the set in the kernel becomes that, and stays so: a set
\* an apply left half loaded included.
LiveCatchesUp ==
  \A f \in Feed, v \in Versions, lan \in LANs :
    Kept(f, v, {lan}) # {} /\ <>[](upstream = [ver |-> v, good |-> TRUE] /\ live[f] # None /\ saved = lan)
      => <>[](live[f] = Kept(f, v, {lan}))

-----------------------------------------------------------------------------
(* What the comments say and the code does not do *)

\* "Safe for concurrent use: the periodic refresh and a rules POST may render
\* at the same time" (Protect): a refresh leaves the saved LAN out of the set.
RefreshSparesLAN ==
  [][\A p \in Refresher : Swap(p) /\ live' # live => saved \notin live'[Here(p)]]_vars
=============================================================================
