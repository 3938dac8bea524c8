---------------------------- MODULE RuleRegister ----------------------------
(***************************************************************************)
(* What the daemon promises about its one rule set, without its requests,  *)
(* lock, scripts and docker inventory: "Recompile so the engine applies    *)
(* the current rule set" (handlers.go, apply).                             *)
(*                                                                         *)
(* saved - the rule set the rules endpoint shows, None on a fresh install  *)
(* live  - the rule set the kernel enforces, None when the firewall is off *)
(* confirmed - the rule set that outlives a restart of dockerd, or None    *)
(***************************************************************************)
CONSTANTS RuleSet, None

VARIABLES saved, live, confirmed

vars == <<saved, live, confirmed>>

TypeOK ==
  /\ saved \in RuleSet \cup {None}
  /\ live \in RuleSet \cup {None}
  /\ confirmed \in RuleSet \cup {None}

Init == saved \in RuleSet \cup {None} /\ live = None /\ confirmed = None

\* A save replaces the rule set and leaves the firewall alone.
Save ==
  /\ saved' \in RuleSet
  /\ UNCHANGED <<live, confirmed>>

\* An apply puts in force what is saved at that moment, and nothing else.  A
\* plain one replaces what was confirmed before.
Apply ==
  /\ saved # None
  /\ live' = saved
  /\ confirmed' = confirmed \/ (confirmed # None /\ confirmed' = saved)
  /\ UNCHANGED saved

\* What is in force is confirmed.
Confirm ==
  /\ live # None
  /\ confirmed' = live
  /\ UNCHANGED <<saved, live>>

\* dockerd restarts: what was confirmed is in force again.
Replay ==
  /\ confirmed # None
  /\ live' = confirmed
  /\ UNCHANGED <<saved, confirmed>>

\* The firewall is torn down, and nothing stays confirmed.
Off ==
  /\ live' = None /\ confirmed' = None
  /\ UNCHANGED saved

Next == Save \/ Apply \/ Confirm \/ Replay \/ Off

Spec == Init /\ [][Next]_vars
=============================================================================
