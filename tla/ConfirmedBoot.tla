--------------------------- MODULE ConfirmedBoot ---------------------------
(***************************************************************************)
(* What the engine promises about boot persistence, without its processes, *)
(* files and timer (THREAT-MODEL.md: "Boot and every dockerd restart       *)
(* replay only the confirmed ruleset", never the current compiled.sh).     *)
(*                                                                         *)
(* tried  - the scripts that ran to their end since the last teardown      *)
(* replay - the script the next boot would run, None when it runs nothing  *)
(***************************************************************************)
CONSTANTS Scripts, None

VARIABLES tried, replay

vars == <<tried, replay>>

TypeOK ==
  /\ tried \subseteq Scripts
  /\ replay \in Scripts \cup {None}

Init ==
  /\ tried = {}
  /\ replay = None

\* A script ran to its end: it may be confirmed from now on.
Run(s) ==
  /\ tried' = tried \cup {s}
  /\ UNCHANGED replay

\* Only a script that has run can become the one boot replays.
Confirm(s) ==
  /\ s \in tried
  /\ replay' = s
  /\ UNCHANGED tried

\* The boot unit is taken away.
Withdraw ==
  /\ replay' = None
  /\ UNCHANGED tried

\* The end of a teardown: nothing is persisted, so nothing may be confirmed.
Forget ==
  /\ replay = None
  /\ tried' = {}
  /\ UNCHANGED replay

Next ==
  \/ \E s \in Scripts : Run(s) \/ Confirm(s)
  \/ Withdraw
  \/ Forget

Spec == Init /\ [][Next]_vars
=============================================================================
