----------------------------- MODULE MCZfwApps -----------------------------
(* TLC instances of ZfwApps: which ports, and what the environment does. *)
EXTENDS ZfwApps

CONSTANTS web, dlna  \* a published port and one of a host-network app

=============================================================================
