----------------------------- MODULE MCZfwGate -----------------------------
(* The user-service goes from one key to the next; a token of each, one of  *)
(* them without a kid.                                                      *)
EXTENDS ZfwGate, TLC

CONSTANTS k1, k2, nokid, a, b, c, r1, r2

MCJWKS == << {[key |-> k1, kid |-> k1]}, {[key |-> k2, kid |-> k2]} >>
MCToken == { [key |-> k1, kid |-> k1], [key |-> k2, kid |-> nokid] }
MCSymmetry == Permutations(Client) \cup Permutations(Request)
=============================================================================
