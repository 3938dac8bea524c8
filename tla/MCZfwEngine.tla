---------------------------- MODULE MCZfwEngine ----------------------------
(* ZfwEngine with up to three rulesets: one confirmed, one under test and    *)
(* one only saved.  Rulesets are interchangeable, which a run may use unless *)
(* it checks liveness.                                                       *)
EXTENDS ZfwEngine, TLC

CONSTANTS r1, r2, r3

AnyOrder == Permutations(Scripts)
=============================================================================
