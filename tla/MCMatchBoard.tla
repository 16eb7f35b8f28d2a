---------------------------- MODULE MCMatchBoard ----------------------------
(* Instances of MatchBoard for TLC. *)
EXTENDS MatchBoard, TLC

CONSTANTS p1, p2, m1, m2

(* Nothing in the configuration tells the maps apart. *)
Maps == Permutations({m1, m2})
=============================================================================
