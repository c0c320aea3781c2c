----------------------------- MODULE MCEventLog -----------------------------
(***************************************************************************)
(* Instances of EventLog for TLC: long and short events of two sessions,   *)
(* and a reader of one of them.                                            *)
(***************************************************************************)
EXTENDS EventLog, TLC

CONSTANTS e1, e2, e3, e4, r1, s1, s2

Sessions == e1 :> s1 @@ e2 :> s2 @@ e3 :> s1 @@ e4 :> s2
Filters == r1 :> s1

Symmetry == Permutations(Writers)

=============================================================================
