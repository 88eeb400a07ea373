-------------------------- MODULE MCScopeDisposal --------------------------
(***************************************************************************)
(* Small instances of ScopeDisposal: x was constructed with y; y is a      *)
(* transient, x is cached for its owner.                                   *)
(***************************************************************************)
EXTENDS ScopeDisposal, TLC

CONSTANTS x, y, s1

MCDeps == [i \in {x, y} |-> IF i = x THEN {y} ELSE {}]

AreaSymmetry == Permutations(Area)
FlowSymmetry == AreaSymmetry \cup Permutations(Flow)
=============================================================================
