-------------------------- MODULE MCScopeSelection --------------------------
(***************************************************************************)
(* Small instances of ScopeSelection: c is a singleton, a and b are scoped,*)
(* t is transient.                                                         *)
(***************************************************************************)
EXTENDS ScopeSelection, TLC

CONSTANTS c, a, b, t, s1, s2, f1, f2

\* No singleton holds what may go before it.
MCDeps == (c :> {Provider}) @@ (a :> {c, Provider}) @@ (b :> {a, t})
            @@ (t :> {a, Provider})

ScopeSymmetry ==
    Permutations({s1, s2}) \cup Permutations(RequestScope) \cup Permutations({f1, f2})
=============================================================================
