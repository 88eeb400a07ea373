------------------------ MODULE MCParallelResolution ------------------------
(***************************************************************************)
(* Small instances of ParallelResolution: a scoped service that needs a    *)
(* singleton and a transient, and a transient that needs the scoped one.   *)
(***************************************************************************)
EXTENDS ParallelResolution, TLC

CONSTANTS single, scoped, trans, inner, s1, p

MCLifetime ==
    [x \in Service |-> IF x = single THEN "singleton"
                       ELSE IF x = scoped THEN "scoped" ELSE "transient"]

MCNeeds == [x \in Service |-> IF x = trans THEN {scoped}
                              ELSE IF x = scoped THEN {single, inner} ELSE {}]

\* Every owner is asked for every lifetime.
MCAsks == {<<s1, trans>>, <<s1, scoped>>, <<Root, single>>, <<p, scoped>>}

\* Nothing but transients without dependencies.
PlainAsks == {<<s1, trans>>}
PlainNeeds == [x \in Service |-> {}]

ThreadSymmetry == Permutations(Thread) \cup Permutations(Child)
=============================================================================
