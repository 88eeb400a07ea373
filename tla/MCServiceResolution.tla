------------------------ MODULE MCServiceResolution ------------------------
(***************************************************************************)
(* Small instances of ServiceResolution.                                   *)
(***************************************************************************)
EXTENDS ServiceResolution, TLC

KeySymmetry == Permutations(Key) \cup Permutations(Thread)
=============================================================================
