--------------------------- MODULE MCCallControl ---------------------------
(***************************************************************************)
(* Small instances of CallControl for TLC.                                 *)
(***************************************************************************)
EXTENDS CallControl, TLC

CallSymmetry == Permutations(Calls)
=============================================================================
