---------------------------- MODULE MCOperations ----------------------------
(***************************************************************************)
(* Small instances of Operations for TLC.  Addresses are interchangeable.  *)
(***************************************************************************)
EXTENDS Operations, TLC

AddrSymmetry == Permutations(Addr)
=============================================================================
