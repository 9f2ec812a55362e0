---------------------------- MODULE MCCallShutdown ----------------------------
(***************************************************************************)
(* Small instances of CallShutdown for TLC.                                *)
(***************************************************************************)
EXTENDS CallShutdown
=============================================================================
