---------------------------- MODULE MCSignalling ----------------------------
(***************************************************************************)
(* Small instances of Signalling for TLC, without the background task.     *)
(***************************************************************************)
EXTENDS Signalling
=============================================================================
