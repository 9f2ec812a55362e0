---------------------------- MODULE MCBackground ----------------------------
(***************************************************************************)
(* Small instances of Background, and with it of Signalling, for TLC.      *)
(***************************************************************************)
EXTENDS Background
=============================================================================
