------------------------- MODULE MCPushRegistration -------------------------
(***************************************************************************)
(* Small instances of PushRegistration for TLC.  Registrations and tokens  *)
(* are interchangeable.                                                    *)
(***************************************************************************)
EXTENDS PushRegistration, TLC

PushSymmetry == Permutations(Registrations) \cup Permutations(Tokens)
=============================================================================
