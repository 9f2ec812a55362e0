---------------------------- MODULE MCPipeFraming ----------------------------
(***************************************************************************)
(* Small instances of PipeFraming: a one-chunk message ("b", "q", a reply  *)
(* without text), one of two chunks, and one whose text has the delimiter. *)
(***************************************************************************)
EXTENDS PipeFraming

PlainMessages == {<<"bye">>, <<"m", "text">>}
TextMessages == {<<"bye">>, <<"m", Delimiter, "5">>}
=============================================================================
