-------------------------- MODULE MCEditorSession --------------------------
(***************************************************************************)
(* A small instance of EditorSession for TLC: three texts, no two of       *)
(* which share a hash.                                                     *)
(***************************************************************************)
EXTENDS EditorSession, TLC

CONSTANTS b, c, d

MCContent == {b, c, d}
MCHash == [x \in MCContent |-> x]
=============================================================================
