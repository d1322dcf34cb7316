------------------------- MODULE MCClipboardWatcher -------------------------
(***************************************************************************)
(* Small instances of ClipboardWatcher for TLC: a type of content and      *)
(* one that is never asked for.                                            *)
(***************************************************************************)
EXTENDS ClipboardWatcher

MCContents == {{"text", "TARGETS"}}
MCSkipped == {"TARGETS"}
=============================================================================
