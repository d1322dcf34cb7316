--------------------------- MODULE MCClipboardSync ---------------------------
(***************************************************************************)
(* A small instance of ClipboardSync for TLC: two texts, of which a search *)
(* finds one.                                                              *)
(***************************************************************************)
EXTENDS ClipboardSync

CONSTANTS x, y

MCText == {x, y}
MCLimits == {1, 2}
MCSearches == {{x}}
MCBlanks == {}
=============================================================================
