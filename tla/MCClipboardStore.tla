-------------------------- MODULE MCClipboardStore --------------------------
(***************************************************************************)
(* Small instances of ClipboardStore for TLC: four contents, two of which  *)
(* share their plain text and so their hash.                               *)
(***************************************************************************)
EXTENDS ClipboardStore, TLC

CONSTANTS plain, rich, b, c, title

MCContent == {plain, rich, b, c}
MCHash == [x \in MCContent |-> IF x = rich THEN plain ELSE x]
MCTitles == {title}
MCQueries == {{b, c}}
MCStrictTicks == {1}
MCSymmetry == Permutations({b, c})
=============================================================================
