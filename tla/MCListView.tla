----------------------------- MODULE MCListView -----------------------------
(***************************************************************************)
(* A small instance of ListView for TLC: two contents, one of which a      *)
(* search finds.                                                           *)
(***************************************************************************)
EXTENDS ListView

CONSTANTS a, b, title

MCContent == {a, b}
MCHash == [x \in MCContent |-> x]
MCTitles == {title}
MCQueries == {{b}}
=============================================================================
