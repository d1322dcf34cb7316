-------------------------- MODULE MCFavoritesWindow --------------------------
(***************************************************************************)
(* A small instance of FavoritesWindow for TLC: two favorites.             *)
(***************************************************************************)
EXTENDS FavoritesWindow

CONSTANTS a, b

MCContent == {a, b}
MCHash == [x \in MCContent |-> x]
MCCopies == << a, b >>
=============================================================================
