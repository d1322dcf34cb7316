--------------------------- MODULE MCPersistence ---------------------------
(***************************************************************************)
(* Small instances of Persistence for TLC: two contents that can be copied.*)
(***************************************************************************)
EXTENDS Persistence, TLC

CONSTANTS b, c, title

MCContent == {Blank, b, c}
MCHash == [x \in MCContent |-> x]
MCTitles == {title}
MCSymmetry == Permutations({b, c})

\* A bound on a run: once a write went astray, and until the next load, the
\* user does nothing more.  What InSync says is void until then anyway.
WaitsForLoad ==
  astray /\ phase = "idle" => Len(jobs') <= Len(jobs) /\ clock' = clock
=============================================================================
