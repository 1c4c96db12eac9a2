------------------------------- MODULE MCEdits -------------------------------
(* Instances of Edits for TLC. *)
EXTENDS Edits, TLC

CONSTANTS n1, n2, x, y, z, a1, a2

\* Two names have one slug.
MCSlug == [v \in Names |-> IF v = x THEN "x" ELSE "y"]
\* Two nodes, with two addresses.
MCStarts == {[n \in Nodes |-> [name |-> IF n = n1 THEN x ELSE y, address |-> IF n = n1 THEN a1 ELSE a2,
                             enabled |-> TRUE]]}
\* Requests are interchangeable (the properties are invariants).
MCSymmetry == Permutations(Requests)
=============================================================================
