----------------------------- MODULE MCNodeAuth -----------------------------
(* Instances of NodeAuth for TLC. *)
EXTENDS NodeAuth, TLC

CONSTANTS t1, t2, t3

\* Node 1 is an old row that nobody touches, node 2 is the one that dials.
MCOldToken == [n \in NodeIds |-> IF n = 1 THEN t1 ELSE t2]

\* The handshakes are interchangeable, and so are the tokens not given out yet
\* (used with safety properties only).
MCSymmetry == Permutations(Callers)
=============================================================================
