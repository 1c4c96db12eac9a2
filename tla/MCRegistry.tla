----------------------------- MODULE MCRegistry -----------------------------
(* Instances of Registry for TLC. *)
EXTENDS Registry, TLC

\* The external host names a port of its own.
MCHostPort == [h \in Hosts |-> 1]
MCSymmetry ==
    UNION {Permutations(Nodes), Permutations(Inbounds), Permutations(Addresses), Permutations(Policies)}
\* told is never read: states that differ in it alone have the same successors.
MCView == <<node, inbound, user, access, policy>>
=============================================================================
