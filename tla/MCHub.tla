------------------------------- MODULE MCHub -------------------------------
(* Instances of Hub for TLC. *)
EXTENDS Hub, TLC

CONSTANTS n1, a1, a2

\* Every connection is one of n1.
MCNodeOf == [c \in Conns |-> n1]

\* One change.
MCOne == [k \in Kinds |-> 1]
=============================================================================
