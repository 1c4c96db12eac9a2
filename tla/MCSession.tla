----------------------------- MODULE MCSession -----------------------------
(* Instances of Session for TLC. *)
EXTENDS Session, TLC

MCSymmetry == UNION {Permutations(Requests), Permutations(Shells), Permutations(Accounts)}
=============================================================================
