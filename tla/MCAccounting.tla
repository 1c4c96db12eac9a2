---------------------------- MODULE MCAccounting ----------------------------
(* Small instances of Accounting: a calendar whose months have two days and   *)
(* one in turn, the odd ones two.  34 is the second of November of the first   *)
(* year, 35 December, 36 and 37 January of the next, 38 February.              *)
EXTENDS Accounting, TLC

MCLength == [m \in Years \X (1..12) |-> IF m[2] % 2 = 1 THEN 2 ELSE 1]

\* Two months make three days.
MCFirstDay ==
    [m \in Years \X (1..12) |->
        18 * m[1] + 3 * ((m[2] - 1) \div 2) + (IF m[2] % 2 = 1 THEN 0 ELSE 2)]

\* Months of five days.
MCLongLength == [m \in Years \X (1..12) |-> 5]
MCLongFirstDay == [m \in Years \X (1..12) |-> 60 * m[1] + 5 * (m[2] - 1)]
\* Two requests are interchangeable (used with safety properties only).
MCSymmetry == Permutations(Editors)
=============================================================================
