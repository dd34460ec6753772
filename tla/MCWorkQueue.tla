---------------------------- MODULE MCWorkQueue -----------------------------
(* Instances of WorkQueue for TLC. *)
EXTENDS WorkQueue, TLC

CONSTANTS r1, r2, r3

\* One request is due before the others, which are tied.
MCDue == [r \in Req |-> IF r = r3 THEN 2 ELSE 1]

\* r1 and r2 are only told apart by equality.
Symmetric == Permutations({r1, r2})
=============================================================================
