----------------------------- MODULE MCDelivery -----------------------------
(* Two high complexity DNNs that differ in nothing but their names. Host 1   *)
(* requests them; they run on host 2 at first, and at home after a halt.     *)
(* MCStartup has a low complexity DNN among its messages.                    *)
EXTENDS Delivery

MCSrcHost == [d \in Dnn |-> 1]

MCAllocatedHost == [d \in Dnn |-> [r \in 0 .. MaxRun |-> IF r = 0 THEN 2 ELSE 1]]

HighSymmetry == Permutations(HighDnn)
=============================================================================
