------------------------------ MODULE MCStartup ------------------------------
(* One registration for each of two devices. *)
EXTENDS Startup

CONSTANTS r1, r2

MCSrcHost == [d \in Dnn |-> 1]

MCAllocatedHost ==
    [d \in Dnn |-> [r \in 0 .. MaxRun |->
        IF d \in HighDnn /\ r = 0 THEN 2 ELSE 1]]

MCFrom == (r1 :> 1) @@ (r2 :> 2)
=============================================================================
