------------------------------- MODULE Outbox -------------------------------
(***************************************************************************)
(* What the outbound queue promises, without its order, its lock and its   *)
(* loop: a message is taken when its time has come and no other has an     *)
(* earlier time. A halt sweeps the outbox: only low complexity allocations *)
(* stay next to it.                                                        *)
(***************************************************************************)
EXTENDS Naturals

CONSTANTS
    Message         \* what can be sent: records with a type and a time

VARIABLES
    now,            \* the system clock
    outbox,         \* the messages waiting
    taken           \* those the loop has taken, in any order

vars == <<now, outbox, taken>>

Init == now \in Nat /\ outbox = {} /\ taken = {}

Tick == now' = now + 1 /\ UNCHANGED <<outbox, taken>>

LowOnly(messages) ==
    {m \in messages : m.type = "low_complexity_allocation"}

Add(m) ==
    /\ m \notin outbox \cup taken
    /\ outbox' = {m} \cup
            IF m.type = "halt_req" THEN LowOnly(outbox) ELSE outbox
    /\ UNCHANGED <<now, taken>>

Take(m) ==
    /\ m \in outbox
    /\ m.time <= now
    /\ \A n \in outbox : m.time <= n.time
    /\ outbox' = outbox \ {m}
    /\ taken' = taken \cup {m}
    /\ UNCHANGED now

Next == Tick \/ \E m \in Message : Add(m) \/ Take(m)

Spec == Init /\ [][Next]_vars
=============================================================================
