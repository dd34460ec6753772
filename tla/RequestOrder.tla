---------------------------- MODULE RequestOrder ----------------------------
(***************************************************************************)
(* The requests of the controller and the order the work queue serves them *)
(* in.                                                                     *)
(***************************************************************************)
EXTENDS Naturals

\* enums::request_type, the members that are ever queued.
Type == {"state_update", "halt_req", "low_complexity", "high_complexity"}

\* Fault: halts are ranked behind the low requests they make room for.
HaltsRankedLast == [state_update |-> 1, low_complexity |-> 3,
                    halt_req |-> 5, high_complexity |-> 6]

\* The values of enums::request_type: the smaller one is served first.
Priority == [state_update |-> 1, halt_req |-> 3,
             low_complexity |-> 5, high_complexity |-> 6]

\* The comparator of add_task. Two halts, or two state updates, are tied.
Before(a, b) ==
    \/ Priority[a.type] < Priority[b.type]
    \/ /\ a.type = b.type
       /\ a.type \in {"low_complexity", "high_complexity"}
       /\ a.deadline < b.deadline

\* The items whose workers may run next to each other.
Low(x) == x.type = "low_complexity"
=============================================================================
