------------------------------ MODULE TaskPool ------------------------------
(***************************************************************************)
(* What the work queue promises, without threads, locks or sequences:      *)
(* submitted tasks wait, the most urgent waiting task starts, a task runs  *)
(* alone unless everything running may share, and each task runs once.     *)
(*                                                                         *)
(* WorkQueue implements this specification (WorkQueue!Pool), and the       *)
(* allocation model takes its scheduling of the workers from it.           *)
(***************************************************************************)

CONSTANTS
    Task,           \* the tasks that can ever be submitted
    Shareable,      \* those that may run next to each other
    Before(_, _)    \* Before(a, b): a has to start before b

VARIABLES
    waiting,        \* submitted, not started
    active,         \* started, not finished
    served          \* finished

vars == <<waiting, active, served>>

Init ==
    /\ waiting = {}
    /\ active = {}
    /\ served = {}

Submit(x) ==
    /\ x \notin waiting \cup active \cup served
    /\ waiting' = waiting \cup {x}
    /\ UNCHANGED <<active, served>>

\* Nothing that waits is more urgent, and x runs alone or among sharers.
MayStart(x) ==
    /\ x \in waiting
    /\ \A y \in waiting : ~Before(y, x)
    /\ active # {} => active \cup {x} \subseteq Shareable

Start(x) ==
    /\ MayStart(x)
    /\ waiting' = waiting \ {x}
    /\ active' = active \cup {x}
    /\ UNCHANGED served

Finish(x) ==
    /\ x \in active
    /\ active' = active \ {x}
    /\ served' = served \cup {x}
    /\ UNCHANGED waiting

Next == \E x \in Task : Submit(x) \/ Start(x) \/ Finish(x)

Spec == Init /\ [][Next]_vars
=============================================================================
