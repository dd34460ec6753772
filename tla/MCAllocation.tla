---------------------------- MODULE MCAllocation ----------------------------
(***************************************************************************)
(* Small systems for Allocation. The times keep the proportions that       *)
(* matter: a fast configuration is shorter than the slow one, a low task   *)
(* is shorter than both, and the cores are those of the code.              *)
(***************************************************************************)
EXTENDS Allocation

CONSTANTS l1, l2, l3, h1, h2, h3

LowOffer(d, h, deadline) ==
    [type |-> "low_complexity", dnns |-> <<d>>, host |-> h,
     deadline |-> deadline, start |-> 0, fin |-> 0]

HighOffer(dnns, h, deadline) ==
    [type |-> "high_complexity", dnns |-> dnns, host |-> h,
     deadline |-> deadline, start |-> 0, fin |-> 0]

MCDuration == [low_upload |-> 1, low_update |-> 1,
               high_upload |-> 1, transfer |-> 2, high_update |-> 1]

\* Three DNNs of one device fill it and go to the other one, where low
\* requests, which may run side by side, preempt for each other. The deadline
\* leaves some of the three out when the others come first.
PreemptDnn == {l1, l2, l3, h1, h2, h3}
PreemptOffers ==
    {LowOffer(l1, 2, 20), LowOffer(l2, 2, 30), LowOffer(l3, 2, 40)} \cup
    {HighOffer(<<h1, h2, h3>>, 1, 28)}

\* One device, low requests that may run side by side, and a deadline that a
\* low request cannot meet.
RaceDnn == {l1, l2, l3, h1}
RaceOffers ==
    {LowOffer(l1, 1, 3), LowOffer(l2, 1, 30), LowOffer(l3, 1, 30),
     HighOffer(<<h1>>, 1, 30)}
=============================================================================
