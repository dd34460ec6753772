------------------------------ MODULE LinkSlot ------------------------------
(***************************************************************************)
(* findLinkSlot: where on the shared network link a transfer goes.         *)
(*                                                                         *)
(* The ledger is a sequence of records with a start and a fin, in          *)
(* milliseconds. How long a transfer of some size takes at the measured    *)
(* bandwidth is left to the callers' constants: it is the rounded up       *)
(* quotient plus one, so never 0.                                          *)
(***************************************************************************)
EXTENDS Integers, Sequences

Slot == [start : Nat, fin : Nat]

Later(a, b) == IF a > b THEN a ELSE b

SlotAt(t, dur) == [start |-> t, fin |-> t + dur]

\* Fault: the place after link i, even if the data only exists later.
EndOf(i, base, link) == link[i].fin

\* The place after link i that is not before base.
Floor(i, base, link) == Later(link[i].fin, base)

\* Fault: a gap is measured from the end of link i even if base is later.
FitsFromEnd(i, base, dur, link) ==
    i < Len(link) => link[i + 1].start - link[i].fin >= dur

\* The transfer fits between link i and the next, or link i is the last.
FitsAfter(i, base, dur, link) ==
    i < Len(link) => link[i + 1].start - Floor(i, base, link) >= dur

\* Fault: the last link that leaves room is taken, not the first.
LastPlace(base, dur, link) ==
    CHOOSE i \in DOMAIN link :
        /\ FitsAfter(i, base, dur, link)
        /\ \A j \in DOMAIN link : FitsAfter(j, base, dur, link) => j <= i

\* The loop stops at the first link that leaves room behind it.
FirstPlace(base, dur, link) ==
    CHOOSE i \in DOMAIN link :
        /\ FitsAfter(i, base, dur, link)
        /\ \A j \in DOMAIN link : FitsAfter(j, base, dur, link) => i <= j

\* Only the first link is compared with >: there an exact fit is refused.
FindLinkSlot(base, dur, link) ==
    IF link = <<>> \/ link[1].start > base + dur
    THEN SlotAt(base, dur)
    ELSE SlotAt(Floor(FirstPlace(base, dur, link), base, link), dur)

-----------------------------------------------------------------------------
(* What a caller hopes for *)

\* Two transfers that share no time; they may touch.
Apart(a, b) == a.fin <= b.start \/ b.fin <= a.start

Clear(s, link) == \A i \in DOMAIN link : Apart(s, link[i])

\* Sorted by time, one transfer after the other: what the loop relies on.
Orderly(link) ==
    /\ \A i \in DOMAIN link : link[i].start < link[i].fin
    /\ \A i, j \in DOMAIN link : i < j => link[i].fin <= link[j].start

\* The one gap findLinkSlot refuses although it fits: exactly up to the
\* first link.
ExactBeforeFirst(base, dur, link) ==
    link # <<>> /\ link[1].start = base + dur
=============================================================================
