----------------------------- MODULE LinkSearch -----------------------------
(***************************************************************************)
(* findLinkSlot on its own: any search on any ledger of a given set.       *)
(***************************************************************************)
EXTENDS LinkSlot

CONSTANTS
    Ledgers,        \* the ledgers searched
    Bases,          \* the earliest starts asked for
    Durations       \* how long the transfers take

ASSUME SearchAssumption ==
    /\ Ledgers \subseteq Seq(Slot)
    /\ Bases \subseteq Nat
    /\ Durations \subseteq Nat \ {0}

VARIABLES
    network_link,   \* the ledger
    search,         \* the search made last
    found           \* the slot it returned

vars == <<network_link, search, found>>

\* A search is made and answered; the ledger is passed by value.
Search(link, base, dur) ==
    /\ search' = [base |-> base, dur |-> dur]
    /\ found' = FindLinkSlot(base, dur, link)

Init ==
    /\ network_link \in Ledgers
    /\ \E base \in Bases, dur \in Durations :
        /\ search = [base |-> base, dur |-> dur]
        /\ found = FindLinkSlot(base, dur, network_link)

Next ==
    /\ \E base \in Bases, dur \in Durations : Search(network_link, base, dur)
    /\ UNCHANGED network_link

Spec == Init /\ [][Next]_vars

-----------------------------------------------------------------------------
(* Properties *)

\* Whatever the ledger, the slot has the length asked for and does not start
\* before the time asked for: data is never sent before it exists.
NotBeforeBase ==
    /\ found.start >= search.base
    /\ found.fin = found.start + search.dur

\* On a ledger that is sorted and free of overlaps the slot is free.
SlotIsFree == Orderly(network_link) => Clear(found, network_link)

\* On such a ledger no free slot of that length starts earlier, but for the
\* exact fit before the first link.
SlotIsEarliest ==
    Orderly(network_link)
        /\ ~ExactBeforeFirst(search.base, search.dur, network_link)
    => \A t \in search.base .. found.start - 1 :
            ~Clear(SlotAt(t, search.dur), network_link)
=============================================================================
