-------------------------- MODULE LinkSearchProofs --------------------------
(***************************************************************************)
(* Every search on every ledger of LinkSearch.                             *)
(***************************************************************************)
EXTENDS LinkSearch, LinkSlotProofs

-----------------------------------------------------------------------------
(* The searches of LinkSearch *)

\* Every state holds a ledger, a search on it and its answer.
Answered ==
    /\ network_link \in Seq(Slot)
    /\ search.base \in Nat
    /\ search.dur \in Nat \ {0}
    /\ found = FindLinkSlot(search.base, search.dur, network_link)

\* Each state of a search holds the answer of findLinkSlot.
LEMMA AlwaysAnswered == Spec => []Answered
PROOF
<1>1. Init => Answered
    BY SearchAssumption DEF Init, Answered
<1>2. Answered /\ [Next]_vars => Answered'
    <2> SUFFICES ASSUME Answered, [Next]_vars
                 PROVE  Answered'
        OBVIOUS
    <2>1. CASE Next
        BY <2>1, SearchAssumption DEF Answered, Next, Search
    <2>2. CASE UNCHANGED vars
        BY <2>2 DEF Answered, vars
    <2> QED BY <2>1, <2>2
<1> QED BY <1>1, <1>2, PTL DEF Spec

\* Data is never sent before it exists, whatever the ledger.
THEOREM NeverEarly == Spec => []NotBeforeBase
PROOF
<1>1. Answered => NotBeforeBase
    <2>1. \A e \in Slot : e.start \in Nat /\ e.fin \in Nat
        BY DEF Slot
    <2> QED BY <2>1, SlotShape DEF Answered, NotBeforeBase
<1> QED BY <1>1, AlwaysAnswered, PTL

\* On an orderly ledger no two transfers get the same time.
THEOREM OrderlyIsFree == Spec => []SlotIsFree
PROOF
<1>1. Answered => SlotIsFree
    BY FreeSlot DEF Answered, SlotIsFree
<1> QED BY <1>1, AlwaysAnswered, PTL

\* On an orderly ledger no earlier slot of that length is free, but for an
\* exact fit before the first link.
THEOREM OrderlyIsEarliest == Spec => []SlotIsEarliest
PROOF
<1>1. Answered => SlotIsEarliest
    BY EarliestSlot DEF Answered, SlotIsEarliest
<1> QED BY <1>1, AlwaysAnswered, PTL
=============================================================================
