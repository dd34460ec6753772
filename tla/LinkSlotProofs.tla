--------------------------- MODULE LinkSlotProofs ---------------------------
(***************************************************************************)
(* findLinkSlot, for ledgers of any length: the slot is never too early, on*)
(* an orderly ledger it is free, and there it is the earliest free one but *)
(* for the exact fit before the first link.                                *)
(***************************************************************************)
EXTENDS LinkSlot, WellFoundedInduction, TLAPS

-----------------------------------------------------------------------------
(* The loop of findLinkSlot always finds a place. *)

\* A non-empty set of naturals has a least member.
LEMMA LeastNat ==
    ASSUME NEW S \in SUBSET Nat, S # {}
    PROVE  \E x \in S : \A y \in S : x <= y
PROOF
<1>1. PICK x \in S : \A y \in S : ~(<<y, x>> \in OpToRel(<, Nat))
    BY NatLessThanWellFounded, WFMin
<1>2. \A y \in S : ~(y < x)
    BY <1>1 DEF OpToRel
<1> QED BY <1>2

\* The place the loop stops at: the last link leaves room, so there is a
\* first link that does.
LEMMA PlaceExists ==
    ASSUME NEW T, NEW link \in Seq(T), link # <<>>, NEW base, NEW dur
    PROVE  LET p == FirstPlace(base, dur, link)
           IN  /\ p \in DOMAIN link
               /\ FitsAfter(p, base, dur, link)
               /\ \A j \in DOMAIN link :
                      FitsAfter(j, base, dur, link) => p <= j
PROOF
<1> DEFINE Places == {i \in DOMAIN link : FitsAfter(i, base, dur, link)}
<1>1. Len(link) \in DOMAIN link
    OBVIOUS
<1>2. Len(link) \in Places
    BY <1>1 DEF FitsAfter
<1>3. Places \in SUBSET Nat /\ Places # {}
    BY <1>2
<1>4. PICK p \in Places : \A j \in Places : p <= j
    BY <1>3, LeastNat
<1>5. /\ p \in DOMAIN link
      /\ FitsAfter(p, base, dur, link)
      /\ \A j \in DOMAIN link : FitsAfter(j, base, dur, link) => p <= j
    BY <1>4
<1> HIDE DEF Places
<1> QED BY <1>5 DEF FirstPlace

\* What a ledger is made of.
LEMMA LedgerShape ==
    ASSUME NEW link \in Seq(Slot)
    PROVE  /\ DOMAIN link = 1 .. Len(link)
           /\ Len(link) \in Nat
           /\ \A k \in DOMAIN link :
                  /\ link[k] \in Slot
                  /\ link[k].start \in Nat
                  /\ link[k].fin \in Nat
PROOF
<1>1. DOMAIN link = 1 .. Len(link) /\ Len(link) \in Nat
    OBVIOUS
<1>2. \A k \in DOMAIN link : link[k] \in Slot
    OBVIOUS
<1>3. \A s \in Slot : s.start \in Nat /\ s.fin \in Nat
    BY DEF Slot
<1> QED BY <1>1, <1>2, <1>3

\* A slot has naturals for its ends, and is where findLinkSlot puts it.
LEMMA SlotShape ==
    ASSUME NEW T, \A e \in T : e.start \in Nat /\ e.fin \in Nat,
           NEW link \in Seq(T), NEW base \in Nat, NEW dur \in Nat
    PROVE  LET s == FindLinkSlot(base, dur, link)
           IN  /\ s \in Slot
               /\ s.start >= base
               /\ s.fin = s.start + dur
PROOF
<1>1. CASE link = <<>> \/ link[1].start > base + dur
    BY <1>1 DEF FindLinkSlot, SlotAt, Slot
<1>2. CASE ~(link = <<>> \/ link[1].start > base + dur)
    <2> DEFINE p == FirstPlace(base, dur, link)
    <2>1. p \in DOMAIN link
        BY <1>2, PlaceExists
    <2>2. link[p] \in T
        BY <2>1
    <2>3. Floor(p, base, link) \in Nat /\ Floor(p, base, link) >= base
        BY <2>2 DEF Floor, Later
    <2>4. FindLinkSlot(base, dur, link) = SlotAt(Floor(p, base, link), dur)
        BY <1>2 DEF FindLinkSlot
    <2> QED BY <2>3, <2>4 DEF SlotAt, Slot
<1> QED BY <1>1, <1>2

\* On an orderly ledger the slot is free.
LEMMA FreeSlot ==
    ASSUME NEW link \in Seq(Slot), NEW base \in Nat, NEW dur \in Nat,
           Orderly(link)
    PROVE  Clear(FindLinkSlot(base, dur, link), link)
PROOF
<1> SUFFICES ASSUME NEW i \in DOMAIN link
             PROVE  Apart(FindLinkSlot(base, dur, link), link[i])
    BY DEF Clear
<1>1. /\ \A k \in DOMAIN link :
             /\ link[k] \in Slot
             /\ link[k].start \in Nat
             /\ link[k].fin \in Nat
             /\ link[k].start < link[k].fin
      /\ \A k, l \in DOMAIN link : k < l => link[k].fin <= link[l].start
      /\ DOMAIN link = 1 .. Len(link)
      /\ Len(link) \in Nat
    BY LedgerShape DEF Orderly
<1>2. CASE link[1].start > base + dur
    <2>1. link[1].start <= link[i].start
        <3>1. CASE i = 1
            BY <3>1, <1>1
        <3>2. CASE i # 1
            <4>1. 1 \in DOMAIN link /\ 1 < i
                BY <3>2, <1>1
            <4>2. link[1].start < link[1].fin /\ link[1].fin <= link[i].start
                BY <4>1, <1>1
            <4> QED BY <4>1, <4>2, <1>1
        <3> QED BY <3>1, <3>2
    <2>2. FindLinkSlot(base, dur, link) = SlotAt(base, dur)
        BY <1>2 DEF FindLinkSlot
    <2>3. link[1].start \in Nat
        <3>1. 1 \in DOMAIN link
            BY <1>1
        <3> QED BY <3>1, <1>1
    <2> QED BY <1>1, <1>2, <2>1, <2>2, <2>3 DEF SlotAt, Apart
<1>3. CASE ~(link[1].start > base + dur)
    <2> DEFINE p == FirstPlace(base, dur, link)
               f == Floor(p, base, link)
    <2>1. link # <<>>
        BY <1>1
    <2>2. p \in DOMAIN link /\ FitsAfter(p, base, dur, link)
        BY <2>1, PlaceExists
    <2>3. FindLinkSlot(base, dur, link) = SlotAt(f, dur)
        BY <1>3, <2>1 DEF FindLinkSlot
    <2>4. f \in Nat /\ f >= link[p].fin
        BY <1>1, <2>2 DEF Floor, Later
    <2>5. CASE i <= p
        <3>1. link[i].fin <= link[p].fin
            <4>1. CASE i = p
                BY <4>1, <1>1
            <4>2. CASE i < p
                <5>1. /\ link[i].fin <= link[p].start
                      /\ link[p].start < link[p].fin
                    BY <4>2, <1>1, <2>2
                <5> QED BY <5>1, <1>1, <2>2
            <4> QED BY <2>5, <4>1, <4>2, <1>1, <2>2
        <3> QED BY <1>1, <2>2, <2>3, <2>4, <3>1 DEF SlotAt, Apart
    <2>6. CASE p < i
        <3>1. p + 1 \in DOMAIN link /\ p < Len(link) /\ p + 1 <= i
            BY <1>1, <2>2, <2>6
        <3>2. link[p + 1].start - f >= dur
            BY <2>2, <3>1 DEF FitsAfter
        <3>3. link[p + 1].start <= link[i].start
            <4>1. CASE i = p + 1
                BY <4>1, <1>1
            <4>2. CASE p + 1 < i
                <5>1. /\ link[p + 1].start < link[p + 1].fin
                      /\ link[p + 1].fin <= link[i].start
                    BY <4>2, <3>1, <1>1
                <5> QED BY <5>1, <3>1, <1>1
            <4> QED BY <3>1, <4>1, <4>2, <1>1, <2>2
        <3> HIDE DEF p, f
        <3> QED BY <1>1, <2>3, <2>4, <3>1, <3>2, <3>3 DEF SlotAt, Apart
    <2> QED BY <2>5, <2>6, <1>1, <2>2
<1> QED BY <1>2, <1>3

\* On an orderly ledger nothing free starts earlier: the first place that
\* leaves room would have been before it.
LEMMA EarliestSlot ==
    ASSUME NEW link \in Seq(Slot), NEW base \in Nat, NEW dur \in Nat \ {0},
           Orderly(link), ~ExactBeforeFirst(base, dur, link),
           NEW t \in base .. FindLinkSlot(base, dur, link).start - 1
    PROVE  ~Clear(SlotAt(t, dur), link)
PROOF
<1> SUFFICES ASSUME Clear(SlotAt(t, dur), link)
             PROVE  FALSE
    OBVIOUS
<1> DEFINE p == FirstPlace(base, dur, link)
           f == Floor(p, base, link)
           Behind == {k \in DOMAIN link : t + dur <= link[k].start}
<1>1. /\ \A k \in DOMAIN link :
             /\ link[k] \in Slot
             /\ link[k].start \in Nat
             /\ link[k].fin \in Nat
      /\ DOMAIN link = 1 .. Len(link)
      /\ Len(link) \in Nat
    BY LedgerShape
<1>2. FindLinkSlot(base, dur, link) \in Slot
    <2>1. \A e \in Slot : e.start \in Nat /\ e.fin \in Nat
        BY DEF Slot
    <2> QED BY <2>1, SlotShape
<1>3. t \in Nat /\ base <= t /\ t < FindLinkSlot(base, dur, link).start
    BY <1>2 DEF Slot
<1>4. ~(link = <<>> \/ link[1].start > base + dur)
    <2> SUFFICES ASSUME link = <<>> \/ link[1].start > base + dur
                 PROVE  FALSE
        OBVIOUS
    <2>1. FindLinkSlot(base, dur, link).start = base
        BY DEF FindLinkSlot, SlotAt
    <2> QED BY <2>1, <1>3
<1>5. /\ p \in DOMAIN link
      /\ \A j \in DOMAIN link : FitsAfter(j, base, dur, link) => p <= j
    BY <1>4, PlaceExists
<1>6. FindLinkSlot(base, dur, link).start = f
    BY <1>4 DEF FindLinkSlot, SlotAt
<1>7. \A k \in DOMAIN link : t + dur <= link[k].start \/ link[k].fin <= t
    BY DEF Clear, Apart, SlotAt
<1>8. f = link[p].fin /\ t < link[p].fin
    BY <1>1, <1>3, <1>5, <1>6 DEF Floor, Later
<1>9. p \in Behind
    BY <1>1, <1>5, <1>7, <1>8
<1>10. PICK j \in Behind : \A k \in Behind : j <= k
    <2>1. Behind \in SUBSET Nat /\ Behind # {}
        BY <1>1, <1>9
    <2> HIDE DEF Behind
    <2> QED BY <2>1, LeastNat
<1>11. CASE j = 1
    <2>1. base + dur <= link[1].start
        BY <1>1, <1>3, <1>10, <1>11
    <2>2. link[1].start # base + dur
        BY <1>4 DEF ExactBeforeFirst
    <2>3. link[1].start \in Nat
        BY <1>1, <1>10, <1>11
    <2> QED BY <2>1, <2>2, <2>3, <1>4
<1>12. CASE j # 1
    <2>1. /\ j \in DOMAIN link
          /\ j - 1 \in DOMAIN link
          /\ j - 1 < Len(link)
          /\ (j - 1) + 1 = j
        BY <1>1, <1>10, <1>12
    <2>2. j - 1 \notin Behind
        BY <2>1, <1>1, <1>10
    <2>3. link[j - 1].fin <= t
        BY <2>1, <2>2, <1>7
    <2>4. /\ Floor(j - 1, base, link) \in Nat
          /\ Floor(j - 1, base, link) <= t
        BY <1>1, <1>3, <2>1, <2>3 DEF Floor, Later
    <2>5. t + dur <= link[j].start
        BY <1>10
    <2>6. FitsAfter(j - 1, base, dur, link)
        BY <1>1, <1>3, <2>1, <2>4, <2>5 DEF FitsAfter
    <2>7. p <= j - 1
        BY <1>5, <2>1, <2>6
    <2>8. j <= p
        BY <1>9, <1>10
    <2> QED BY <1>1, <1>5, <2>1, <2>7, <2>8
<1> QED BY <1>11, <1>12
=============================================================================
