--------------------------- MODULE DeliveryProofs ---------------------------
(***************************************************************************)
(* Proofs about Delivery for every set of DNNs, every bound on the clock   *)
(* and every number of halts: whatever the network does with messages and  *)
(* whenever devices report, each version on a device and each booked DNN   *)
(* has its explanation.                                                    *)
(*                                                                         *)
(* What Settled states promise is not inductive: it says nothing of what   *)
(* is still on its way. The invariant follows each version from the queue  *)
(* through the loop and the network to its device and back.                *)
(***************************************************************************)
EXTENDS Delivery, NetworkQueueProofs

\* What the loop has not posted yet.
Unposted == ToSet(comms) \cup (IF loop = "send" THEN ToSet(item) ELSE {})

IsAllocation(m) == IsLow(m) \/ IsHigh(m)

SameVersion(v, w) == v.dnn = w.dnn /\ v.run = w.run

\* What travels is about a DNN and was posted whole if its version is not
\* being halted; what a device has was posted as an allocation.
FlightInv ==
    /\ \A p \in flight : ~IsStart(p.message)
    /\ \A v \in held \cup reports :
        \E m \in sent : IsAllocation(m) /\ Same(m, v)

\* A version is on its way to its device, on it, or reported: in one place.
PlaceInv ==
    /\ \A p, q \in flight : p.message = q.message => p = q
    /\ \A p \in flight, v \in held \cup reports :
        IsAllocation(p.message) => ~Same(p.message, v)
    /\ \A v \in held, w \in reports : ~SameVersion(v, w)
    /\ \A v, w \in held : SameVersion(v, w) => v = w

\* Where messages go and versions are: a halt goes straight to the device the
\* version was allocated to, and what is whole is there.
HostInv ==
    /\ \A m \in Messages :
        /\ IsAllocation(m) => m.host = SrcHost[m.dnn]
        /\ IsHalt(m) => m.host = AllocatedHost[m.dnn][m.run]
    /\ \A p \in flight : IsHalt(p.message) => p.host = p.message.host
    /\ \A v \in held : v.whole => v.host = AllocatedHost[v.dnn][v.run]

\* Every version that ended has a halt, unless halt_call is about to queue it.
HaltsInv ==
    \A d \in HighDnn : \A r \in 0 .. MaxRun : r < run[d] =>
        \/ d \in halting /\ r + 1 = run[d]
        \/ \E m \in Messages \cup missed :
            IsHalt(m) /\ m.dnn = d /\ m.run = r

Booked(v) == v.dnn \in off_total /\ v.run = run[v.dnn]

Ending(v) == v.dnn \in halting /\ v.run + 1 = run[v.dnn]

\* Why a version that is on a device, or will be, may be there.
Excused(v) ==
    \/ Booked(v)
    \/ Ending(v)
    \/ \E m \in Unposted \cup missed : HaltOf(m, v)
    \/ \E p \in flight : HaltOf(p.message, v)
    \/ IdOf(v) \in overtaken
    \/ ~v.whole
    \/ v.dnn \in misread

ExcuseInv ==
    /\ \A v \in held : Excused(v)
    /\ \A p \in flight : IsAllocation(p.message) => Excused(VersionOf(p))
    /\ \A n \in Unposted : IsAllocation(n) =>
        \/ Booked(n) \/ Ending(n) \/ n.dnn \in misread
        \/ \E m \in Unposted \cup missed : HaltOf(m, n)

WholeVersion(d) ==
    [dnn |-> d, run |-> run[d], whole |-> TRUE,
     host |-> AllocatedHost[d][run[d]]]

\* Where the allocation of a booked DNN is.
KnownInv ==
    \A d \in off_total :
        \/ \E m \in Unposted \cup missed :
            IsAllocation(m) /\ m.dnn = d /\ m.run = run[d]
        \/ \E p \in flight :
            /\ IsAllocation(p.message) /\ p.whole
            /\ p.message.dnn = d /\ p.message.run = run[d]
        \/ WholeVersion(d) \in held \cup reports

NetInv ==
    /\ FlightInv /\ PlaceInv /\ HostInv /\ HaltsInv /\ SpoiltIsHalted
    /\ ExcuseInv /\ KnownInv

DeliveryInv == DeliveryTypeOK /\ QueueInv /\ LowNeverLost /\ NetInv

-----------------------------------------------------------------------------
(* What the steps of the queue are for the network *)

\* A message is posted or not.
Split == Messages = Unposted \cup sent /\ Unposted \cap sent = {}

\* The messages are the posted and the unposted ones, whatever the loop does.
LEMMA PostedOrNot == QueueInv => Split
<1> SUFFICES ASSUME QueueInv  PROVE Split
    OBVIOUS
<1> USE DEF Split
<1> USE DEF QueueInv
<1>1. Messages = ToSet(comms) \cup ToSet(item) \cup sent
    BY DEF Messages, Held
<1>2. CASE loop = "scan"
    <2>1. item = <<>>
        BY <1>2, EmptySeq DEF TypeOK
    <2>2. ToSet(item) = {}
        BY <2>1 DEF ToSet
    <2> QED  BY <1>1, <1>2, <2>2 DEF Unposted, LoopInv
<1>3. CASE loop # "scan"
    <2>1. ToSet(item) = {item[1]}
        BY <1>3, InHand
    <2> QED  BY <1>1, <1>3, <2>1 DEF Unposted, LoopInv, TypeOK
<1> QED  BY <1>2, <1>3

\* Now and after the step.
LEMMA PostedOrNotNext == QueueInv' => Split'
BY PostedOrNot, PTL

\* What messages are.
LEMMA MessageTypes ==
    ASSUME DeliveryTypeOK
    PROVE  /\ Messages \subseteq Message /\ Unposted \subseteq Message
           /\ \A m \in Message : m.run \in Nat
           /\ \A d \in Dnn : run[d] \in Nat
           /\ \A v \in Version : v.run \in Nat /\ v.dnn \in Dnn
<1>1. ToSet(comms) \subseteq Message /\ ToSet(item) \subseteq Message
    BY DEF DeliveryTypeOK, TypeOK, ToSet
<1>2. sent \subseteq Message /\ run \in [Dnn -> 0 .. MaxRun]
    BY DEF DeliveryTypeOK, TypeOK
<1>3. \A k \in 0 .. MaxRun : k \in Nat
    BY NetworkQueueAssumption
<1> QED
    BY <1>1, <1>2, <1>3 DEF Messages, Unposted, Held, Message, Version

\* Nothing is swept when the queue keeps its messages.
LEMMA NothingSwept ==
    ASSUME ToSet(comms) \subseteq ToSet(comms') \cup ToSet(item')
    PROVE  Swept = {}
BY DEF Swept

\* A step that leaves the messages, the books and the network alone.
LEMMA QuietKeeps ==
    ASSUME DeliveryInv, Unposted' = Unposted,
           UNCHANGED <<books, sent, flight, held, reports, overtaken, misread,
                       missed>>,
           QueueInv'
    PROVE  NetInv'
<1> USE DEF DeliveryInv, NetInv, books
<1>1. Messages' = Messages
    BY PostedOrNot, PostedOrNotNext DEF Split
<1>2. FlightInv' /\ PlaceInv'
    BY DEF FlightInv, PlaceInv, SameVersion, IsAllocation, IsLow, IsHigh,
           IsStart, Same
<1>3. HaltsInv' /\ HostInv'
    BY <1>1 DEF HaltsInv, HostInv, IsHalt, IsAllocation, IsLow, IsHigh
<1>4. SpoiltIsHalted'
    <2>1. (Held \cup sent)' = Held \cup sent
        BY <1>1 DEF Messages
    <2> QED  BY <2>1 DEF SpoiltIsHalted, HaltOf, VersionOf, IdOf
<1>5. ExcuseInv'
    BY DEF ExcuseInv, Excused, Booked, Ending, HaltOf, VersionOf, IdOf,
           IsAllocation, IsLow, IsHigh
<1>6. KnownInv'
    BY DEF KnownInv, WholeVersion, IsAllocation, IsLow, IsHigh
<1> QED  BY <1>2, <1>3, <1>4, <1>5, <1>6

\* A DNN that waited is booked and its allocation is queued.
LEMMA BookNet ==
    ASSUME DeliveryInv, QueueInv', NEW d \in waiting, NEW m \in Message,
           IsAllocation(m), m.dnn = d, m.run = run[d], m \notin Messages,
           m.host = SrcHost[d], halting = {},
           Unposted' = Unposted \cup {m},
           off_total' = off_total \cup {d},
           UNCHANGED <<halting, run, sent, flight, held, reports, overtaken,
                       misread, missed>>
    PROVE  NetInv'
<1> USE DEF DeliveryInv, NetInv
<1>1. Messages' = Messages \cup {m}
    BY PostedOrNot, PostedOrNotNext DEF Split
<1>2. FlightInv' /\ PlaceInv'
    BY DEF FlightInv, PlaceInv, SameVersion, IsAllocation, IsLow, IsHigh,
           IsStart, Same
<1>3. HaltsInv'
    BY <1>1 DEF HaltsInv, IsHalt
<1>4. SpoiltIsHalted'
    <2>1. (Held \cup sent)' = Messages \cup {m} /\ Held \cup sent = Messages
        BY <1>1 DEF Messages
    <2> QED  BY <2>1 DEF SpoiltIsHalted, HaltOf, VersionOf, IdOf
<1>5. \A v : Excused(v) => Excused(v)'
    BY DEF Excused, IdOf, Booked, Ending, HaltOf
<1>6. ExcuseInv'
    <2>1. \A v \in held : Excused(v)'
        BY <1>5 DEF ExcuseInv
    <2>2. \A p \in flight : IsAllocation(p.message) => Excused(VersionOf(p))'
        BY <1>5 DEF ExcuseInv
    <2>3. \A n \in Unposted' : IsAllocation(n) =>
            \/ Booked(n)' \/ Ending(n)' \/ n.dnn \in misread'
            \/ \E k \in Unposted' \cup missed' : HaltOf(k, n)
        BY DEF ExcuseInv, Booked, Ending
    <2> QED
        BY <2>1, <2>2, <2>3 DEF ExcuseInv, IsAllocation, IsLow, IsHigh,
                                HaltOf, VersionOf, IdOf
<1>7. KnownInv'
    BY DEF KnownInv, WholeVersion, VersionOf, IsAllocation, IsLow, IsHigh
<1>8. HostInv'
    BY <1>1 DEF HostInv, IsAllocation, IsLow, IsHigh, IsHalt
<1> QED  BY <1>2, <1>3, <1>4, <1>6, <1>7, <1>8

\* A booked DNN is taken off the maps and its version ends.
LEMMA BlankNet ==
    ASSUME DeliveryInv, QueueInv', NEW d \in HighDnn \cap off_total,
           halting = {}, halting' = {d}, off_total' = off_total \ {d},
           run' = [run EXCEPT ![d] = @ + 1],
           Unposted' = Unposted,
           UNCHANGED <<sent, flight, held, reports, overtaken, misread, missed>>
    PROVE  NetInv'
<1> USE DEF DeliveryInv, NetInv
<1>1. Messages' = Messages
    BY PostedOrNot, PostedOrNotNext DEF Split
<1>2. /\ run'[d] = run[d] + 1 /\ run[d] \in Nat
      /\ \A e \in Dnn : e # d => run'[e] = run[e]
    <2>1. run \in [Dnn -> 0 .. MaxRun] /\ d \in Dnn
        BY DEF DeliveryTypeOK, TypeOK, Dnn
    <2> QED  BY <2>1, NetworkQueueAssumption
<1>3. FlightInv' /\ PlaceInv'
    BY DEF FlightInv, PlaceInv, SameVersion, IsAllocation, IsLow, IsHigh,
           IsStart, Same
<1>4. HaltsInv'
    <2> SUFFICES ASSUME NEW e \in HighDnn, NEW r \in 0 .. MaxRun, r < run'[e]
                 PROVE  \/ e \in halting' /\ r + 1 = run'[e]
                        \/ \E m \in Messages \cup missed :
                            IsHalt(m) /\ m.dnn = e /\ m.run = r
        BY <1>1 DEF HaltsInv, IsHalt
    <2>1. CASE e = d /\ r = run[d]
        BY <1>2, <2>1
    <2>2. CASE ~(e = d /\ r = run[d])
        <3>1. r < run[e]
            BY <1>2, <2>2, NetworkQueueAssumption DEF Dnn
        <3> QED  BY <3>1 DEF HaltsInv
    <2> QED  BY <2>1, <2>2
<1>5. SpoiltIsHalted'
    <2>1. (Held \cup sent)' = Held \cup sent
        BY <1>1 DEF Messages
    <2> QED  BY <2>1 DEF SpoiltIsHalted, HaltOf, VersionOf, IdOf
<1>6. \A v : v.dnn \in Dnn /\ (Booked(v) \/ Ending(v)) => Booked(v)' \/ Ending(v)'
    BY <1>2 DEF Booked, Ending
<1>7. \A v : v.dnn \in Dnn /\ Excused(v) => Excused(v)'
    BY <1>6 DEF Excused, IdOf, HaltOf
<1>8. ExcuseInv'
    <2>1. \A v \in held : v.dnn \in Dnn
        BY DEF DeliveryTypeOK, Version
    <2>2. \A n \in Unposted : IsAllocation(n) => n.dnn \in Dnn
        BY PostedOrNot DEF Split, MessageInv, QueueInv, IsAllocation, Dnn
    <2>3. \A p \in flight : IsAllocation(p.message) => VersionOf(p).dnn \in Dnn
        <3>1. \A p \in flight : p.message \in Messages
            BY DEF DeliveryTypeOK, Messages
        <3> QED
            BY <3>1 DEF MessageInv, QueueInv, IsAllocation, Dnn, VersionOf
    <2>4. \A v \in held : Excused(v)'
        BY <1>7, <2>1 DEF ExcuseInv
    <2>5. \A p \in flight : IsAllocation(p.message) => Excused(VersionOf(p))'
        BY <1>7, <2>3 DEF ExcuseInv
    <2>6. \A n \in Unposted' : IsAllocation(n) =>
            \/ Booked(n)' \/ Ending(n)' \/ n.dnn \in misread'
            \/ \E k \in Unposted' \cup missed' : HaltOf(k, n)
        BY <1>6, <2>2 DEF ExcuseInv
    <2> QED
        BY <2>4, <2>5, <2>6 DEF ExcuseInv, IsAllocation, IsLow, IsHigh,
                                HaltOf, VersionOf, IdOf
<1>9. KnownInv'
    <2>1. off_total \subseteq Dnn
        BY DEF DeliveryTypeOK, TypeOK
    <2>2. \A e \in off_total' : e \in off_total /\ e # d /\ run'[e] = run[e]
        BY <1>2, <2>1
    <2> QED
        BY <2>2 DEF KnownInv, WholeVersion, VersionOf, IsAllocation, IsLow,
                    IsHigh
<1>10. HostInv'
    BY <1>1 DEF HostInv, IsAllocation, IsLow, IsHigh, IsHalt
<1> QED  BY <1>3, <1>4, <1>5, <1>8, <1>9, <1>10

\* Its halt is queued; what is swept counts as missed.
LEMMA HaltNet ==
    ASSUME DeliveryInv, QueueInv', NEW d \in HighDnn, NEW m \in Message,
           IsHalt(m), m.dnn = d, m.run + 1 = run[d],
           m.host = AllocatedHost[d][m.run],
           d \in halting, halting' = {},
           NEW S \in SUBSET Unposted,
           Unposted' = (Unposted \ S) \cup {m},
           missed' = missed \cup S,
           UNCHANGED <<off_total, run, sent, flight, held, reports, overtaken,
                       misread>>
    PROVE  NetInv'
<1> USE DEF DeliveryInv, NetInv
<1>1. Messages' = (Messages \ S) \cup {m}
    BY PostedOrNot, PostedOrNotNext DEF Split
<1>2. FlightInv' /\ PlaceInv'
    BY DEF FlightInv, PlaceInv, SameVersion, IsAllocation, IsLow, IsHigh,
           IsStart, Same
<1>3. m.run \in Nat /\ run[d] \in Nat
    BY MessageTypes DEF Dnn
<1>4. \A e \in halting : e = d
    BY DEF QueueInv, BookInv
<1>5. HaltsInv'
    <2> SUFFICES ASSUME NEW e \in HighDnn, NEW r \in 0 .. MaxRun, r < run[e]
                 PROVE  \E k \in Messages' \cup missed' :
                            IsHalt(k) /\ k.dnn = e /\ k.run = r
        BY DEF HaltsInv, IsHalt
    <2>1. CASE e \in halting /\ r + 1 = run[e]
        <3>1. e = d /\ m.run = r
            BY <1>3, <1>4, <2>1, NetworkQueueAssumption
        <3> QED  BY <1>1, <3>1
    <2>2. CASE \E k \in Messages \cup missed :
                IsHalt(k) /\ k.dnn = e /\ k.run = r
        BY <1>1, <2>2
    <2> QED  BY <2>1, <2>2 DEF HaltsInv
<1>6. \A v : v.run \in Nat /\ Ending(v) => HaltOf(m, v)
    BY <1>3, <1>4 DEF Ending, HaltOf, IsHalt
<1>7. \A v \in held : v.run \in Nat
    BY MessageTypes DEF DeliveryTypeOK
<1>8. \A p \in flight : VersionOf(p).run \in Nat
    <2>1. \A p \in flight : p.message \in Message
        BY DEF DeliveryTypeOK, TypeOK
    <2> QED  BY <2>1, MessageTypes DEF VersionOf
<1>9. \A n \in Unposted : n.run \in Nat
    BY MessageTypes
<1>10. SpoiltIsHalted'
    <2>1. (Held \cup sent)' = (Messages \ S) \cup {m}
          /\ Held \cup sent = Messages
        BY <1>1 DEF Messages
    <2>2. \A v : HaltOf(m, v)' = HaltOf(m, v)
        BY DEF HaltOf
    <2> SUFFICES ASSUME NEW v \in held \cup {VersionOf(p) : p \in flight},
                        ~v.whole
                 PROVE  \E k \in (Held \cup sent)' \cup missed' : HaltOf(k, v)
        BY DEF SpoiltIsHalted, VersionOf, HaltOf
    <2>3. v.run \in Nat
        BY <1>7, <1>8
    <2>4. \/ Ending(v) \/ \E k \in Messages \cup missed : HaltOf(k, v)
        BY <2>1, <2>3, MessageTypes DEF SpoiltIsHalted, Ending
    <2> QED  BY <1>6, <2>1, <2>3, <2>4
<1>11. \A v : v.run \in Nat /\ Excused(v) => Excused(v)'
    BY <1>6 DEF Excused, IdOf, Booked, HaltOf
<1>12. ExcuseInv'
    <2>1. \A v \in held : Excused(v)'
        BY <1>7, <1>11 DEF ExcuseInv
    <2>2. \A p \in flight : IsAllocation(p.message) => Excused(VersionOf(p))'
        BY <1>8, <1>11 DEF ExcuseInv
    <2>3. \A n \in Unposted' : IsAllocation(n) =>
            \/ Booked(n)' \/ Ending(n)' \/ n.dnn \in misread'
            \/ \E k \in Unposted' \cup missed' : HaltOf(k, n)
        <3> SUFFICES ASSUME NEW n \in Unposted', IsAllocation(n)
                     PROVE  \/ Booked(n) \/ n.dnn \in misread
                            \/ \E k \in Unposted' \cup missed' : HaltOf(k, n)
            BY DEF Booked
        <3>1. n \in Unposted
            BY DEF IsHalt, IsAllocation, IsLow, IsHigh
        <3> QED  BY <1>6, <1>9, <3>1 DEF ExcuseInv
    <2> QED
        BY <2>1, <2>2, <2>3 DEF ExcuseInv, IsAllocation, IsLow, IsHigh,
                                HaltOf, VersionOf, IdOf
<1>13. KnownInv'
    BY DEF KnownInv, WholeVersion, VersionOf, IsAllocation, IsLow, IsHigh
<1>14. HostInv'
    BY <1>1 DEF HostInv, IsAllocation, IsLow, IsHigh, IsHalt
<1> QED  BY <1>2, <1>5, <1>10, <1>12, <1>13, <1>14

\* The loop posts the message in its hand.
LEMMA PostNet ==
    ASSUME DeliveryInv, QueueInv', loop = "send",
           NEW m \in Message, m = item[1], m \in Unposted,
           IsAllocation(m) \/ IsHalt(m),
           Unposted' = Unposted \ {m}, Unposted' \subseteq ToSet(comms),
           sent' = sent \cup {m},
           NEW w \in Wholes(m),
           flight' = flight \cup {[message |-> m, whole |-> w,
                                host |-> m.host]},
           UNCHANGED <<halting, off_total, run, held, reports, overtaken,
                       misread, missed>>
    PROVE  NetInv'
<1> DEFINE p == [message |-> m, whole |-> w, host |-> m.host]
<1> USE DEF DeliveryInv, NetInv
<1>1. /\ Messages' = Messages /\ m \in Messages /\ m \notin sent
      /\ m \in sent'
    BY PostedOrNot, PostedOrNotNext DEF Split
<1>2. /\ p.message = m /\ p.whole = w /\ p.host = m.host
      /\ VersionOf(p).dnn = m.dnn /\ VersionOf(p).run = m.run
      /\ VersionOf(p).whole = w
    BY DEF VersionOf
<1> HIDE DEF p
<1>3. flight' = flight \cup {p}
    BY DEF p
<1>4. \A q \in flight : q.message \in sent
    BY DEF DeliveryTypeOK
<1>5. \A n \in sent : IsAllocation(n) /\ IsAllocation(m) => ~Same(n, m)
    <2> SUFFICES ASSUME NEW n \in sent, IsAllocation(n), IsAllocation(m),
                        Same(n, m)
                 PROVE  FALSE
        OBVIOUS
    <2>1. n \in Messages
        BY DEF Messages
    <2>2. n.type = m.type
        BY <1>1, <2>1, NetworkQueueAssumption
           DEF QueueInv, MessageInv, IsAllocation, IsLow, IsHigh, Same
    <2> QED  BY <1>1, <2>1, <2>2 DEF QueueInv, UniqueInv
<1>6. FlightInv'
    <2>1. \A q \in flight' : ~IsStart(q.message)
        BY <1>2, <1>3
           DEF FlightInv, IsStart, IsAllocation, IsLow, IsHigh, IsHalt
    <2>2. \A v \in held \cup reports :
            \E n \in sent' : IsAllocation(n) /\ Same(n, v)
        BY DEF FlightInv
    <2> QED
        BY <2>1, <2>2 DEF FlightInv, IsStart, IsAllocation, IsLow, IsHigh, Same
<1>7. PlaceInv'
    <2>1. \A q, r \in flight' : q.message = r.message => q = r
        BY <1>1, <1>2, <1>3, <1>4 DEF PlaceInv
    <2>2. \A q \in flight', v \in held \cup reports :
            IsAllocation(q.message) => ~Same(q.message, v)
        <3>1. ASSUME NEW v \in held \cup reports, IsAllocation(m), Same(m, v)
              PROVE  FALSE
            <4>1. PICK n \in sent : IsAllocation(n) /\ Same(n, v)
                BY DEF FlightInv
            <4> QED  BY <1>5, <3>1, <4>1 DEF Same
        <3> QED  BY <1>2, <1>3, <3>1 DEF PlaceInv
    <2> QED
        BY <2>1, <2>2 DEF PlaceInv, Same, SameVersion, IsAllocation, IsLow,
                          IsHigh
<1>8. HaltsInv'
    BY <1>1 DEF HaltsInv, IsHalt
<1>9. \/ w = TRUE
      \/ m.dnn \in HighDnn /\ run[m.dnn] > m.run
    BY DEF Wholes
<1>10. SpoiltIsHalted'
    <2>1. (Held \cup sent)' = Messages /\ Held \cup sent = Messages
        BY <1>1 DEF Messages
    <2>2. ASSUME NEW v \in held \cup {VersionOf(q) : q \in flight}, ~v.whole
          PROVE  \/ v.dnn \in halting /\ run[v.dnn] = v.run + 1
                 \/ \E k \in Messages \cup missed : HaltOf(k, v)
        BY <2>1, <2>2 DEF SpoiltIsHalted
    <2>3. ASSUME ~w
          PROVE  \/ m.dnn \in halting /\ run[m.dnn] = m.run + 1
                 \/ \E k \in Messages \cup missed : HaltOf(k, m)
        <3>1. m.dnn \in HighDnn /\ m.run < run[m.dnn] /\ m.run \in 0 .. MaxRun
            <4>1. run[m.dnn] \in Nat /\ m.run \in Nat
                BY <1>9, <2>3, MessageTypes DEF Dnn
            <4> QED  BY <1>9, <2>3, <4>1 DEF Message
        <3> QED  BY <3>1 DEF HaltsInv, HaltOf, IsHalt
    <2> SUFFICES ASSUME NEW v \in held \cup {VersionOf(q) : q \in flight'},
                        ~v.whole
                 PROVE  \/ v.dnn \in halting /\ run[v.dnn] = v.run + 1
                        \/ \E k \in Messages \cup missed : HaltOf(k, v)
        BY <2>1 DEF SpoiltIsHalted, VersionOf, HaltOf
    <2>4. CASE v = VersionOf(p)
        BY <1>2, <2>3, <2>4 DEF HaltOf
    <2>5. CASE v # VersionOf(p)
        BY <1>3, <2>2, <2>5
    <2> QED  BY <2>4, <2>5
<1>11. \A v : Excused(v) => Excused(v)'
    <2>1. \A v : HaltOf(m, v) => HaltOf(p.message, v)
        BY <1>2
    <2> QED  BY <1>3, <2>1 DEF Excused, IdOf, Booked, Ending, HaltOf
<1>12. \A n \in Unposted : IsAllocation(n) =>
            \/ Booked(n) \/ Ending(n) \/ n.dnn \in misread
            \/ \E k \in Unposted' \cup missed : HaltOf(k, n)
    <2> SUFFICES ASSUME NEW n \in Unposted, IsAllocation(n), HaltOf(m, n)
                 PROVE  FALSE
        BY DEF ExcuseInv
    <2>1. IsHalt(m) /\ Same(m, n) /\ n # m
        BY DEF HaltOf, IsHalt, Same, IsAllocation, IsLow, IsHigh
    <2>2. n \in ToSet(comms)
        BY <2>1
    <2>3. n \in Messages /\ n.dnn \in HighDnn
        <3>1. n \in Messages
            BY PostedOrNot DEF Split
        <3> QED  BY <1>1, <2>1, <3>1 DEF QueueInv, MessageInv, Same
    <2>4. IsHigh(n)
        BY <2>3, NetworkQueueAssumption DEF QueueInv, MessageInv, IsAllocation
    <2> QED  BY <1>1, <2>1, <2>2, <2>4 DEF QueueInv, SweptInv
<1>13. IsAllocation(m) => Excused(VersionOf(p))'
    <2> SUFFICES ASSUME IsAllocation(m)  PROVE Excused(VersionOf(p))'
        OBVIOUS
    <2> DEFINE v == VersionOf(p)
    <2>1. \/ Booked(m) \/ Ending(m) \/ m.dnn \in misread
          \/ \E k \in Unposted' \cup missed : HaltOf(k, m)
        BY <1>12
    <2>2. v.dnn = m.dnn /\ v.run = m.run /\ v' = v
        BY <1>2 DEF VersionOf, p
    <2> HIDE DEF v
    <2>3. Excused(v)'
        BY <2>1, <2>2 DEF Excused, IdOf, Booked, Ending, HaltOf
    <2> QED  BY <2>3 DEF v
<1>14. ExcuseInv'
    <2>1. \A v \in held : Excused(v)'
        BY <1>11 DEF ExcuseInv
    <2>2. \A q \in flight' : IsAllocation(q.message) => Excused(VersionOf(q))'
        BY <1>2, <1>3, <1>11, <1>13 DEF ExcuseInv
    <2>3. \A n \in Unposted' : IsAllocation(n) =>
            \/ Booked(n)' \/ Ending(n)' \/ n.dnn \in misread'
            \/ \E k \in Unposted' \cup missed' : HaltOf(k, n)
        BY <1>12 DEF Booked, Ending
    <2> QED
        BY <2>1, <2>2, <2>3 DEF ExcuseInv, IsAllocation, IsLow, IsHigh,
                                HaltOf, VersionOf, IdOf
<1>15. KnownInv'
    <2> SUFFICES ASSUME NEW d \in off_total
                 PROVE  \/ \E k \in Unposted' \cup missed :
                            IsAllocation(k) /\ k.dnn = d /\ k.run = run[d]
                        \/ \E q \in flight' :
                            /\ IsAllocation(q.message) /\ q.whole
                            /\ q.message.dnn = d /\ q.message.run = run[d]
                        \/ WholeVersion(d) \in held \cup reports
        BY DEF KnownInv, WholeVersion, VersionOf, IsAllocation, IsLow, IsHigh
    <2>1. CASE IsAllocation(m) /\ m.dnn = d /\ m.run = run[d]
        <3>1. d \in Dnn
            BY DEF DeliveryTypeOK, TypeOK
        <3>2. w = TRUE
            BY <1>9, <2>1, <3>1, MessageTypes
        <3> QED  BY <1>2, <1>3, <2>1, <3>2
    <2>2. CASE ~(IsAllocation(m) /\ m.dnn = d /\ m.run = run[d])
        BY <1>3, <2>2 DEF KnownInv
    <2> QED  BY <2>1, <2>2
<1>16. HostInv'
    BY <1>1, <1>2, <1>3 DEF HostInv, IsAllocation, IsLow, IsHigh, IsHalt
<1> QED  BY <1>6, <1>7, <1>8, <1>10, <1>14, <1>15, <1>16

\* There is one allocation of a version, so what a device got of it is not
\* queued again.
LEMMA PostedOnce ==
    ASSUME DeliveryInv, NEW v \in held \cup reports,
           NEW n \in Unposted, IsAllocation(n)
    PROVE  ~Same(n, v)
<1> USE DEF DeliveryInv
<1> SUFFICES ASSUME Same(n, v)  PROVE FALSE
    OBVIOUS
<1>1. PICK m \in sent : IsAllocation(m) /\ Same(m, v)
    BY DEF NetInv, FlightInv
<1>2. m \in Messages /\ n \in Messages /\ m # n
    BY PostedOrNot DEF Split
<1>3. m.type = n.type /\ Same(m, n)
    BY <1>1, <1>2, NetworkQueueAssumption
       DEF QueueInv, MessageInv, IsAllocation, IsLow, IsHigh, Same
<1> QED  BY <1>2, <1>3 DEF QueueInv, UniqueInv

\* A state update releases the DNN it names.
LEMMA UpdateKeeps ==
    ASSUME DeliveryInv, NEW v \in reports, StateUpdate(v), UNCHANGED missed
    PROVE  QueueInv' /\ NetInv'
<1> USE DEF DeliveryInv, NetInv
<1>1. /\ halting = {} /\ reports' = reports \ {v}
      /\ off_total' = off_total \ {v.dnn}
      /\ misread' = IF v.dnn \in off_total /\ v.run # run[v.dnn]
                    THEN misread \cup {v.dnn} ELSE misread
      /\ UNCHANGED <<now, comms, loop, item, awaited, hosts, waiting, halting,
                     run, starts, sent, flight, held, overtaken, missed>>
    BY DEF StateUpdate
<1>2. /\ Messages' = Messages /\ ToSet(comms)' = ToSet(comms)
      /\ Unposted' = Unposted
    BY <1>1 DEF Messages, Held, ToSet, Unposted
<1>3. QueueInv'
    <2>1. LoopInv'
        BY <1>1 DEF QueueInv, LoopInv, ToSet, InOrder, IsHalt, IsStart
    <2>2. MessageInv'
        BY <1>1, <1>2
           DEF QueueInv, MessageInv, IsLow, IsHigh, IsHalt, IsStart
    <2>3. UniqueInv' /\ SweptInv'
        BY <1>1, <1>2 DEF QueueInv, UniqueInv, SweptInv, Same, IsHigh, IsHalt
    <2>4. TypeOK' /\ BookInv'
        BY <1>1 DEF QueueInv, TypeOK, BookInv
    <2> QED  BY <2>1, <2>2, <2>3, <2>4 DEF QueueInv
<1>4. FlightInv' /\ PlaceInv'
    BY <1>1
       DEF FlightInv, PlaceInv, SameVersion, IsAllocation, IsLow, IsHigh,
           IsStart, Same
<1>5. HaltsInv'
    BY <1>1, <1>2 DEF HaltsInv, IsHalt
<1>6. SpoiltIsHalted'
    <2>1. (Held \cup sent)' = Held \cup sent
        BY <1>2 DEF Messages
    <2> QED  BY <1>1, <2>1 DEF SpoiltIsHalted, HaltOf, VersionOf, IdOf
<1>7. \A x : ~SameVersion(x, v) /\ Booked(x) => Booked(x)' \/ x.dnn \in misread'
    BY <1>1 DEF SameVersion, Booked
<1>8. \A x : ~SameVersion(x, v) /\ Excused(x) => Excused(x)'
    BY <1>1, <1>2, <1>7 DEF Excused, IdOf, Ending, HaltOf
<1>9. ExcuseInv'
    <2>1. \A x \in held : Excused(x)'
        BY <1>8 DEF ExcuseInv, PlaceInv, SameVersion
    <2>2. \A p \in flight : IsAllocation(p.message) => Excused(VersionOf(p))'
        <3>1. \A p \in flight : IsAllocation(p.message) =>
                ~SameVersion(VersionOf(p), v)
            BY DEF PlaceInv, Same, SameVersion, VersionOf
        <3> QED  BY <1>8, <3>1 DEF ExcuseInv
    <2>3. \A n \in Unposted : IsAllocation(n) =>
            \/ Booked(n)' \/ Ending(n)' \/ n.dnn \in misread'
            \/ \E k \in Unposted \cup missed : HaltOf(k, n)
        <3>1. \A n \in Unposted : IsAllocation(n) => ~SameVersion(n, v)
            BY PostedOnce DEF Same, SameVersion
        <3> QED  BY <1>1, <1>7, <3>1 DEF ExcuseInv, Ending
    <2> QED
        BY <1>1, <1>2, <2>1, <2>2, <2>3
           DEF ExcuseInv, IsAllocation, IsLow, IsHigh, HaltOf, VersionOf, IdOf
<1>10. KnownInv'
    <2>1. \A d \in off_total' : WholeVersion(d) \in held \cup reports =>
            WholeVersion(d) \in held \cup reports'
        BY <1>1 DEF WholeVersion
    <2> QED
        BY <1>1, <1>2, <2>1
           DEF KnownInv, WholeVersion, VersionOf, IsAllocation, IsLow, IsHigh
<1>11. HostInv'
    BY <1>1, <1>2 DEF HostInv, IsAllocation, IsLow, IsHigh, IsHalt
<1> QED  BY <1>3, <1>4, <1>5, <1>6, <1>9, <1>10, <1>11

-----------------------------------------------------------------------------
(* What the network and the devices do *)

\* They leave the program alone.
LEMMA NetworkKeepsQueue ==
    ASSUME DeliveryInv, UNCHANGED vars
    PROVE  /\ QueueInv' /\ TypeOK'
           /\ Messages' = Messages /\ Unposted' = Unposted
           /\ (Held \cup sent)' = Held \cup sent
           /\ LowNeverLost'
<1> USE DEF DeliveryInv, vars, books
<1>1. /\ QueueParts'
    BY SameQueue
<1>2. TypeOK'
    BY DEF QueueInv, TypeOK
<1>3. Messages' = Messages /\ Unposted' = Unposted /\ Held' = Held
    BY DEF Messages, Unposted, Held, ToSet
<1>4. LowNeverLost'
    BY <1>3 DEF LowNeverLost, IsLow
<1> QED  BY <1>1, <1>2, <1>3, <1>4 DEF QueueInv, QueueParts

\* An allocation reaches its device.
LEMMA ArriveNet ==
    ASSUME DeliveryInv, NEW p \in flight, ArriveAllocation(p), UNCHANGED missed
    PROVE  NetInv'
<1> USE DEF DeliveryInv, NetInv
<1> DEFINE v == VersionOf(p)
<1>1. /\ flight' = flight \ {p} /\ held' = held \cup {v}
      /\ UNCHANGED <<vars, reports, overtaken, misread, missed>>
      /\ UNCHANGED <<halting, run, off_total, sent>>
    BY DEF ArriveAllocation, vars, books
<1>2. /\ Messages' = Messages /\ Unposted' = Unposted
      /\ (Held \cup sent)' = Held \cup sent
    BY <1>1, NetworkKeepsQueue
<1>3. /\ p.message \in sent /\ p.message \in Message /\ IsAllocation(p.message)
      /\ Same(p.message, v) /\ v.whole = p.whole
      /\ p.whole => v.host = AllocatedHost[v.dnn][v.run]
    <2>1. p.message \in sent /\ sent \subseteq Message
        BY DEF DeliveryTypeOK, TypeOK
    <2>2. IsAllocation(p.message)
        BY <2>1
           DEF ArriveAllocation, FlightInv, Message, IsAllocation, IsLow,
               IsHigh, IsStart
    <2>3. p.whole => v.host = AllocatedHost[v.dnn][v.run]
        BY DEF ArriveAllocation, VersionOf, Target
    <2> QED  BY <2>1, <2>2, <2>3 DEF Same, VersionOf
<1>4. FlightInv'
    <2>1. \A x \in held' \cup reports : \E m \in sent : IsAllocation(m) /\ Same(m, x)
        BY <1>1, <1>3 DEF FlightInv
    <2> QED
        BY <1>1, <2>1 DEF FlightInv, IsStart, IsAllocation, IsLow, IsHigh, Same
<1>5. \A q \in flight \ {p} : IsAllocation(q.message) => ~Same(q.message, v)
    <2> SUFFICES ASSUME NEW q \in flight, IsAllocation(q.message),
                        Same(q.message, v), q # p
                 PROVE  FALSE
        OBVIOUS
    <2>1. q.message \in Messages /\ p.message \in Messages
        BY DEF DeliveryTypeOK, Messages
    <2>2. q.message.type = p.message.type /\ Same(q.message, p.message)
        BY <1>3, <2>1, NetworkQueueAssumption
           DEF QueueInv, MessageInv, IsAllocation, IsLow, IsHigh, Same
    <2>3. q.message = p.message
        BY <2>1, <2>2 DEF QueueInv, UniqueInv
    <2> QED  BY <2>3 DEF PlaceInv
<1>6. PlaceInv'
    <2>1. \A x \in held \cup reports : ~SameVersion(v, x)
        BY <1>3 DEF PlaceInv, Same, SameVersion
    <2> HIDE DEF v
    <2>2. \A q, r \in flight' : q.message = r.message => q = r
        BY <1>1 DEF PlaceInv
    <2>3. \A q \in flight', x \in held' \cup reports' :
            IsAllocation(q.message) => ~Same(q.message, x)
        BY <1>1, <1>5 DEF PlaceInv
    <2>4. \A x \in held', y \in reports' : ~SameVersion(x, y)
        BY <1>1, <2>1 DEF PlaceInv
    <2>5. \A x, y \in held' : SameVersion(x, y) => x = y
        BY <1>1, <2>1 DEF PlaceInv, SameVersion
    <2> QED
        BY <2>2, <2>3, <2>4, <2>5
           DEF PlaceInv, SameVersion, IsAllocation, IsLow, IsHigh, Same
<1>7. HaltsInv'
    BY <1>1, <1>2 DEF HaltsInv, IsHalt
<1>8. SpoiltIsHalted'
    <2>1. held' \cup {VersionOf(q) : q \in flight'}
            \subseteq held \cup {VersionOf(q) : q \in flight}
        BY <1>1
    <2> QED  BY <1>1, <1>2, <2>1 DEF SpoiltIsHalted, HaltOf, VersionOf, IdOf
<1>9. \A x : Excused(x) => Excused(x)'
    <2>1. \A x : ~HaltOf(p.message, x)
        BY <1>3 DEF HaltOf, IsAllocation, IsLow, IsHigh
    <2> QED
        BY <1>1, <1>2, <2>1 DEF Excused, IdOf, Booked, Ending, HaltOf
<1>10. ExcuseInv'
    <2>1. \A x \in held' : Excused(x)'
        BY <1>1, <1>3, <1>9 DEF ExcuseInv
    <2>2. \A q \in flight' : IsAllocation(q.message) => Excused(VersionOf(q))'
        BY <1>1, <1>9 DEF ExcuseInv
    <2>3. \A n \in Unposted : IsAllocation(n) =>
            \/ Booked(n)' \/ Ending(n)' \/ n.dnn \in misread'
            \/ \E k \in Unposted \cup missed : HaltOf(k, n)
        BY <1>1 DEF ExcuseInv, Booked, Ending
    <2> QED
        BY <1>1, <1>2, <2>1, <2>2, <2>3
           DEF ExcuseInv, IsAllocation, IsLow, IsHigh, HaltOf, VersionOf, IdOf
<1>11. KnownInv'
    <2> SUFFICES ASSUME NEW d \in off_total
                 PROVE  \/ \E k \in Unposted \cup missed :
                            IsAllocation(k) /\ k.dnn = d /\ k.run = run[d]
                        \/ \E q \in flight' :
                            /\ IsAllocation(q.message) /\ q.whole
                            /\ q.message.dnn = d /\ q.message.run = run[d]
                        \/ WholeVersion(d) \in held' \cup reports
        BY <1>1, <1>2
           DEF KnownInv, WholeVersion, VersionOf, IsAllocation, IsLow, IsHigh
    <2>1. CASE /\ p.whole /\ p.message.dnn = d /\ p.message.run = run[d]
        <3>1. v = WholeVersion(d)
            BY <1>3, <2>1 DEF VersionOf, WholeVersion, DeliveryTypeOK
        <3> QED  BY <1>1, <3>1
    <2>2. CASE ~(p.whole /\ p.message.dnn = d /\ p.message.run = run[d])
        BY <1>1, <2>2 DEF KnownInv
    <2> QED  BY <2>1, <2>2
<1>12. HostInv'
    BY <1>1, <1>2, <1>3 DEF HostInv, IsAllocation, IsLow, IsHigh, IsHalt
<1> QED  BY <1>4, <1>6, <1>7, <1>8, <1>10, <1>11, <1>12

\* An allocation is forwarded; only its place changes.
LEMMA ForwardNet ==
    ASSUME DeliveryInv, NEW p \in flight, Forward(p), UNCHANGED missed
    PROVE  NetInv'
<1> USE DEF DeliveryInv, NetInv
<1> DEFINE r == [p EXCEPT !.host = Target(p)]
<1>1. /\ flight' = (flight \ {p}) \cup {r}
      /\ UNCHANGED <<vars, held, reports, overtaken, misread, missed>>
      /\ UNCHANGED <<halting, run, off_total, sent>>
    BY DEF Forward, vars, books
<1>2. /\ Messages' = Messages /\ Unposted' = Unposted
      /\ (Held \cup sent)' = Held \cup sent
    BY <1>1, NetworkKeepsQueue
<1>3. r.message = p.message /\ r.whole = p.whole /\ ~IsHalt(p.message)
    BY DEF DeliveryTypeOK, Forward, IsHalt
<1> HIDE DEF r
<1>4. FlightInv'
    BY <1>1, <1>3
       DEF FlightInv, IsStart, IsAllocation, IsLow, IsHigh, Same
<1>5. PlaceInv'
    <2>1. \A q, s \in flight' : q.message = s.message => q = s
        BY <1>1, <1>3 DEF PlaceInv
    <2>2. \A q \in flight', v \in held \cup reports :
            IsAllocation(q.message) => ~Same(q.message, v)
        BY <1>1, <1>3 DEF PlaceInv
    <2> QED
        BY <1>1, <2>1, <2>2
           DEF PlaceInv, SameVersion, IsAllocation, IsLow, IsHigh, Same
<1>6. HaltsInv' /\ HostInv'
    BY <1>1, <1>2, <1>3
       DEF HaltsInv, HostInv, IsAllocation, IsLow, IsHigh, IsHalt
<1>7. SpoiltIsHalted'
    <2> SUFFICES ASSUME NEW v \in held \cup {VersionOf(q) : q \in flight'},
                        ~v.whole
                 PROVE  \/ v.dnn \in halting /\ run[v.dnn] = v.run + 1
                        \/ \E k \in (Held \cup sent) \cup missed : HaltOf(k, v)
        BY <1>1, <1>2 DEF SpoiltIsHalted, HaltOf, VersionOf
    <2>1. CASE v \in held \cup {VersionOf(q) : q \in flight}
        BY <2>1 DEF SpoiltIsHalted
    <2>2. CASE v = VersionOf(r)
        <3>1. /\ VersionOf(p).dnn = v.dnn /\ VersionOf(p).run = v.run
              /\ ~VersionOf(p).whole
            BY <1>3, <2>2 DEF VersionOf
        <3> QED  BY <3>1 DEF SpoiltIsHalted, HaltOf
    <2> QED  BY <1>1, <2>1, <2>2
<1>8. \A x : Excused(x) => Excused(x)'
    <2>1. \A x : HaltOf(p.message, x) => IsHalt(p.message)
        BY DEF HaltOf, IsHalt
    <2> QED
        BY <1>1, <1>2, <1>3, <2>1
           DEF Excused, IdOf, Booked, Ending, HaltOf
<1>9. ExcuseInv'
    <2>1. \A x \in held' : Excused(x)'
        BY <1>1, <1>8 DEF ExcuseInv
    <2>2. ASSUME NEW q \in flight', IsAllocation(q.message)
          PROVE  Excused(VersionOf(q))'
        <3>1. CASE q = r
            <4> DEFINE x == VersionOf(p)
                       y == VersionOf(r)
            <4>1. x.dnn = y.dnn /\ x.run = y.run /\ x.whole = y.whole
                BY <1>3 DEF VersionOf
            <4>2. Excused(x)
                BY <1>3, <2>2, <3>1 DEF ExcuseInv
            <4> HIDE DEF x, y
            <4>3. Excused(y)
                BY <4>1, <4>2 DEF Excused, IdOf, Booked, Ending, HaltOf
            <4> QED  BY <1>8, <3>1, <4>3 DEF y
        <3>2. CASE q # r
            BY <1>1, <1>8, <2>2, <3>2 DEF ExcuseInv
        <3> QED  BY <3>1, <3>2
    <2>3. \A n \in Unposted : IsAllocation(n) =>
            \/ Booked(n)' \/ Ending(n)' \/ n.dnn \in misread'
            \/ \E k \in Unposted \cup missed : HaltOf(k, n)
        BY <1>1 DEF ExcuseInv, Booked, Ending
    <2> QED
        BY <1>1, <1>2, <2>1, <2>2, <2>3
           DEF ExcuseInv, IsAllocation, IsLow, IsHigh, HaltOf, VersionOf, IdOf
<1>10. KnownInv'
    <2> SUFFICES ASSUME NEW d \in off_total
                 PROVE  \/ \E k \in Unposted \cup missed :
                            IsAllocation(k) /\ k.dnn = d /\ k.run = run[d]
                        \/ \E q \in flight' :
                            /\ IsAllocation(q.message) /\ q.whole
                            /\ q.message.dnn = d /\ q.message.run = run[d]
                        \/ WholeVersion(d) \in held \cup reports
        BY <1>1, <1>2
           DEF KnownInv, WholeVersion, VersionOf, IsAllocation, IsLow, IsHigh
    <2> QED  BY <1>1, <1>3 DEF KnownInv
<1> QED  BY <1>4, <1>5, <1>6, <1>7, <1>9, <1>10

\* A halt reaches its device, which drops the version it names; what is still
\* on its way of it is overtaken.
LEMMA HaltArrivesNet ==
    ASSUME DeliveryInv, NEW p \in flight, ArriveHalt(p), UNCHANGED missed
    PROVE  NetInv'
<1> USE DEF DeliveryInv, NetInv
<1> DEFINE m == p.message
           named == {v \in held : IdOf(v) = IdOf(m) /\ v.host = p.host}
           late == {q \in flight \ {p} : IdOf(q.message) = IdOf(m)}
<1>1. PICK kept \in SUBSET {v \in named : ~v.whole} :
        held' = (held \ named) \cup kept
    BY DEF ArriveHalt
<1>2. /\ flight' = flight \ {p} /\ IsHalt(m)
      /\ overtaken' = overtaken \cup {IdOf(q.message) : q \in late}
      /\ UNCHANGED <<vars, reports, misread, missed>>
      /\ UNCHANGED <<halting, run, off_total, sent>>
    BY DEF ArriveHalt, vars, books, IsHalt
<1>3. /\ Messages' = Messages /\ Unposted' = Unposted
      /\ (Held \cup sent)' = Held \cup sent
    BY <1>2, NetworkKeepsQueue
<1>4. /\ held' \subseteq held
      /\ \A v \in held' : v.whole => ~HaltOf(m, v)
      /\ \A v \in held : ~HaltOf(m, v) => v \in held'
    <2>1. \A v : HaltOf(m, v) <=> IdOf(v) = IdOf(m)
        BY <1>2 DEF HaltOf, IsHalt, IdOf
    <2>2. \A v \in held : v.whole /\ HaltOf(m, v) => v.host = p.host
        <3>1. m \in Messages /\ p.host = AllocatedHost[m.dnn][m.run]
            BY <1>2 DEF DeliveryTypeOK, Messages, HostInv
        <3> QED  BY <3>1 DEF HostInv, HaltOf
    <2> QED  BY <1>1, <2>1, <2>2
<1>5. FlightInv'
    BY <1>2, <1>4
       DEF FlightInv, IsStart, IsAllocation, IsLow, IsHigh, Same
<1>6. PlaceInv'
    BY <1>2, <1>4
       DEF PlaceInv, SameVersion, IsAllocation, IsLow, IsHigh, Same
<1>7. HaltsInv'
    BY <1>2, <1>3 DEF HaltsInv, IsHalt
<1>8. SpoiltIsHalted'
    <2>1. held' \cup {VersionOf(q) : q \in flight'}
            \subseteq held \cup {VersionOf(q) : q \in flight}
        BY <1>2, <1>4
    <2> QED  BY <1>2, <1>3, <2>1 DEF SpoiltIsHalted, HaltOf, VersionOf, IdOf
<1>9. \A x : Excused(x) /\ ~HaltOf(m, x) => Excused(x)'
    BY <1>2, <1>3 DEF Excused, IdOf, Booked, Ending, HaltOf
<1>10. ExcuseInv'
    <2>1. \A x \in held' : Excused(x)'
        <3>1. \A x \in held' : ~x.whole => Excused(x)'
            BY DEF Excused
        <3> QED  BY <1>4, <1>9, <3>1 DEF ExcuseInv
    <2>2. ASSUME NEW q \in flight', IsAllocation(q.message)
          PROVE  Excused(VersionOf(q))'
        <3>1. CASE HaltOf(m, VersionOf(q))
            <4>1. IdOf(VersionOf(q)) = IdOf(q.message) /\ q \in late
                BY <1>2, <2>2, <3>1 DEF HaltOf, VersionOf, IdOf
            <4>2. IdOf(VersionOf(q)) \in overtaken'
                BY <1>2, <4>1
            <4> QED  BY <4>2 DEF Excused, VersionOf, IdOf
        <3>2. CASE ~HaltOf(m, VersionOf(q))
            BY <1>2, <1>9, <2>2, <3>2 DEF ExcuseInv
        <3> QED  BY <3>1, <3>2
    <2>3. \A n \in Unposted : IsAllocation(n) =>
            \/ Booked(n)' \/ Ending(n)' \/ n.dnn \in misread'
            \/ \E k \in Unposted \cup missed : HaltOf(k, n)
        BY <1>2 DEF ExcuseInv, Booked, Ending
    <2> QED
        BY <1>2, <1>3, <2>1, <2>2, <2>3
           DEF ExcuseInv, IsAllocation, IsLow, IsHigh, HaltOf, VersionOf, IdOf
<1>11. KnownInv'
    <2> SUFFICES ASSUME NEW d \in off_total
                 PROVE  \/ \E k \in Unposted \cup missed :
                            IsAllocation(k) /\ k.dnn = d /\ k.run = run[d]
                        \/ \E q \in flight' :
                            /\ IsAllocation(q.message) /\ q.whole
                            /\ q.message.dnn = d /\ q.message.run = run[d]
                        \/ WholeVersion(d) \in held' \cup reports
        BY <1>2, <1>3
           DEF KnownInv, WholeVersion, VersionOf, IsAllocation, IsLow, IsHigh
    <2>1. ~IsAllocation(m)
        BY <1>2 DEF IsHalt, IsAllocation, IsLow, IsHigh
    <2>2. ~HaltOf(m, WholeVersion(d))
        <3>1. m \in Messages
            BY DEF DeliveryTypeOK, Messages
        <3>2. m.run < run[m.dnn] /\ m.run \in Nat
            BY <1>2, <3>1, MessageTypes DEF QueueInv, MessageInv
        <3> QED  BY <3>2 DEF HaltOf, WholeVersion
    <2> QED  BY <1>2, <1>4, <2>1, <2>2 DEF KnownInv
<1>12. HostInv'
    BY <1>2, <1>3, <1>4 DEF HostInv, IsAllocation, IsLow, IsHigh, IsHalt
<1> QED  BY <1>5, <1>6, <1>7, <1>8, <1>10, <1>11, <1>12

\* A message is lost; it counts as missed.
LEMMA LoseNet ==
    ASSUME DeliveryInv, NEW p \in flight, Lose(p),
           missed' = missed \cup {p.message}
    PROVE  NetInv'
<1> USE DEF DeliveryInv, NetInv
<1>1. /\ flight' = flight \ {p}
      /\ UNCHANGED <<vars, held, reports, overtaken, misread>>
      /\ UNCHANGED <<halting, run, off_total, sent>>
    BY DEF Lose, vars, books
<1>2. /\ Messages' = Messages /\ Unposted' = Unposted
      /\ (Held \cup sent)' = Held \cup sent
    BY <1>1, NetworkKeepsQueue
<1>3. FlightInv' /\ PlaceInv'
    BY <1>1
       DEF FlightInv, PlaceInv, SameVersion, IsAllocation, IsLow, IsHigh,
           IsStart, Same
<1>4. HaltsInv'
    BY <1>1, <1>2 DEF HaltsInv, IsHalt
<1>5. SpoiltIsHalted'
    <2>1. held' \cup {VersionOf(q) : q \in flight'}
            \subseteq held \cup {VersionOf(q) : q \in flight}
        BY <1>1
    <2> QED  BY <1>1, <1>2, <2>1 DEF SpoiltIsHalted, HaltOf, VersionOf, IdOf
<1>6. \A x : Excused(x) => Excused(x)'
    BY <1>1, <1>2 DEF Excused, IdOf, Booked, Ending, HaltOf
<1>7. ExcuseInv'
    <2>1. \A x \in held' : Excused(x)'
        BY <1>1, <1>6 DEF ExcuseInv
    <2>2. \A q \in flight' : IsAllocation(q.message) => Excused(VersionOf(q))'
        BY <1>1, <1>6 DEF ExcuseInv
    <2>3. \A n \in Unposted : IsAllocation(n) =>
            \/ Booked(n)' \/ Ending(n)' \/ n.dnn \in misread'
            \/ \E k \in Unposted \cup missed' : HaltOf(k, n)
        BY <1>1 DEF ExcuseInv, Booked, Ending
    <2> QED
        BY <1>1, <1>2, <2>1, <2>2, <2>3
           DEF ExcuseInv, IsAllocation, IsLow, IsHigh, HaltOf, VersionOf, IdOf
<1>8. KnownInv'
    <2> SUFFICES ASSUME NEW d \in off_total
                 PROVE  \/ \E k \in Unposted \cup missed' :
                            IsAllocation(k) /\ k.dnn = d /\ k.run = run[d]
                        \/ \E q \in flight' :
                            /\ IsAllocation(q.message) /\ q.whole
                            /\ q.message.dnn = d /\ q.message.run = run[d]
                        \/ WholeVersion(d) \in held \cup reports
        BY <1>1, <1>2
           DEF KnownInv, WholeVersion, VersionOf, IsAllocation, IsLow, IsHigh
    <2> QED  BY <1>1 DEF KnownInv
<1>9. HostInv'
    BY <1>1, <1>2 DEF HostInv, IsAllocation, IsLow, IsHigh, IsHalt
<1> QED  BY <1>3, <1>4, <1>5, <1>7, <1>8, <1>9

\* A device reports on a version; it is not on the device any more.
LEMMA ReportNet ==
    ASSUME DeliveryInv, NEW v \in held, Report(v), UNCHANGED missed
    PROVE  NetInv'
<1> USE DEF DeliveryInv, NetInv
<1>1. /\ held' = held \ {v} /\ reports' = reports \cup {v}
      /\ UNCHANGED <<vars, flight, overtaken, misread, missed>>
      /\ UNCHANGED <<halting, run, off_total, sent>>
    BY DEF Report, vars, books
<1>2. /\ Messages' = Messages /\ Unposted' = Unposted
      /\ (Held \cup sent)' = Held \cup sent
    BY <1>1, NetworkKeepsQueue
<1>3. FlightInv' /\ PlaceInv'
    BY <1>1
       DEF FlightInv, PlaceInv, SameVersion, IsAllocation, IsLow, IsHigh,
           IsStart, Same
<1>4. HaltsInv'
    BY <1>1, <1>2 DEF HaltsInv, IsHalt
<1>5. SpoiltIsHalted'
    BY <1>1, <1>2 DEF SpoiltIsHalted, HaltOf, VersionOf, IdOf
<1>6. ExcuseInv'
    <2>1. \A x \in held : Excused(x)'
        BY <1>1, <1>2 DEF ExcuseInv, Excused, IdOf, Booked, Ending, HaltOf
    <2>2. \A q \in flight : IsAllocation(q.message) => Excused(VersionOf(q))'
        BY <1>1, <1>2 DEF ExcuseInv, Excused, IdOf, Booked, Ending, HaltOf
    <2>3. \A n \in Unposted : IsAllocation(n) =>
            \/ Booked(n)' \/ Ending(n)' \/ n.dnn \in misread'
            \/ \E k \in Unposted \cup missed : HaltOf(k, n)
        BY <1>1 DEF ExcuseInv, Booked, Ending
    <2> QED
        BY <1>1, <1>2, <2>1, <2>2, <2>3
           DEF ExcuseInv, IsAllocation, IsLow, IsHigh, HaltOf, VersionOf, IdOf
<1>7. KnownInv'
    BY <1>1, <1>2
       DEF KnownInv, WholeVersion, VersionOf, IsAllocation, IsLow, IsHigh
<1>8. HostInv'
    BY <1>1, <1>2 DEF HostInv, IsAllocation, IsLow, IsHigh, IsHalt
<1> QED  BY <1>3, <1>4, <1>5, <1>6, <1>7, <1>8

-----------------------------------------------------------------------------
(* What the program does *)

\* A call of the controller.
LEMMA ControllerNet ==
    ASSUME DeliveryInv, Controller, missed' = missed \cup Swept,
           UNCHANGED network
    PROVE  NetInv'
<1> USE DEF DeliveryInv
<1>1. UNCHANGED <<flight, held, reports, overtaken, misread>> /\ QueueInv'
    BY ControllerKeeps DEF network
<1>2. ASSUME NEW d \in Dnn, NEW time \in 1 .. MaxTime, NEW type,
             Book(d, type, time),
             type \in {"low_complexity_allocation",
                       "high_complexity_task_mapping"}
      PROVE  NetInv'
    <2> DEFINE m == Mapping(d, type, time)
    <2>1. /\ m.dnn = d /\ m.run = run[d] /\ m \in Message
          /\ m.host = SrcHost[d] /\ IsAllocation(m) /\ ~IsHalt(m)
        BY <1>2, NetworkQueueAssumption
           DEF Mapping, Message, DeliveryTypeOK, TypeOK, IsAllocation, IsLow,
               IsHigh, IsHalt
    <2>2. /\ d \in waiting /\ halting = {} /\ AddTask(m)
          /\ off_total' = off_total \cup {d}
          /\ UNCHANGED <<now, loop, item, halting, run, sent>>
        BY <1>2 DEF Book
    <2>3. m \notin Messages
        BY <1>2, <2>2, FreshMessages
    <2> HIDE DEF m
    <2>4. ToSet(comms') = {m} \cup ToSet(comms)
        BY <2>1, <2>2, <2>3, AddKeeps DEF QueueInv
    <2>5. Unposted' = Unposted \cup {m}
        BY <2>2, <2>4 DEF Unposted, ToSet
    <2>6. UNCHANGED missed
        BY <2>4, NothingSwept
    <2> QED  BY <1>1, <2>1, <2>2, <2>3, <2>5, <2>6, BookNet
<1>3. ASSUME NEW d \in HighDnn, Blank(d)
      PROVE  NetInv'
    <2>1. /\ d \in off_total /\ halting = {} /\ halting' = {d}
          /\ off_total' = off_total \ {d}
          /\ run' = [run EXCEPT ![d] = @ + 1]
          /\ UNCHANGED <<comms, loop, item, sent>>
        BY <1>3 DEF Blank
    <2>2. Unposted' = Unposted /\ UNCHANGED missed
        BY <2>1, NothingSwept DEF Unposted, ToSet
    <2> QED  BY <1>1, <2>1, <2>2, BlankNet
<1>4. ASSUME NEW d \in HighDnn, Halt(d)
      PROVE  NetInv'
    <2> DEFINE m == HaltMessage(d)
    <2>1. /\ d \in halting /\ halting' = {} /\ AddTask(m)
          /\ UNCHANGED <<now, loop, item, off_total, run, sent>>
        BY <1>4 DEF Halt
    <2>2. run[d] \in 1 .. MaxRun /\ d \in Dnn
        BY <2>1, NetworkQueueAssumption
           DEF DeliveryTypeOK, TypeOK, QueueInv, BookInv, Dnn
    <2>3. run[d] - 1 \in 0 .. MaxRun /\ (run[d] - 1) + 1 = run[d]
        BY <2>2, NetworkQueueAssumption
    <2>4. m \in Message /\ IsHalt(m) /\ m.dnn = d /\ m.run + 1 = run[d]
          /\ ~IsLow(m) /\ m.host = AllocatedHost[d][m.run]
        BY <2>2, <2>3, NetworkQueueAssumption
           DEF HaltMessage, Message, DeliveryTypeOK, TypeOK, IsHalt, IsLow
    <2>5. m \notin Messages
        BY <2>1, FreshMessages
    <2> HIDE DEF m
    <2>6. ToSet(comms') = {m} \cup {n \in ToSet(comms) : IsLow(n)}
        BY <2>1, <2>4, <2>5, AddKeeps DEF QueueInv
    <2>7. /\ ToSet(item') = ToSet(item) /\ ToSet(item)' = ToSet(item)
          /\ ToSet(comms)' = ToSet(comms') /\ loop' = loop
          /\ ToSet(comms) \cap ToSet(item) = {} /\ m \notin ToSet(comms)
        BY <2>1, <2>5 DEF ToSet, QueueInv, LoopInv, Messages, Held
    <2>8. Swept \subseteq Unposted /\ Unposted' = (Unposted \ Swept) \cup {m}
        BY <2>6, <2>7 DEF Swept, Unposted
    <2> QED  BY <1>1, <2>1, <2>4, <2>8, HaltNet
<1> QED
    BY <1>2, <1>3, <1>4 DEF Controller, BookLow, BookHigh

\* The clock, the loop taking a message, or the answer to a halt.
LEMMA LoopNet ==
    ASSUME DeliveryInv, Tick \/ Pop \/ HaltAnswered,
           missed' = missed \cup Swept, UNCHANGED network
    PROVE  NetInv'
<1> USE DEF DeliveryInv
<1>1. UNCHANGED <<books, sent, flight, held, reports, overtaken, misread>>
    BY DEF network, Tick, Pop, HaltAnswered, books
<1>2. QueueInv'
    BY TickKeeps, LoopKeeps DEF Loop
<1>3. Unposted' = Unposted /\ ToSet(comms) \subseteq ToSet(comms') \cup ToSet(item')
    <2>1. CASE Tick
        BY <2>1 DEF Tick, Unposted, ToSet
    <2>2. CASE Pop
        <3>1. /\ Head(comms) \in ToSet(comms)
              /\ ToSet(comms') = ToSet(comms) \ {Head(comms)}
              /\ ToSet(item)' = {Head(comms)}
            BY <2>2, PopKeeps
        <3>2. loop = "scan" /\ loop' = "send" /\ ToSet(comms)' = ToSet(comms')
              /\ ToSet(item)' = ToSet(item')
            BY <2>2 DEF Pop, ToSet
        <3> QED  BY <3>1, <3>2 DEF Unposted
    <2>3. CASE HaltAnswered
        BY <2>3 DEF HaltAnswered, Unposted, ToSet
    <2> QED  BY <2>1, <2>2, <2>3
<1>4. UNCHANGED missed
    BY <1>3, NothingSwept
<1> QED  BY <1>1, <1>2, <1>3, <1>4, QuietKeeps

\* A message is posted.
LEMMA PostingNet ==
    ASSUME DeliveryInv, Post, missed' = missed \cup Swept
    PROVE  NetInv'
<1> USE DEF DeliveryInv
<1> DEFINE m == item[1]
<1>1. /\ loop = "send" /\ sent' = sent \cup {m}
      /\ loop' \in {"scan", "wait"}
      /\ UNCHANGED <<now, comms, awaited, hosts, books, starts>>
    BY DEF Post, PostAllocation, PostHalt
<1>2. IsAllocation(m) \/ IsHalt(m)
    BY DEF Post, PostAllocation, PostHalt, IsAllocation, IsLow, IsHigh, IsHalt
<1>3. QueueInv'
    BY LoopKeeps DEF Post, Loop
<1>4. PICK w \in Wholes(m) :
        flight' = flight \cup {[message |-> m, whole |-> w, host |-> m.host]}
    BY DEF Post
<1>5. UNCHANGED <<held, reports, overtaken, misread>>
    BY DEF Post
<1>6. m \in Message /\ ToSet(item) = {m} /\ m \notin ToSet(comms)
    BY <1>1, InHand DEF QueueInv, LoopInv
<1>7. /\ m \in Unposted /\ Unposted' = Unposted \ {m}
      /\ Unposted' \subseteq ToSet(comms)
    BY <1>1, <1>6 DEF Unposted, ToSet
<1>8. UNCHANGED missed
    BY <1>1, NothingSwept
<1> HIDE DEF m
<1>9. m = item[1]
    BY DEF m
<1> QED
    BY <1>1, <1>2, <1>3, <1>4, <1>5, <1>6, <1>7, <1>8, <1>9, PostNet DEF books

-----------------------------------------------------------------------------
(* The invariant *)

LEMMA DeliveryStart == DeliveryInit => DeliveryInv
<1> SUFFICES ASSUME DeliveryInit  PROVE DeliveryInv
    OBVIOUS
<1>1. /\ flight = {} /\ held = {} /\ reports = {} /\ crashed = FALSE
      /\ missed = {} /\ overtaken = {} /\ misread = {} /\ Init
    BY DEF DeliveryInit
<1>2. QueueInv
    BY <1>1, QueueInit
<1>3. /\ off_total = {} /\ run = [d \in Dnn |-> 0] /\ comms = <<>>
      /\ loop = "scan"
    BY <1>1 DEF Init
<1>4. Unposted = {}
    BY <1>3 DEF Unposted, ToSet
<1>5. DeliveryTypeOK
    BY <1>1, <1>2 DEF DeliveryTypeOK, QueueInv
<1>6. LowNeverLost
    BY <1>3 DEF LowNeverLost
<1>7. FlightInv /\ PlaceInv /\ SpoiltIsHalted /\ ExcuseInv /\ KnownInv
    BY <1>1, <1>3, <1>4
       DEF FlightInv, PlaceInv, SpoiltIsHalted, ExcuseInv, KnownInv
<1>9. HostInv
    <2>1. Messages = {}
        BY <1>1 DEF Init, Messages, Held, ToSet
    <2> QED  BY <1>1, <2>1 DEF HostInv
<1>8. HaltsInv
    <2>1. \A d \in HighDnn : run[d] = 0
        BY <1>3 DEF Dnn
    <2> QED  BY <2>1, NetworkQueueAssumption DEF HaltsInv
<1> QED  BY <1>2, <1>5, <1>6, <1>7, <1>8, <1>9 DEF DeliveryInv, NetInv

\* A message about a DNN is posted to a device.
LEMMA PostedHost ==
    ASSUME DeliveryInv, Post
    PROVE  item[1].host \in Host
<1> DEFINE m == item[1]
<1> USE DEF DeliveryInv
<1>1. loop = "send" /\ (IsAllocation(m) \/ IsHalt(m))
    BY DEF Post, PostAllocation, PostHalt, IsAllocation, IsLow, IsHigh, IsHalt
<1>2. m \in Message /\ m \in Messages
    BY <1>1, InHand DEF QueueInv, Messages, Held
<1> HIDE DEF m
<1>3. m.dnn \in Dnn /\ m.run \in 0 .. MaxRun
    BY <1>1, <1>2 DEF QueueInv, MessageInv, Message, IsAllocation, Dnn
<1>4. SrcHost[m.dnn] \in Host /\ AllocatedHost[m.dnn][m.run] \in Host
    BY <1>3, NetworkQueueAssumption
<1> QED  BY <1>1, <1>2, <1>4 DEF m, NetInv, HostInv

\* The device an allocation is for is one.
LEMMA TargetHost ==
    ASSUME DeliveryInv, NEW p \in flight, Forward(p)
    PROVE  Target(p) \in Host
<1> USE DEF DeliveryInv
<1>1. p.message \in Messages /\ p.message \in Message
    BY DEF DeliveryTypeOK, TypeOK, Messages
<1>2. ~IsStart(p.message) /\ ~IsHalt(p.message)
    BY DEF NetInv, FlightInv, Forward, IsHalt
<1>3. p.message.dnn \in Dnn /\ p.message.run \in 0 .. MaxRun
    BY <1>1, <1>2
       DEF QueueInv, MessageInv, Message, IsLow, IsHigh, IsHalt, IsStart, Dnn
<1> QED  BY <1>3, NetworkQueueAssumption DEF Target

\* Types: what the network has of a message was posted.
LEMMA DeliveryTypes ==
    ASSUME DeliveryInv, DeliveryNext, QueueInv'
    PROVE  DeliveryTypeOK'
<1> USE DEF DeliveryInv
<1>1. TypeOK' /\ sent \subseteq Message /\ sent' \subseteq Message
    BY DEF QueueInv, TypeOK
<1>2. \A p \in flight : /\ p.message \in sent /\ p.whole \in BOOLEAN
                        /\ p.host \in Host
                        /\ p = [message |-> p.message, whole |-> p.whole,
                                host |-> p.host]
    BY DEF DeliveryTypeOK
<1>3. \A p \in flight : ~IsStart(p.message) => VersionOf(p) \in Version
    <2> SUFFICES ASSUME NEW p \in flight, ~IsStart(p.message)
                 PROVE  VersionOf(p) \in Version
        OBVIOUS
    <2>1. p.message \in Messages /\ p.message \in Message
        BY <1>1, <1>2 DEF Messages
    <2>2. p.message.dnn \in Dnn
        BY <2>1
           DEF QueueInv, MessageInv, Message, IsLow, IsHigh, IsHalt, IsStart,
               Dnn
    <2>3. p.message.run \in 0 .. MaxRun
        BY <2>1 DEF Message
    <2> QED  BY <1>2, <2>2, <2>3 DEF VersionOf, Version
<1>4. ToSet(comms) \subseteq Message
    BY DEF QueueInv, TypeOK, ToSet
<1>5. CASE Quiet /\ missed' = missed \cup Swept
    <2>1. sent' = sent
        BY <1>5 DEF Quiet, Tick, Controller, BookLow, BookHigh, Book, Blank,
                    Halt, Pop, HaltAnswered
    <2>2. Swept \subseteq Message
        BY <1>4 DEF Swept
    <2> QED
        BY <1>1, <1>5, <2>1, <2>2 DEF Quiet, network, DeliveryTypeOK
<1>6. CASE Post /\ missed' = missed \cup Swept
    <2>1. sent' = sent \cup {item[1]}
        BY <1>6 DEF Post, PostAllocation, PostHalt
    <2>2. Swept \subseteq Message
        BY <1>4 DEF Swept
    <2>3. flight' \subseteq [message : sent', whole : BOOLEAN, host : Host]
        <3>1. PICK w \in Wholes(item[1]) :
                flight' = flight \cup {[message |-> item[1], whole |-> w,
                                        host |-> item[1].host]}
            BY <1>6 DEF Post
        <3>2. w \in BOOLEAN
            BY DEF Wholes
        <3>3. item[1].host \in Host
            BY <1>6, PostedHost
        <3> QED  BY <2>1, <3>1, <3>2, <3>3 DEF DeliveryTypeOK
    <2> QED
        BY <1>1, <1>6, <2>1, <2>2, <2>3 DEF Post, DeliveryTypeOK
<1>7. CASE (\E v \in reports : StateUpdate(v)) /\ missed' = missed \cup Swept
    <2>1. PICK v \in reports : StateUpdate(v)
        BY <1>7
    <2>2. Swept \subseteq Message
        BY <1>4 DEF Swept
    <2>3. v.dnn \in Dnn
        BY DEF DeliveryTypeOK, Version
    <2> QED
        BY <1>1, <1>7, <2>1, <2>2, <2>3 DEF StateUpdate, DeliveryTypeOK
<1>8. CASE (\E p \in flight : ArriveAllocation(p)) /\ UNCHANGED missed
    <2>1. PICK p \in flight : ArriveAllocation(p)
        BY <1>8
    <2>2. VersionOf(p) \in Version
        BY <1>3 DEF NetInv, FlightInv
    <2> QED
        BY <1>1, <1>8, <2>1, <2>2 DEF ArriveAllocation, DeliveryTypeOK, vars
<1>9. CASE (\E p \in flight : ArriveHalt(p)) /\ UNCHANGED missed
    <2>1. PICK p \in flight : ArriveHalt(p)
        BY <1>9
    <2>2. \A q \in flight : IdOf(q.message) \in [dnn : Dnn, run : 0 .. MaxRun]
        BY <1>3 DEF NetInv, FlightInv, VersionOf, Version, IdOf
    <2>3. /\ held' \subseteq held
          /\ overtaken' \subseteq [dnn : Dnn, run : 0 .. MaxRun]
        BY <2>1, <2>2 DEF ArriveHalt, DeliveryTypeOK
    <2> QED
        BY <1>1, <1>9, <2>1, <2>3 DEF ArriveHalt, DeliveryTypeOK, vars
<1>10. CASE (\E v \in held : Report(v)) /\ UNCHANGED missed
    BY <1>1, <1>10 DEF Report, DeliveryTypeOK, vars
<1>11. CASE \E p \in flight : Lose(p) /\ missed' = missed \cup {p.message}
    BY <1>1, <1>2, <1>11 DEF Lose, DeliveryTypeOK, vars
<1>12. CASE (\E p \in flight : Forward(p)) /\ UNCHANGED missed
    <2>1. PICK p \in flight : Forward(p)
        BY <1>12
    <2>2. [p EXCEPT !.host = Target(p)]
            \in [message : sent, whole : BOOLEAN, host : Host]
        <3>1. Target(p) \in Host
            BY <2>1, TargetHost
        <3> QED  BY <1>2, <3>1
    <2> QED
        BY <1>1, <1>12, <2>1, <2>2 DEF Forward, DeliveryTypeOK, vars
<1> QED
    BY <1>5, <1>6, <1>7, <1>8, <1>9, <1>10, <1>11, <1>12 DEF DeliveryNext

\* Every step keeps the invariant.
LEMMA DeliveryStep ==
    ASSUME DeliveryInv, [DeliveryNext]_deliveryVars
    PROVE  DeliveryInv'
<1>1. CASE UNCHANGED deliveryVars
    <2> USE DEF DeliveryInv
    <2>1. UNCHANGED vars /\ UNCHANGED network /\ UNCHANGED missed
          /\ UNCHANGED <<books, sent, flight, held, reports, overtaken, misread>>
        BY <1>1 DEF deliveryVars, network, vars
    <2>2. QueueInv' /\ Unposted' = Unposted /\ LowNeverLost' /\ TypeOK'
        BY <2>1, NetworkKeepsQueue
    <2>3. NetInv'
        BY <2>1, <2>2, QuietKeeps
    <2>4. DeliveryTypeOK'
        BY <2>1, <2>2 DEF DeliveryTypeOK, network
    <2> QED  BY <2>2, <2>3, <2>4
<1>2. ASSUME DeliveryNext, QueueInv', LowNeverLost', NetInv'  PROVE DeliveryInv'
    BY <1>2, DeliveryTypes DEF DeliveryInv
<1>3. CASE DeliveryNext /\ Quiet /\ missed' = missed \cup Swept
    <2>1. QueueInv'
        BY <1>3, TickKeeps, ControllerKeeps, LoopKeeps
           DEF Quiet, Loop, DeliveryInv
    <2>2. NetInv'
        BY <1>3, ControllerNet, LoopNet DEF Quiet
    <2>3. LowNeverLost'
        BY <1>3, LowKept DEF Quiet, Loop, DeliveryInv
    <2> QED  BY <1>2, <1>3, <2>1, <2>2, <2>3
<1>4. CASE DeliveryNext /\ Post /\ missed' = missed \cup Swept
    <2>1. QueueInv'
        BY <1>4, LoopKeeps DEF Post, Loop, DeliveryInv
    <2>2. LowNeverLost'
        BY <1>4, LowKept DEF Post, Loop, DeliveryInv
    <2> QED  BY <1>2, <1>4, <2>1, <2>2, PostingNet
<1>5. CASE /\ DeliveryNext /\ missed' = missed \cup Swept
           /\ \E v \in reports : StateUpdate(v)
    <2>1. PICK v \in reports : StateUpdate(v)
        BY <1>5
    <2>2. UNCHANGED <<comms, item, sent>> /\ off_total' \subseteq off_total
        BY <2>1 DEF StateUpdate
    <2>3. UNCHANGED missed
        BY <1>5, <2>2, NothingSwept
    <2>4. LowNeverLost'
        BY <2>2 DEF LowNeverLost, DeliveryInv, Held, ToSet, IsLow
    <2> QED  BY <1>2, <1>5, <2>1, <2>3, <2>4, UpdateKeeps
<1>6. CASE /\ DeliveryNext /\ UNCHANGED missed
           /\ \/ \E p \in flight :
                    ArriveAllocation(p) \/ Forward(p) \/ ArriveHalt(p)
              \/ \E v \in held : Report(v)
    <2>1. UNCHANGED vars
        BY <1>6 DEF ArriveAllocation, Forward, ArriveHalt, Report
    <2>2. NetInv'
        BY <1>6, ArriveNet, ForwardNet, HaltArrivesNet, ReportNet
    <2> QED  BY <1>2, <1>6, <2>1, <2>2, NetworkKeepsQueue
<1>7. CASE /\ DeliveryNext
           /\ \E p \in flight : Lose(p) /\ missed' = missed \cup {p.message}
    <2>1. UNCHANGED vars
        BY <1>7 DEF Lose
    <2> QED  BY <1>2, <1>7, <2>1, LoseNet, NetworkKeepsQueue
<1> QED  BY <1>1, <1>3, <1>4, <1>5, <1>6, <1>7 DEF DeliveryNext

\* It is an invariant of the composition.
THEOREM DeliveryInvariant == DeliverySpec => []DeliveryInv
BY DeliveryStart, DeliveryStep, PTL DEF DeliverySpec

-----------------------------------------------------------------------------
(* What follows from it *)

\* Types of the queue, the books, the network and the devices.
THEOREM DeliveryTypesOK == DeliverySpec => []DeliveryTypeOK
<1>1. DeliveryInv => DeliveryTypeOK
    BY DEF DeliveryInv
<1> QED  BY <1>1, DeliveryInvariant, PTL

\* No halt costs a booked low complexity DNN its allocation.
THEOREM LowIsNeverLost == DeliverySpec => []LowNeverLost
<1>1. DeliveryInv => LowNeverLost
    BY DEF DeliveryInv
<1> QED  BY <1>1, DeliveryInvariant, PTL

\* What reaches a device in pieces is being halted.
THEOREM SpoiltVersionsAreHalted == DeliverySpec => []SpoiltIsHalted
<1>1. DeliveryInv => SpoiltIsHalted
    BY DEF DeliveryInv, NetInv
<1> QED  BY <1>1, DeliveryInvariant, PTL

\* Nothing in the queue, the loop and the network: nothing is unposted.
LEMMA SettledQueue == ASSUME DeliveryInv, Settled  PROVE Unposted = {}
<1>1. Held = {}
    BY DEF Settled
<1> QED  BY <1>1 DEF Held, Unposted

\* Once all is settled, each version on a device is booked or one of the five
\* reasons why it is not applies.
THEOREM NoOrphansEver == DeliverySpec => []NoOrphans
<1>1. DeliveryInv => NoOrphans
    <2> SUFFICES ASSUME DeliveryInv, Settled, NEW v \in held
                 PROVE  \/ v.dnn \in off_total /\ v.run = run[v.dnn]
                        \/ \E m \in missed : HaltOf(m, v)
                        \/ IdOf(v) \in overtaken
                        \/ ~v.whole
                        \/ v.dnn \in misread
        BY DEF NoOrphans
    <2>1. Excused(v)
        BY DEF DeliveryInv, NetInv, ExcuseInv
    <2>2. Unposted = {} /\ flight = {} /\ halting = {}
        BY SettledQueue DEF Settled
    <2> QED  BY <2>1, <2>2 DEF Excused, IdOf, Booked, Ending
<1> QED  BY <1>1, DeliveryInvariant, PTL

\* And each booked DNN is on a device, whole, or its allocation was missed.
THEOREM BookedIsAlwaysHeld == DeliverySpec => []BookedIsHeld
<1>1. DeliveryInv => BookedIsHeld
    <2> SUFFICES ASSUME DeliveryInv, Settled, NEW d \in off_total
                 PROVE  \/ WholeVersion(d) \in held
                        \/ \E m \in missed : /\ m.dnn = d /\ m.run = run[d]
                                             /\ m.type # "halt_req"
        BY DEF BookedIsHeld, WholeVersion
    <2>1. Unposted = {} /\ flight = {} /\ reports = {}
        BY SettledQueue DEF Settled
    <2>2. \A m : IsAllocation(m) => m.type # "halt_req"
        BY DEF IsAllocation, IsLow, IsHigh
    <2> QED  BY <2>1, <2>2 DEF DeliveryInv, NetInv, KnownInv
<1> QED  BY <1>1, DeliveryInvariant, PTL

\* What the steps of the composition are to the queue.
LEMMA DeliverySteps ==
    ASSUME DeliveryInv, [DeliveryNext]_deliveryVars
    PROVE  \/ Tick \/ Controller \/ Loop
           \/ UNCHANGED <<now, comms, item, sent>>
<1>1. CASE UNCHANGED deliveryVars
    BY <1>1 DEF deliveryVars, vars
<1>2. CASE Quiet \/ Post
    BY <1>2 DEF Quiet, Post, Loop
<1>3. CASE \E v \in reports : StateUpdate(v)
    BY <1>3 DEF StateUpdate
<1>4. CASE \/ \E p \in flight : \/ ArriveAllocation(p) \/ Forward(p)
                                \/ ArriveHalt(p) \/ Lose(p)
           \/ \E v \in held : Report(v)
    BY <1>4 DEF ArriveAllocation, Forward, ArriveHalt, Lose, Report, vars
<1> QED  BY <1>1, <1>2, <1>3, <1>4 DEF DeliveryNext

\* After the halt of a version was posted its allocation is not.
THEOREM HaltStaysLast == DeliverySpec => HaltIsLast
<1>1. ASSUME DeliveryInv, [DeliveryNext]_deliveryVars
      PROVE  LastStep
    <2>1. CASE UNCHANGED sent
        BY <2>1 DEF LastStep
    <2>2. CASE Tick \/ Controller \/ Loop
        BY <1>1, <2>2, HaltKeptLast DEF DeliveryInv
    <2> QED  BY <1>1, <2>1, <2>2, DeliverySteps
<1> QED
    BY <1>1, DeliveryInvariant, PTL DEF DeliverySpec, HaltIsLast, LastStep

\* The queue and its loop implement the outbox.
THEOREM DeliveryImplementsOutbox == DeliverySpec => OutboxSpec
<1>1. DeliveryInit => OutboxImplemented!Init
    BY OutboxInit DEF DeliveryInit
<1>2. ASSUME DeliveryInv, [DeliveryNext]_deliveryVars
      PROVE  [OutboxImplemented!Next]_(OutboxImplemented!vars)
    <2>1. CASE UNCHANGED <<now, comms, item, sent>>
        <3>1. ToSet(item)' \cup sent' = ToSet(item) \cup sent
            BY <2>1 DEF ToSet
        <3> QED  BY <2>1, <3>1, OutboxStutter
    <2>2. CASE Tick \/ Controller \/ Loop
        BY <1>2, <2>2, OutboxTick, OutboxAdding, OutboxLoop DEF DeliveryInv
    <2> QED  BY <1>2, <2>1, <2>2, DeliverySteps
<1> QED
    BY <1>1, <1>2, DeliveryInvariant, PTL
       DEF DeliverySpec, OutboxSpec, OutboxImplemented!Spec
=============================================================================
