------------------------- MODULE NetworkQueueProofs -------------------------
(***************************************************************************)
(* What the actions of the outbound queue preserve, for every set of DNNs  *)
(* and hosts and every bound: the facts Delivery and Startup, whose        *)
(* next-state relations are built from these actions, have in common.      *)
(***************************************************************************)
EXTENDS NetworkQueue, SequenceTheorems, WellFoundedInduction, TLAPS

-----------------------------------------------------------------------------
(* The filter, the sort and the front of the queue *)

\* A non-empty set of naturals has a least member.
LEMMA LeastNat ==
    ASSUME NEW S \in SUBSET Nat, S # {}
    PROVE  \E n \in S : \A m \in S : n <= m
<1>1. PICK n \in S : \A m \in S : ~(<<m, n>> \in OpToRel(<, Nat))
    BY NatLessThanWellFounded, WFMin
<1>2. \A m \in S : ~(m < n)
    BY <1>1 DEF OpToRel
<1> QED  BY <1>2

\* What the loop over a queue has when it is at message i.
FilterStep(q, f, i) ==
    IF i = 0 THEN <<>>
    ELSE IF IsLow(q[i]) THEN Append(f[i - 1], q[i]) ELSE f[i - 1]

\* The recursive function of LowOnly exists.
LEMMA FilterExists ==
    ASSUME NEW q, NEW n \in Nat
    PROVE  \E f : f = [i \in 0 .. n |-> FilterStep(q, f, i)]
<1> DEFINE Good(k) == \E f : f = [i \in 0 .. k |-> FilterStep(q, f, i)]
           Bad == {k \in Nat : ~Good(k)}
<1>1. SUFFICES ASSUME Bad # {}  PROVE FALSE
    OBVIOUS
<1>2. PICK k \in Bad : \A m \in Bad : k <= m
    <2> HIDE DEF Good
    <2> QED  BY <1>1, LeastNat
<1>3. CASE k = 0
    <2> DEFINE f == [i \in {0} |-> <<>>]
    <2>1. 0 .. 0 = {0}
        OBVIOUS
    <2>2. f = [i \in 0 .. 0 |-> FilterStep(q, f, i)]
        BY <2>1 DEF FilterStep
    <2> QED  BY <1>3, <2>2
<1>4. CASE k # 0
    <2>1. k - 1 \in Nat /\ Good(k - 1)
        BY <1>2, <1>4
    <2>2. PICK f : f = [i \in 0 .. k - 1 |-> FilterStep(q, f, i)]
        BY <2>1
    <2> DEFINE g == [i \in 0 .. k |-> IF i = k THEN FilterStep(q, f, k)
                                      ELSE f[i]]
    <2>3. ASSUME NEW i \in 0 .. k  PROVE g[i] = FilterStep(q, g, i)
        <3>1. CASE i = k
            <4>1. k - 1 \in 0 .. k /\ k - 1 # k
                BY <2>1
            <4>2. g[k - 1] = f[k - 1]
                BY <4>1
            <4> QED  BY <1>4, <3>1, <4>2 DEF FilterStep
        <3>2. CASE i = 0
            BY <1>4, <2>1, <2>2, <3>2 DEF FilterStep
        <3>3. CASE i # k /\ i # 0
            <4>1. i - 1 \in 0 .. k /\ i - 1 # k /\ i \in 0 .. k - 1
                BY <2>1, <3>3
            <4>2. g[i - 1] = f[i - 1] /\ g[i] = f[i]
                BY <3>3, <4>1
            <4>3. f[i] = FilterStep(q, f, i)
                BY <2>2, <4>1
            <4> QED  BY <3>3, <4>2, <4>3 DEF FilterStep
        <3> QED  BY <3>1, <3>2, <3>3
    <2>4. g = [i \in 0 .. k |-> FilterStep(q, g, i)]
        BY <2>3
    <2> QED  BY <1>2, <2>4
<1> QED  BY <1>3, <1>4

\* LowOnly is its value at the last message.
LEMMA FilterValue ==
    ASSUME NEW q, Len(q) \in Nat
    PROVE  \E f : /\ f = [i \in 0 .. Len(q) |-> FilterStep(q, f, i)]
                  /\ LowOnly(q) = f[Len(q)]
<1> DEFINE F == CHOOSE f : f = [i \in 0 .. Len(q) |->
                    IF i = 0 THEN <<>>
                    ELSE IF IsLow(q[i]) THEN Append(f[i - 1], q[i])
                    ELSE f[i - 1]]
<1>1. \E f : f = [i \in 0 .. Len(q) |->
                    IF i = 0 THEN <<>>
                    ELSE IF IsLow(q[i]) THEN Append(f[i - 1], q[i])
                    ELSE f[i - 1]]
    BY FilterExists DEF FilterStep
<1>2. F = [i \in 0 .. Len(q) |-> IF i = 0 THEN <<>>
                    ELSE IF IsLow(q[i]) THEN Append(F[i - 1], q[i])
                    ELSE F[i - 1]]
    BY <1>1, Zenon
<1>3. LowOnly(q) = F[Len(q)]
    BY DEF LowOnly
<1> HIDE DEF F
<1>4. F = [i \in 0 .. Len(q) |-> FilterStep(q, F, i)]
    BY <1>2 DEF FilterStep
<1> QED  BY <1>3, <1>4

\* A queue in order: sorted by time, and every message in it once.
InOrder(q) ==
    \A i, j \in 1 .. Len(q) : i < j => q[i].time <= q[j].time /\ q[i] # q[j]

\* Of a queue in order the filter keeps exactly the allocations of low
\* complexity DNNs, in order.
LEMMA FilterKeeps ==
    ASSUME NEW q \in Seq(Message), InOrder(q)
    PROVE  /\ LowOnly(q) \in Seq(Message)
           /\ InOrder(LowOnly(q))
           /\ ToSet(LowOnly(q)) = {m \in ToSet(q) : IsLow(m)}
<1> DEFINE n == Len(q)
<1>1. n \in Nat /\ DOMAIN q = 1 .. n /\ \A i \in 1 .. n : q[i] \in Message
    BY LenProperties, ElementOfSeq
<1>2. \A m \in Message : m.time \in Nat
    BY DEF Message
<1>3. PICK f : /\ f = [i \in 0 .. n |-> FilterStep(q, f, i)]
               /\ LowOnly(q) = f[n]
    BY <1>1, FilterValue
<1> DEFINE Good(i) ==
            /\ f[i] \in Seq(Message)
            /\ InOrder(f[i])
            /\ \A k \in 1 .. Len(f[i]) :
                \E j \in 1 .. i : IsLow(q[j]) /\ f[i][k] = q[j]
            /\ \A j \in 1 .. i : IsLow(q[j]) =>
                \E k \in 1 .. Len(f[i]) : f[i][k] = q[j]
           Bad == {i \in 0 .. n : ~Good(i)}
<1>4. Bad = {}
    <2> SUFFICES ASSUME Bad # {}  PROVE FALSE
        OBVIOUS
    <2>1. PICK i \in Bad : \A m \in Bad : i <= m
        <3> HIDE DEF Good
        <3>1. Bad \in SUBSET Nat
            BY <1>1
        <3> QED  BY <3>1, LeastNat
    <2>2. CASE i = 0
        <3>1. f[0] = <<>>
            BY <1>1, <1>3 DEF FilterStep
        <3>2. Good(0)
            BY <1>1, <3>1, EmptySeq DEF InOrder
        <3> QED  BY <2>1, <2>2, <3>2
    <2>3. CASE i # 0
        <3> DEFINE h == f[i - 1]
        <3>1. i - 1 \in 0 .. n /\ i \in 1 .. n /\ i - 1 \in Nat
            BY <1>1, <2>1, <2>3
        <3>2. Good(i - 1)
            <4> HIDE DEF Good
            <4> QED  BY <1>1, <2>1, <3>1
        <3>3. f[i] = IF IsLow(q[i]) THEN Append(h, q[i]) ELSE h
            BY <1>3, <2>3, <3>1 DEF FilterStep
        <3>4. CASE ~IsLow(q[i])
            <4>1. f[i] = h
                BY <3>3, <3>4
            <4>2. \A j \in 1 .. i : IsLow(q[j]) => j \in 1 .. i - 1
                BY <3>1, <3>4
            <4>3. \A j \in 1 .. i - 1 : j \in 1 .. i
                BY <3>1
            <4> QED  BY <2>1, <3>2, <4>1, <4>2, <4>3
        <3>5. CASE IsLow(q[i])
            <4>1. f[i] = Append(h, q[i]) /\ h \in Seq(Message)
                BY <3>2, <3>3, <3>5
            <4>2. /\ f[i] \in Seq(Message)
                  /\ Len(h) \in Nat
                  /\ Len(f[i]) = Len(h) + 1
                  /\ \A k \in 1 .. Len(h) : f[i][k] = h[k]
                  /\ f[i][Len(h) + 1] = q[i]
                BY <1>1, <3>1, <4>1, AppendProperties, LenProperties
            <4>3. \A k \in 1 .. Len(h) :
                    \E j \in 1 .. i - 1 : IsLow(q[j]) /\ h[k] = q[j]
                BY <3>2
            <4>4. \A j \in 1 .. i - 1 : /\ j \in 1 .. n /\ j < i
                                        /\ q[j].time <= q[i].time
                                        /\ q[j] # q[i]
                BY <1>1, <3>1 DEF InOrder
            <4>5. \A k, l \in 1 .. Len(h) :
                    k < l => h[k].time <= h[l].time /\ h[k] # h[l]
                BY <3>2 DEF InOrder
            <4>6. InOrder(f[i])
                <5> SUFFICES ASSUME NEW k \in 1 .. Len(f[i]),
                                    NEW l \in 1 .. Len(f[i]), k < l
                             PROVE  f[i][k].time <= f[i][l].time
                                    /\ f[i][k] # f[i][l]
                    BY DEF InOrder
                <5>1. k \in 1 .. Len(h)
                    BY <4>2
                <5>2. CASE l \in 1 .. Len(h)
                    BY <4>2, <4>5, <5>1, <5>2
                <5>3. CASE l = Len(h) + 1
                    BY <4>2, <4>3, <4>4, <5>1, <5>3
                <5> QED  BY <4>2, <5>2, <5>3
            <4>7. \A k \in 1 .. Len(f[i]) :
                    \E j \in 1 .. i : IsLow(q[j]) /\ f[i][k] = q[j]
                <5> TAKE k \in 1 .. Len(f[i])
                <5>1. CASE k \in 1 .. Len(h)
                    BY <3>1, <4>2, <4>3, <5>1
                <5>2. CASE k = Len(h) + 1
                    BY <3>1, <3>5, <4>2, <5>2
                <5> QED  BY <4>2, <5>1, <5>2
            <4>8. \A j \in 1 .. i : IsLow(q[j]) =>
                    \E k \in 1 .. Len(f[i]) : f[i][k] = q[j]
                <5> TAKE j \in 1 .. i
                <5> HAVE IsLow(q[j])
                <5>1. CASE j = i
                    <6>1. Len(h) + 1 \in 1 .. Len(f[i])
                        BY <4>2
                    <6> QED  BY <4>2, <5>1, <6>1
                <5>2. CASE j # i
                    <6>1. j \in 1 .. i - 1
                        BY <3>1, <5>2
                    <6>2. PICK k \in 1 .. Len(h) : h[k] = q[j]
                        BY <3>2, <6>1
                    <6>3. k \in 1 .. Len(f[i]) /\ f[i][k] = q[j]
                        BY <4>2, <6>2
                    <6> QED  BY <6>3
                <5> QED  BY <5>1, <5>2
            <4>9. Good(i)
                BY <4>2, <4>6, <4>7, <4>8
            <4> QED  BY <2>1, <4>9
        <3> QED  BY <3>4, <3>5
    <2> QED  BY <2>2, <2>3
<1>5. Good(n)
    <2> HIDE DEF Good
    <2> QED  BY <1>1, <1>4
<1>6. DOMAIN f[n] = 1 .. Len(f[n])
    BY <1>5, LenProperties
<1> DEFINE g == f[n]
<1>7. ToSet(g) = {m \in ToSet(q) : IsLow(m)}
    <2>1. /\ \A k \in 1 .. Len(g) :
                \E j \in 1 .. n : IsLow(q[j]) /\ g[k] = q[j]
          /\ \A j \in 1 .. n : IsLow(q[j]) =>
                \E k \in 1 .. Len(g) : g[k] = q[j]
        BY <1>5
    <2>2. ToSet(g) = {g[k] : k \in 1 .. Len(g)}
        BY <1>6 DEF ToSet
    <2>3. ToSet(q) = {q[j] : j \in 1 .. n}
        BY <1>1 DEF ToSet
    <2> HIDE DEF g
    <2> QED  BY <2>1, <2>2, <2>3, Zenon
<1> QED  BY <1>3, <1>5, <1>7

\* Putting a message at place k of a queue.
LEMMA InsertKeeps ==
    ASSUME NEW q \in Seq(Message), NEW m \in Message,
           NEW k \in 1 .. Len(q) + 1
    PROVE  LET s == InsertAt(q, k, m)
           IN  /\ s \in Seq(Message)
               /\ Len(s) = Len(q) + 1
               /\ \A i \in 1 .. Len(s) :
                    s[i] = IF i < k THEN q[i] ELSE IF i = k THEN m
                           ELSE q[i - 1]
<1> DEFINE n == Len(q)
           a == SubSeq(q, 1, k - 1)
           b == SubSeq(q, k, n)
<1>1. n \in Nat /\ \A i \in 1 .. n : q[i] \in Message
    BY LenProperties, ElementOfSeq
<1>2. k \in Int /\ k - 1 \in Int /\ k >= 1 /\ k <= n + 1 /\ n \in Int
    BY <1>1
<1>3. /\ a \in Seq(Message) /\ Len(a) = k - 1
      /\ \A i \in 1 .. k - 1 : a[i] = q[i]
    <2>1. \A i \in 1 .. k - 1 : q[i] \in Message
        BY <1>1, <1>2
    <2>2. /\ a \in Seq(Message)
          /\ Len(a) = IF 1 <= k - 1 THEN k - 1 - 1 + 1 ELSE 0
          /\ \A i \in 1 .. k - 1 - 1 + 1 : a[i] = q[1 + i - 1]
        BY <1>2, <2>1, SubSeqProperties
    <2> QED  BY <1>2, <2>2
<1>4. /\ b \in Seq(Message) /\ Len(b) = n - k + 1
      /\ \A i \in 1 .. n - k + 1 : b[i] = q[k + i - 1]
    <2>1. \A i \in k .. n : q[i] \in Message
        BY <1>1, <1>2
    <2>2. /\ b \in Seq(Message)
          /\ Len(b) = IF k <= n THEN n - k + 1 ELSE 0
          /\ \A i \in 1 .. n - k + 1 : b[i] = q[k + i - 1]
        BY <1>2, <2>1, SubSeqProperties
    <2> QED  BY <1>2, <2>2
<1> DEFINE c == a \o <<m>>
           s == c \o b
<1>5. <<m>> \in Seq(Message) /\ Len(<<m>>) = 1 /\ <<m>>[1] = m
    OBVIOUS
<1> DEFINE single == <<m>>
<1> HIDE DEF a, b, single
<1>6. /\ c \in Seq(Message) /\ Len(c) = k
      /\ \A i \in 1 .. k : c[i] = IF i < k THEN q[i] ELSE m
    <2>1. /\ a \o single \in Seq(Message)
          /\ Len(a \o single) = Len(a) + Len(single)
          /\ \A i \in 1 .. Len(a) + Len(single) : (a \o single)[i] =
                IF i <= Len(a) THEN a[i] ELSE single[i - Len(a)]
        <3>1. single \in Seq(Message)
            BY <1>5 DEF single
        <3> QED  BY <1>3, <3>1, ConcatProperties
    <2>2. Len(single) = 1 /\ single[1] = m /\ c = a \o single
        BY <1>5 DEF single
    <2> HIDE DEF c
    <2>3. c \in Seq(Message) /\ Len(c) = k
        BY <1>2, <1>3, <2>1, <2>2
    <2>4. \A i \in 1 .. k : c[i] = IF i < k THEN q[i] ELSE m
        <3> TAKE i \in 1 .. k
        <3>1. CASE i < k   BY <1>2, <1>3, <2>1, <2>2, <3>1
        <3>2. CASE i = k
            <4>1. i - Len(a) = 1 /\ ~(i <= Len(a))
                BY <1>2, <1>3, <3>2
            <4> QED  BY <1>2, <1>3, <2>1, <2>2, <3>2, <4>1
        <3> QED  BY <1>2, <3>1, <3>2
    <2> QED  BY <2>3, <2>4
<1> HIDE DEF c
<1>7. /\ s \in Seq(Message) /\ Len(s) = n + 1
      /\ \A i \in 1 .. n + 1 : s[i] = IF i <= k THEN c[i] ELSE b[i - k]
    <2>1. /\ s \in Seq(Message) /\ Len(s) = Len(c) + Len(b)
          /\ \A i \in 1 .. Len(c) + Len(b) :
                s[i] = IF i <= Len(c) THEN c[i] ELSE b[i - Len(c)]
        BY <1>4, <1>6, ConcatProperties
    <2>2. Len(c) = k /\ Len(c) + Len(b) = n + 1
        BY <1>1, <1>2, <1>4, <1>6
    <2> HIDE DEF s
    <2> QED  BY <2>1, <2>2
<1> HIDE DEF s
<1>8. \A i \in 1 .. n + 1 :
        s[i] = IF i < k THEN q[i] ELSE IF i = k THEN m ELSE q[i - 1]
    <2> TAKE i \in 1 .. n + 1
    <2>1. CASE i <= k   BY <1>1, <1>2, <1>6, <1>7, <2>1
    <2>2. CASE i > k
        <3>1. i - k \in 1 .. n - k + 1 /\ k + (i - k) - 1 = i - 1
            BY <1>1, <1>2, <2>2
        <3> QED  BY <1>2, <1>4, <1>7, <2>2, <3>1
    <2> QED  BY <1>2, <2>1, <2>2
<1>9. InsertAt(q, k, m) = s
    BY DEF InsertAt, a, b, c, s
<1> QED  BY <1>7, <1>8, <1>9

\* Adding a message to a queue in order that does not have it gives a queue
\* in order of the old messages and the new one.
LEMMA SortKeeps ==
    ASSUME NEW q \in Seq(Message), InOrder(q),
           NEW m \in Message, m \notin ToSet(q),
           NEW s \in Sorted(q, m)
    PROVE  /\ s \in Seq(Message)
           /\ InOrder(s)
           /\ ToSet(s) = ToSet(q) \cup {m}
<1> DEFINE n == Len(q)
<1>1. n \in Nat /\ DOMAIN q = 1 .. n /\ \A i \in 1 .. n : q[i] \in Message
    BY LenProperties, ElementOfSeq
<1>2. PICK k \in 1 .. n + 1 :
        /\ s = InsertAt(q, k, m)
        /\ \A j \in 1 .. k - 1 : q[j].time <= m.time
        /\ \A j \in k .. n : m.time <= q[j].time
    BY DEF Sorted
<1>3. /\ s \in Seq(Message)
      /\ Len(s) = n + 1
      /\ \A i \in 1 .. n + 1 :
            s[i] = IF i < k THEN q[i] ELSE IF i = k THEN m ELSE q[i - 1]
    BY <1>2, InsertKeeps
<1>4. DOMAIN s = 1 .. n + 1
    BY <1>3, LenProperties
<1>5. \A i \in 1 .. n : q[i] # m
    BY <1>1 DEF ToSet
<1>6. InOrder(s)
    <2> SUFFICES ASSUME NEW i \in 1 .. n + 1, NEW j \in 1 .. n + 1, i < j
                 PROVE  s[i].time <= s[j].time /\ s[i] # s[j]
        BY <1>3 DEF InOrder
    <2>1. CASE j < k
        <3>1. i \in 1 .. n /\ j \in 1 .. n /\ s[i] = q[i] /\ s[j] = q[j]
            BY <1>1, <1>3, <2>1
        <3> QED  BY <3>1 DEF InOrder
    <2>2. CASE j = k
        <3>1. i \in 1 .. k - 1 /\ i \in 1 .. n /\ s[i] = q[i] /\ s[j] = m
            BY <1>1, <1>3, <2>2
        <3> QED  BY <1>2, <1>5, <3>1
    <2>3. CASE i = k
        <3>1. j - 1 \in k .. n /\ j - 1 \in 1 .. n /\ s[i] = m
              /\ s[j] = q[j - 1]
            BY <1>1, <1>3, <2>3
        <3> QED  BY <1>2, <1>5, <3>1
    <2>4. CASE i < k /\ k < j
        <3>1. /\ i \in 1 .. n /\ j - 1 \in 1 .. n /\ i < j - 1
              /\ s[i] = q[i] /\ s[j] = q[j - 1]
            BY <1>1, <1>3, <2>4
        <3> QED  BY <3>1 DEF InOrder
    <2>5. CASE k < i
        <3>1. /\ i - 1 \in 1 .. n /\ j - 1 \in 1 .. n /\ i - 1 < j - 1
              /\ s[i] = q[i - 1] /\ s[j] = q[j - 1]
            BY <1>1, <1>3, <2>5
        <3> QED  BY <3>1 DEF InOrder
    <2> QED  BY <1>1, <2>1, <2>2, <2>3, <2>4, <2>5
<1>7. ToSet(s) = ToSet(q) \cup {m}
    <2>1. \A i \in 1 .. n + 1 : s[i] \in ToSet(q) \cup {m}
        <3> TAKE i \in 1 .. n + 1
        <3>1. CASE i < k
            BY <1>1, <1>3, <3>1 DEF ToSet
        <3>2. CASE i > k
            <4>1. i - 1 \in 1 .. n /\ s[i] = q[i - 1]
                BY <1>1, <1>3, <3>2
            <4> QED  BY <1>1, <4>1 DEF ToSet
        <3> QED  BY <1>1, <1>3, <3>1, <3>2
    <2>2. \A i \in 1 .. n : \E j \in 1 .. n + 1 : s[j] = q[i]
        <3> TAKE i \in 1 .. n
        <3>1. CASE i < k   BY <1>1, <1>3, <3>1
        <3>2. CASE i >= k
            <4>1. /\ i + 1 \in 1 .. n + 1 /\ i + 1 > k /\ (i + 1) - 1 = i
                  /\ ~(i + 1 < k) /\ i + 1 # k
                BY <1>1, <3>2
            <4>2. s[i + 1] = q[i]
                BY <1>3, <4>1
            <4> QED  BY <4>1, <4>2
        <3> QED  BY <1>1, <3>1, <3>2
    <2>3. s[k] = m /\ k \in 1 .. n + 1
        BY <1>3
    <2>4. ToSet(s) = {s[i] : i \in 1 .. n + 1}
        BY <1>4 DEF ToSet
    <2>5. ToSet(q) = {q[i] : i \in 1 .. n}
        BY <1>1 DEF ToSet
    <2> QED  BY <2>1, <2>2, <2>3, <2>4, <2>5
<1> QED  BY <1>3, <1>6, <1>7

\* Taking the first message of a queue in order.
LEMMA FrontTaken ==
    ASSUME NEW q \in Seq(Message), InOrder(q), q # <<>>
    PROVE  /\ Head(q) \in Message /\ Head(q) \in ToSet(q)
           /\ Tail(q) \in Seq(Message)
           /\ InOrder(Tail(q))
           /\ ToSet(Tail(q)) = ToSet(q) \ {Head(q)}
           /\ \A m \in ToSet(q) : Head(q).time <= m.time
<1> DEFINE n == Len(q)
           t == Tail(q)
<1>1. /\ n \in Nat /\ n > 0 /\ Head(q) = q[1] /\ DOMAIN q = 1 .. n
      /\ \A i \in 1 .. n : q[i] \in Message
    BY LenProperties, ElementOfSeq, EmptySeq
<1>2. /\ t \in Seq(Message) /\ Len(t) = n - 1
      /\ \A i \in 1 .. n - 1 : t[i] = q[i + 1]
    BY HeadTailProperties
<1>3. DOMAIN t = 1 .. n - 1
    BY <1>2, LenProperties
<1> HIDE DEF t
<1>4. \A i \in 1 .. n : i # 1 => q[1].time <= q[i].time /\ q[i] # q[1]
    BY <1>1 DEF InOrder
<1>5. InOrder(t)
    <2> SUFFICES ASSUME NEW i \in 1 .. n - 1, NEW j \in 1 .. n - 1, i < j
                 PROVE  t[i].time <= t[j].time /\ t[i] # t[j]
        BY <1>2 DEF InOrder
    <2>1. i + 1 \in 1 .. n /\ j + 1 \in 1 .. n /\ i + 1 < j + 1
        BY <1>1
    <2> QED  BY <1>2, <2>1 DEF InOrder
<1>6. ToSet(t) = ToSet(q) \ {q[1]}
    <2>1. \A i \in 1 .. n - 1 : i + 1 \in 1 .. n /\ i + 1 # 1
        BY <1>1
    <2>2. \A i \in 1 .. n : i # 1 => \E j \in 1 .. n - 1 : t[j] = q[i]
        <3> TAKE i \in 1 .. n
        <3> HAVE i # 1
        <3>1. i - 1 \in 1 .. n - 1 /\ (i - 1) + 1 = i
            BY <1>1
        <3> QED  BY <1>2, <3>1
    <2>3. ToSet(t) = {t[i] : i \in 1 .. n - 1}
        BY <1>3 DEF ToSet
    <2>4. ToSet(q) = {q[i] : i \in 1 .. n}
        BY <1>1 DEF ToSet
    <2>5. ASSUME NEW m \in ToSet(t)  PROVE m \in ToSet(q) \ {q[1]}
        <3>1. PICK j \in 1 .. n - 1 : m = q[j + 1]
            BY <1>2, <2>3
        <3> QED  BY <1>4, <2>1, <2>4, <3>1
    <2>6. ASSUME NEW m \in ToSet(q) \ {q[1]}  PROVE m \in ToSet(t)
        <3>1. PICK i \in 1 .. n : m = q[i] /\ i # 1
            BY <2>4
        <3> QED  BY <2>2, <2>3, <3>1
    <2> QED  BY <2>5, <2>6
<1>7. \A m \in ToSet(q) : q[1].time <= m.time
    <2>1. q[1].time \in Nat
        BY <1>1 DEF Message
    <2> QED  BY <1>1, <1>4, <2>1 DEF ToSet
<1>8. q[1] \in ToSet(q)
    BY <1>1 DEF ToSet
<1> QED  BY <1>1, <1>2, <1>5, <1>6, <1>7, <1>8 DEF t

-----------------------------------------------------------------------------
(* The invariant of the queue *)

IsHigh(m) == m.type = "high_complexity_task_mapping"
IsHalt(m) == m.type = "halt_req"
IsStart(m) == m.type = "initial_experiment_start"

Messages == Held \cup sent

\* Two messages about the same version, or the same start.
Same(m, n) == m.dnn = n.dnn /\ m.run = n.run

\* The queue is in order. The loop never has a message in hand that is still
\* in the queue, nor posts one twice; it waits for replies to what it posted.
LoopInv ==
    /\ InOrder(comms)
    /\ ToSet(comms) \cap (ToSet(item) \cup sent) = {}
    /\ loop = "send" => item[1] \notin sent
    /\ loop \in {"wait", "ended"} =>
        item[1] \in sent /\ (IsHalt(item[1]) \/ IsStart(item[1]))

\* A DNN waits, is booked or is being halted; low ones are never halted.
BookInv ==
    /\ off_total \cap waiting = {}
    /\ halting \cap (off_total \cup waiting) = {}
    /\ \A d, e \in halting : d = e
    /\ \A d \in halting : run[d] > 0
    /\ \A d \in LowDnn : run[d] = 0

\* A message is about a version that was booked, or whose halt is through.
MessageInv ==
    \A m \in Messages :
        /\ IsLow(m) => m.dnn \in LowDnn
        /\ IsHigh(m) \/ IsHalt(m) => m.dnn \in HighDnn
        /\ IsLow(m) \/ IsHigh(m) =>
            /\ m.run <= run[m.dnn]
            /\ m.run = run[m.dnn] => m.dnn \notin waiting \cup halting
        /\ IsHalt(m) =>
            /\ m.run < run[m.dnn]
            /\ m.run + 1 = run[m.dnn] => m.dnn \notin halting
        /\ IsStart(m) => m.dnn = NoDnn /\ m.run < starts

\* There is one message of a kind about a version.
UniqueInv ==
    \A m, n \in Messages : m.type = n.type /\ Same(m, n) => m = n

\* Next to a halt in the queue, or behind it, there is no allocation of the
\* version it names; once the halt was posted the loop has none in hand.
SweptInv ==
    \A m \in Messages : IsHalt(m) =>
        /\ \A n \in ToSet(comms) : ~(IsHigh(n) /\ Same(m, n))
        /\ m \in sent /\ loop = "send" =>
            ~(IsHigh(item[1]) /\ Same(m, item[1]))

QueueInv ==
    /\ TypeOK /\ LoopInv /\ BookInv
    /\ MessageInv /\ UniqueInv /\ SweptInv

-----------------------------------------------------------------------------
(* What the actions do to the queue *)

\* addTask, for a message that is nowhere yet: next to a halt only the
\* allocations of low complexity DNNs stay.
LEMMA AddKeeps ==
    ASSUME TypeOK, LoopInv, NEW m \in Message, m \notin Messages,
           AddTask(m), UNCHANGED <<loop, item, sent>>
    PROVE  /\ comms' \in Seq(Message)
           /\ ToSet(comms') = {m} \cup
                (IF IsHalt(m) THEN {n \in ToSet(comms) : IsLow(n)}
                 ELSE ToSet(comms))
           /\ LoopInv'
           /\ m \in Messages'
           /\ Messages' \subseteq Messages \cup {m}
<1>1. /\ Kept(m) \in Seq(Message)
      /\ InOrder(Kept(m))
      /\ ToSet(Kept(m)) = IF IsHalt(m) THEN {n \in ToSet(comms) : IsLow(n)}
                          ELSE ToSet(comms)
    BY FilterKeeps DEF Kept, TypeOK, LoopInv, IsHalt
<1>2. m \notin ToSet(Kept(m))
    BY <1>1 DEF Messages, Held
<1>3. comms' \in Sorted(Kept(m), m)
    BY DEF AddTask
<1> DEFINE s == comms'
<1>4. /\ s \in Seq(Message)
      /\ InOrder(s)
      /\ ToSet(s) = ToSet(Kept(m)) \cup {m}
    <2> HIDE DEF s
    <2>1. s \in Sorted(Kept(m), m)
        BY <1>3 DEF s
    <2> QED  BY <1>1, <1>2, <2>1, SortKeeps
<1>5. ToSet(comms') = {m} \cup
        (IF IsHalt(m) THEN {n \in ToSet(comms) : IsLow(n)} ELSE ToSet(comms))
    BY <1>1, <1>4
<1>6. ToSet(item)' = ToSet(item) /\ sent' = sent
    BY DEF ToSet
<1>7. m \notin ToSet(item) \cup sent /\ ToSet(comms)' = ToSet(comms')
    BY DEF Messages, Held, ToSet
<1>8. Messages = ToSet(comms) \cup ToSet(item) \cup sent
    BY DEF Messages, Held
<1>9. Messages' = ToSet(comms') \cup ToSet(item) \cup sent
    BY <1>6, <1>7 DEF Messages, Held
<1>10. LoopInv'
    BY <1>4, <1>5, <1>6, <1>7 DEF LoopInv, IsHalt, IsStart
<1> QED  BY <1>4, <1>5, <1>8, <1>9, <1>10

\* The allocation of a DNN that waits is new; so is the halt of one that is
\* being halted, and a start.
LEMMA FreshMessages ==
    ASSUME QueueInv
    PROVE  /\ \A d \in waiting : \A type, time :
                type \in {"low_complexity_allocation",
                          "high_complexity_task_mapping"}
                => Mapping(d, type, time) \notin Messages
           /\ \A d \in halting : HaltMessage(d) \notin Messages
           /\ \A time : [type |-> "initial_experiment_start", dnn |-> NoDnn,
                         run |-> starts, time |-> time, host |-> NoHost]
                            \notin Messages
<1> USE DEF QueueInv
<1>1. ASSUME NEW d \in waiting, NEW type, NEW time,
             type \in {"low_complexity_allocation",
                       "high_complexity_task_mapping"}
      PROVE  Mapping(d, type, time) \notin Messages
    <2> DEFINE m == Mapping(d, type, time)
    <2>1. m.type = type /\ m.dnn = d /\ m.run = run[d]
        BY DEF Mapping
    <2>2. IsLow(m) \/ IsHigh(m)
        BY <1>1, <2>1 DEF IsLow, IsHigh
    <2> HIDE DEF m
    <2>3. m \notin Messages
        BY <2>1, <2>2 DEF MessageInv
    <2> QED  BY <2>3 DEF m
<1>2. ASSUME NEW d \in halting  PROVE HaltMessage(d) \notin Messages
    <2> DEFINE m == HaltMessage(d)
    <2>1. IsHalt(m) /\ m.dnn = d /\ m.run = run[d] - 1
        BY DEF IsHalt, HaltMessage
    <2>2. run[d] \in Nat
        BY DEF TypeOK, Dnn
    <2> HIDE DEF m
    <2>3. m.run + 1 = run[m.dnn]
        BY <2>1, <2>2
    <2>4. m \notin Messages
        BY <2>1, <2>3 DEF MessageInv
    <2> QED  BY <2>4 DEF m
<1>3. ASSUME NEW time
      PROVE  [type |-> "initial_experiment_start", dnn |-> NoDnn,
              run |-> starts, time |-> time, host |-> NoHost] \notin Messages
    <2> DEFINE m == [type |-> "initial_experiment_start", dnn |-> NoDnn,
                     run |-> starts, time |-> time, host |-> NoHost]
    <2>1. IsStart(m) /\ m.run = starts /\ starts \in Nat
        BY NetworkQueueAssumption DEF IsStart, TypeOK
    <2> HIDE DEF m
    <2>2. m \notin Messages
        BY <2>1 DEF MessageInv
    <2> QED  BY <2>2 DEF m
<1> QED  BY <1>1, <1>2, <1>3

\* What QueueInv says besides the types.
QueueParts == LoopInv /\ BookInv /\ MessageInv /\ UniqueInv /\ SweptInv

\* It is about the queue, the loop and the books only.
LEMMA SameQueue ==
    ASSUME QueueInv, UNCHANGED <<comms, loop, item, books, starts, sent>>
    PROVE  QueueParts'
<1> USE DEF QueueInv, books
<1>1. Messages' = Messages /\ ToSet(comms)' = ToSet(comms)
    BY DEF Messages, Held, ToSet
<1>2. LoopInv'
    BY DEF LoopInv, ToSet, InOrder, IsHalt, IsStart
<1>3. BookInv'
    BY DEF BookInv
<1>4. MessageInv'
    BY <1>1 DEF MessageInv, IsLow, IsHigh, IsHalt, IsStart
<1>5. UniqueInv' /\ SweptInv'
    BY <1>1 DEF UniqueInv, SweptInv, Same, IsHigh, IsHalt
<1> QED  BY <1>2, <1>3, <1>4, <1>5 DEF QueueParts

\* The clock goes on.
LEMMA TickKeeps == ASSUME QueueInv, Tick  PROVE QueueInv'
<1>1. /\ now' \in 1 .. MaxTime
      /\ UNCHANGED <<comms, loop, item, awaited, hosts, books, starts, sent>>
    BY NetworkQueueAssumption DEF Tick, QueueInv, TypeOK
<1>2. QueueParts'
    BY <1>1, SameQueue DEF QueueInv, books
<1> QED  BY <1>1, <1>2 DEF QueueInv, QueueParts, TypeOK, books

\* A call books a DNN that waits and queues its allocation.
LEMMA BookKeeps ==
    ASSUME QueueInv, NEW d \in Dnn, NEW time \in 1 .. MaxTime,
           NEW type, Book(d, type, time),
           \/ d \in LowDnn /\ type = "low_complexity_allocation"
           \/ d \in HighDnn /\ type = "high_complexity_task_mapping"
    PROVE  QueueInv'
<1> DEFINE m == Mapping(d, type, time)
<1> USE DEF QueueInv
<1>1. /\ m.type = type /\ m.dnn = d /\ m.run = run[d]
      /\ m \in Message
    BY NetworkQueueAssumption DEF Mapping, Message, TypeOK
<1>2. m \notin Messages
    BY FreshMessages DEF Book
<1>3. AddTask(m) /\ UNCHANGED <<loop, item, sent>>
    BY DEF Book
<1> HIDE DEF m
<1>4. ~IsHalt(m) /\ ~IsStart(m) /\ IsLow(m) = (d \in LowDnn)
      /\ IsHigh(m) = (d \in HighDnn)
    BY <1>1, NetworkQueueAssumption DEF IsHalt, IsStart, IsLow, IsHigh
<1>5. /\ comms' \in Seq(Message)
      /\ ToSet(comms') = {m} \cup ToSet(comms)
      /\ LoopInv'
      /\ Messages' \subseteq Messages \cup {m}
    BY <1>1, <1>2, <1>3, <1>4, AddKeeps
<1>6. /\ halting = {} /\ d \in waiting
      /\ waiting' = waiting \ {d}
      /\ off_total' = off_total \cup {d}
      /\ UNCHANGED <<now, loop, item, awaited, hosts, halting, run, starts,
                     sent>>
    BY DEF Book
<1>7. TypeOK'
    BY <1>5, <1>6 DEF TypeOK
<1>8. BookInv'
    BY <1>6 DEF BookInv
<1>9. MessageInv'
    <2> SUFFICES ASSUME NEW n \in Messages'
                 PROVE  /\ IsLow(n) => n.dnn \in LowDnn
                        /\ IsHigh(n) \/ IsHalt(n) => n.dnn \in HighDnn
                        /\ IsLow(n) \/ IsHigh(n) =>
                            /\ n.run <= run[n.dnn]
                            /\ n.run = run[n.dnn] =>
                                n.dnn \notin waiting' \cup halting
                        /\ IsHalt(n) =>
                            /\ n.run < run[n.dnn]
                            /\ n.run + 1 = run[n.dnn] => n.dnn \notin halting
                        /\ IsStart(n) => n.dnn = NoDnn /\ n.run < starts
        BY <1>6 DEF MessageInv, IsLow, IsHigh, IsHalt, IsStart
    <2>1. CASE n = m
        <3>1. run[d] \in Nat
            BY DEF TypeOK
        <3>2. m.run <= run[m.dnn] /\ m.dnn \notin waiting' \cup halting
            BY <1>1, <1>6, <3>1
        <3>3. IsLow(m) => m.dnn \in LowDnn
            BY <1>1, <1>4
        <3>4. IsHigh(m) => m.dnn \in HighDnn
            BY <1>1, <1>4
        <3> QED  BY <1>4, <2>1, <3>2, <3>3, <3>4
    <2>2. CASE n \in Messages
        BY <1>6, <2>2 DEF MessageInv
    <2> QED  BY <1>5, <2>1, <2>2
<1>10. UniqueInv'
    <2>1. \A n \in Messages : ~(n.type = m.type /\ Same(n, m))
        <3>1. \A n \in Messages : n.type = m.type => IsLow(n) \/ IsHigh(n)
            BY <1>1 DEF IsLow, IsHigh
        <3> QED  BY <1>1, <1>6, <3>1 DEF MessageInv, Same
    <2> QED  BY <1>5, <2>1 DEF UniqueInv, Same
<1>11. SweptInv'
    <2>1. \A n \in Messages' : IsHalt(n) => n \in Messages
        BY <1>4, <1>5
    <2>2. \A n \in Messages : IsHalt(n) => ~Same(n, m)
        <3>1. run[d] \in Nat
            BY DEF TypeOK
        <3> QED  BY <1>1, <3>1 DEF MessageInv, Same
    <2>3. ToSet(comms)' = {m} \cup ToSet(comms)
        BY <1>5 DEF ToSet
    <2> QED  BY <1>6, <2>1, <2>2, <2>3 DEF SweptInv, IsHigh, IsHalt, Same
<1> QED  BY <1>5, <1>7, <1>8, <1>9, <1>10, <1>11

\* halt_call takes a booked DNN off the maps; its version ends.
LEMMA BlankKeeps ==
    ASSUME QueueInv, NEW d \in HighDnn, Blank(d)
    PROVE  QueueInv'
<1> USE DEF QueueInv
<1>1. /\ halting = {} /\ d \in off_total /\ run[d] < MaxRun
      /\ halting' = {d}
      /\ off_total' = off_total \ {d}
      /\ run' = [run EXCEPT ![d] = @ + 1]
      /\ UNCHANGED <<now, comms, loop, item, awaited, hosts, waiting, starts,
                     sent>>
    BY DEF Blank
<1>2. /\ d \in Dnn /\ d \notin LowDnn
      /\ run \in [Dnn -> 0 .. MaxRun]
      /\ run'[d] = run[d] + 1
      /\ \A e \in Dnn : e # d => run'[e] = run[e]
    BY <1>1, NetworkQueueAssumption DEF TypeOK, Dnn
<1>3. Messages' = Messages /\ ToSet(comms)' = ToSet(comms)
    BY <1>1 DEF Messages, Held, ToSet
<1>4. TypeOK'
    BY <1>1, <1>2, NetworkQueueAssumption DEF TypeOK
<1>5. LoopInv'
    BY <1>1 DEF LoopInv, ToSet, InOrder, IsHalt, IsStart
<1>6. BookInv'
    BY <1>1, <1>2, NetworkQueueAssumption DEF BookInv, Dnn
<1>7. MessageInv'
    <2>1. \A m \in Messages : m.run \in Nat
        <3>1. Messages \subseteq Message
            BY DEF Messages, Held, TypeOK, ToSet
        <3> QED  BY <3>1, NetworkQueueAssumption DEF Message
    <2>2. \A e \in Dnn : run[e] \in Nat
        BY <1>2, NetworkQueueAssumption
    <2>3. d \notin waiting
        BY <1>1 DEF BookInv
    <2> QED
        BY <1>1, <1>2, <1>3, <2>1, <2>2, <2>3
           DEF MessageInv, Dnn, IsLow, IsHigh, IsHalt, IsStart
<1>8. UniqueInv' /\ SweptInv'
    BY <1>1, <1>3 DEF UniqueInv, SweptInv, Same, IsHigh, IsHalt
<1> QED  BY <1>4, <1>5, <1>6, <1>7, <1>8

\* Then it queues the halt of that version, and the DNN waits again.
LEMMA HaltKeeps ==
    ASSUME QueueInv, NEW d \in HighDnn, Halt(d)
    PROVE  QueueInv'
<1> DEFINE m == HaltMessage(d)
<1> USE DEF QueueInv
<1>1. /\ d \in halting /\ AddTask(m)
      /\ halting' = {}
      /\ waiting' = waiting \cup {d}
      /\ UNCHANGED <<now, loop, item, awaited, hosts, off_total, run, starts,
                     sent>>
    BY DEF Halt
<1>2. run[d] \in Nat /\ run[d] > 0 /\ run[d] <= MaxRun /\ d \in Dnn
    BY <1>1, NetworkQueueAssumption DEF TypeOK, BookInv, Dnn
<1>3. m \in Message
    <2>1. run[d] - 1 \in 0 .. MaxRun
        BY <1>2, NetworkQueueAssumption
    <2> QED
        BY <1>2, <2>1, NetworkQueueAssumption DEF HaltMessage, Message, TypeOK
<1>4. /\ IsHalt(m) /\ ~IsLow(m) /\ ~IsHigh(m) /\ ~IsStart(m)
      /\ m.dnn = d /\ m.run + 1 = run[d] /\ m.run < run[d]
    BY <1>2 DEF HaltMessage, IsHalt, IsLow, IsHigh, IsStart
<1>5. m \notin Messages
    BY <1>1, FreshMessages
<1> HIDE DEF m
<1>6. /\ comms' \in Seq(Message)
      /\ ToSet(comms') = {m} \cup {n \in ToSet(comms) : IsLow(n)}
      /\ LoopInv'
      /\ Messages' \subseteq Messages \cup {m}
    BY <1>1, <1>3, <1>4, <1>5, AddKeeps
<1>7. TypeOK'
    BY <1>1, <1>2, <1>6 DEF TypeOK
<1>8. BookInv'
    BY <1>1 DEF BookInv
<1>9. MessageInv'
    <2>1. \A n \in Messages : IsLow(n) \/ IsHigh(n) =>
            (n.run = run[n.dnn] => n.dnn # d)
        BY <1>1 DEF MessageInv
    <2> SUFFICES ASSUME NEW n \in Messages'
                 PROVE  /\ IsLow(n) => n.dnn \in LowDnn
                        /\ IsHigh(n) \/ IsHalt(n) => n.dnn \in HighDnn
                        /\ IsLow(n) \/ IsHigh(n) =>
                            /\ n.run <= run[n.dnn]
                            /\ n.run = run[n.dnn] =>
                                n.dnn \notin waiting' \cup halting'
                        /\ IsHalt(n) =>
                            /\ n.run < run[n.dnn]
                            /\ n.run + 1 = run[n.dnn] => n.dnn \notin halting'
                        /\ IsStart(n) => n.dnn = NoDnn /\ n.run < starts
        BY <1>1 DEF MessageInv, IsLow, IsHigh, IsHalt, IsStart
    <2>2. CASE n = m
        BY <1>1, <1>4, <2>2
    <2>3. CASE n \in Messages
        BY <1>1, <2>1, <2>3 DEF MessageInv
    <2> QED  BY <1>6, <2>2, <2>3
<1>10. UniqueInv'
    <2>1. \A n \in Messages : ~(n.type = m.type /\ Same(n, m))
        <3>1. \A n \in Messages : n.type = m.type => IsHalt(n)
            BY <1>4 DEF IsHalt
        <3>2. \A n \in Messages : IsHalt(n) /\ n.dnn = d => n.run + 1 # run[d]
            BY <1>1 DEF MessageInv
        <3> QED  BY <1>4, <3>1, <3>2 DEF Same
    <2> QED  BY <1>6, <2>1 DEF UniqueInv, Same
<1>11. SweptInv'
    <2>1. \A n \in ToSet(comms)' : ~IsHigh(n)
        BY <1>4, <1>6 DEF ToSet, IsLow, IsHigh
    <2>2. m \notin sent'
        BY <1>1, <1>5 DEF Messages
    <2> QED  BY <1>1, <1>6, <2>1, <2>2 DEF SweptInv, IsHigh, IsHalt, Same
<1> QED  BY <1>6, <1>7, <1>8, <1>9, <1>10, <1>11

\* A handler queues another start of the experiment.
LEMMA StartKeeps ==
    ASSUME QueueInv, StartExperiment
    PROVE  QueueInv'
<1> DEFINE m == [type |-> "initial_experiment_start", dnn |-> NoDnn,
                 run |-> starts, time |-> now, host |-> NoHost]
<1> USE DEF QueueInv
<1>1. /\ starts <= MaxRun /\ AddTask(m)
      /\ starts' = starts + 1
      /\ UNCHANGED <<now, loop, item, awaited, hosts, books, sent>>
    BY DEF StartExperiment
<1>2. starts \in 0 .. MaxRun /\ starts' \in 0 .. MaxRun + 1
    BY <1>1, NetworkQueueAssumption DEF TypeOK
<1>3. m \in Message
    BY <1>2 DEF Message, TypeOK
<1>4. /\ IsStart(m) /\ ~IsLow(m) /\ ~IsHigh(m) /\ ~IsHalt(m)
      /\ m.dnn = NoDnn /\ m.run = starts
    BY DEF IsHalt, IsLow, IsHigh, IsStart
<1>5. m \notin Messages
    BY FreshMessages
<1> HIDE DEF m
<1>6. /\ comms' \in Seq(Message)
      /\ ToSet(comms') = {m} \cup ToSet(comms)
      /\ LoopInv'
      /\ Messages' \subseteq Messages \cup {m}
    BY <1>1, <1>3, <1>4, <1>5, AddKeeps
<1>7. TypeOK' /\ BookInv'
    BY <1>1, <1>2, <1>6 DEF TypeOK, BookInv, books
<1>8. MessageInv'
    <2>1. \A n \in Messages' : n \in Messages \/ n = m
        BY <1>6
    <2>2. \A n \in Messages : IsStart(n) => n.run < starts'
        <3>1. \A n \in Messages : n.run \in Nat
            <4>1. Messages \subseteq Message
                BY DEF Messages, Held, TypeOK, ToSet
            <4> QED  BY <4>1, NetworkQueueAssumption DEF Message
        <3> QED  BY <1>1, <1>2, <3>1 DEF MessageInv
    <2>3. m.run < starts'
        BY <1>1, <1>2, <1>4
    <2> QED
        BY <1>1, <1>4, <2>1, <2>2, <2>3
           DEF MessageInv, books, IsLow, IsHigh, IsHalt, IsStart
<1>9. UniqueInv'
    <2>1. \A n \in Messages : ~(n.type = m.type /\ Same(n, m))
        <3>1. \A n \in Messages : n.type = m.type => IsStart(n)
            BY <1>4 DEF IsStart
        <3>2. \A n \in Messages : IsStart(n) => n.run # starts
            BY <1>2 DEF MessageInv
        <3> QED  BY <1>4, <3>1, <3>2 DEF Same
    <2> QED  BY <1>6, <2>1 DEF UniqueInv, Same
<1>10. SweptInv'
    <2>1. \A n \in Messages' : IsHalt(n) => n \in Messages
        BY <1>4, <1>6
    <2>2. ToSet(comms)' = {m} \cup ToSet(comms)
        BY <1>6 DEF ToSet
    <2> QED
        BY <1>1, <1>4, <2>1, <2>2 DEF SweptInv, IsHigh, IsHalt, Same
<1> QED  BY <1>6, <1>7, <1>8, <1>9, <1>10

\* The loop takes the message in front.
LEMMA PopKeeps ==
    ASSUME QueueInv, Pop
    PROVE  /\ QueueInv'
           /\ Head(comms) \in ToSet(comms)
           /\ ToSet(comms') = ToSet(comms) \ {Head(comms)}
           /\ \A m \in ToSet(comms) : Head(comms).time <= m.time
           /\ ToSet(item) = {} /\ ToSet(item)' = {Head(comms)}
           /\ Messages' = Messages
<1> DEFINE m == Head(comms)
<1> USE DEF QueueInv
<1>1. /\ loop = "scan" /\ comms # <<>> /\ m.time <= now
      /\ item' = <<m>> /\ comms' = Tail(comms) /\ loop' = "send"
      /\ UNCHANGED <<now, awaited, hosts, books, starts, sent>>
    BY DEF Pop
<1>2. /\ m \in Message /\ m \in ToSet(comms)
      /\ comms' \in Seq(Message)
      /\ InOrder(comms')
      /\ ToSet(comms') = ToSet(comms) \ {m}
      /\ \A n \in ToSet(comms) : m.time <= n.time
    BY <1>1, FrontTaken DEF TypeOK, LoopInv
<1> HIDE DEF m
<1>3. /\ item' \in Seq(Message) /\ Len(item') = 1
      /\ item'[1] = m /\ ToSet(item') = {m}
    <2>1. \A x \in Message : /\ <<x>> \in Seq(Message) /\ Len(<<x>>) = 1
                             /\ <<x>>[1] = x /\ ToSet(<<x>>) = {x}
        BY DEF ToSet
    <2> QED  BY <1>1, <1>2, <2>1
<1>4. item = <<>> /\ ToSet(item) = {}
    <2>1. item = <<>>
        BY <1>1, EmptySeq DEF TypeOK
    <2> QED  BY <2>1 DEF ToSet
<1>5. Messages' = Messages /\ ToSet(comms)' = ToSet(comms) \ {m}
      /\ ToSet(item)' = {m}
    BY <1>1, <1>2, <1>3, <1>4 DEF Messages, Held, ToSet
<1>6. awaited = <<>>
    BY <1>1 DEF TypeOK
<1>7. TypeOK'
    BY <1>1, <1>2, <1>3, <1>6 DEF TypeOK, books
<1>8. LoopInv'
    BY <1>1, <1>2, <1>3, <1>5 DEF LoopInv
<1>9. BookInv' /\ MessageInv' /\ UniqueInv'
    BY <1>1, <1>5
       DEF BookInv, MessageInv, UniqueInv, Same, books, IsLow, IsHigh,
           IsHalt, IsStart
<1>10. SweptInv'
    BY <1>1, <1>2, <1>3, <1>5 DEF SweptInv, Same, IsHigh, IsHalt
<1> QED  BY <1>2, <1>4, <1>5, <1>7, <1>8, <1>9, <1>10 DEF m

\* The message in the hand of the loop.
LEMMA InHand ==
    ASSUME TypeOK, loop # "scan"
    PROVE  item[1] \in Message /\ ToSet(item) = {item[1]}
<1>1. item \in Seq(Message) /\ Len(item) = 1
    BY DEF TypeOK
<1>2. item[1] \in Message /\ DOMAIN item = 1 .. 1
    BY <1>1, LenProperties, ElementOfSeq
<1> QED  BY <1>2 DEF ToSet

\* The loop posts what it has in hand, and then waits or forgets it.
LEMMA PostKeeps ==
    ASSUME QueueInv, loop = "send", sent' = sent \cup {item[1]},
           \/ loop' = "scan" /\ item' = <<>> /\ awaited' = <<>>
           \/ /\ loop' = "wait" /\ item' = item
              /\ IsHalt(item[1]) \/ IsStart(item[1])
              /\ awaited' = <<>> \/ IsStart(item[1])
              /\ awaited' \in Seq(Host),
           UNCHANGED <<now, comms, hosts, books, starts>>
    PROVE  /\ QueueInv'
           /\ item[1] \in Message /\ item[1] \notin sent
           /\ ToSet(item) = {item[1]}
           /\ Messages' = Messages
           /\ ToSet(item)' \cup sent' = ToSet(item) \cup sent
<1> USE DEF QueueInv, books
<1>1. item[1] \in Message /\ ToSet(item) = {item[1]} /\ item[1] \notin sent
    BY InHand DEF LoopInv
<1>2. item' = <<>> => ToSet(item)' = {}
    BY DEF ToSet
<1>3. item' = item => ToSet(item)' = ToSet(item)
    BY DEF ToSet
<1>4. ToSet(item)' \cup sent' = ToSet(item) \cup sent
      /\ ToSet(comms)' = ToSet(comms)
    BY <1>1, <1>2, <1>3 DEF ToSet
<1>5. Messages' = Messages
    BY <1>4 DEF Messages, Held
<1>6. TypeOK'
    <2>1. <<>> \in Seq(Message) /\ Len(<<>>) = 0 /\ <<>> \in Seq(Host)
        BY EmptySeq
    <2>2. sent' \subseteq Message
        BY <1>1 DEF TypeOK
    <2>3. item' \in Seq(Message) /\ Len(item') = IF loop' = "scan" THEN 0 ELSE 1
        BY <2>1 DEF TypeOK
    <2>4. awaited' # <<>> => /\ loop' \in {"wait", "ended"}
                             /\ item'[1].type = "initial_experiment_start"
        BY DEF IsStart
    <2>5. {awaited', hosts'} \subseteq Seq(Host)
        BY <2>1 DEF TypeOK
    <2>6. loop' \in {"scan", "send", "wait", "ended"}
        OBVIOUS
    <2> QED  BY <2>2, <2>3, <2>4, <2>5, <2>6 DEF TypeOK
<1>7. LoopInv'
    <2>1. InOrder(comms)'
        BY DEF LoopInv, InOrder
    <2>2. ToSet(comms)' \cap (ToSet(item)' \cup sent') = {}
        BY <1>4 DEF LoopInv
    <2> QED  BY <2>1, <2>2 DEF LoopInv, IsHalt, IsStart
<1>8. BookInv' /\ MessageInv' /\ UniqueInv'
    BY <1>5
       DEF BookInv, MessageInv, UniqueInv, Same, IsLow, IsHigh, IsHalt,
           IsStart
<1>9. SweptInv'
    BY <1>4, <1>5 DEF SweptInv, Same, IsHigh, IsHalt
<1> QED  BY <1>1, <1>4, <1>5, <1>6, <1>7, <1>8, <1>9

\* A reply, or an error: the loop goes on, keeps waiting or ends.
LEMMA ReplyKeeps ==
    ASSUME QueueInv, loop = "wait",
           \/ loop' = "scan" /\ item' = <<>> /\ awaited' = <<>>
           \/ /\ loop' \in {"wait", "ended"} /\ item' = item
              /\ awaited' = <<>> \/ IsStart(item[1])
              /\ awaited' \in Seq(Host),
           UNCHANGED <<now, comms, hosts, books, starts, sent>>
    PROVE  /\ QueueInv'
           /\ item[1] \in sent /\ ToSet(item) = {item[1]}
           /\ Messages' = Messages
           /\ ToSet(item)' \cup sent' = ToSet(item) \cup sent
<1> USE DEF QueueInv, books
<1>1. item[1] \in Message /\ ToSet(item) = {item[1]} /\ item[1] \in sent
    BY InHand DEF LoopInv
<1>2. item' = <<>> => ToSet(item)' = {}
    BY DEF ToSet
<1>3. item' = item => ToSet(item)' = ToSet(item)
    BY DEF ToSet
<1>4. ToSet(item)' \cup sent' = ToSet(item) \cup sent
      /\ ToSet(comms)' = ToSet(comms)
    BY <1>1, <1>2, <1>3 DEF ToSet
<1>5. Messages' = Messages
    BY <1>4 DEF Messages, Held
<1>6. TypeOK'
    <2>1. <<>> \in Seq(Message) /\ Len(<<>>) = 0 /\ <<>> \in Seq(Host)
        BY EmptySeq
    <2>2. item \in Seq(Message) /\ Len(item) = 1
        BY DEF TypeOK
    <2>3. item' \in Seq(Message) /\ Len(item') = IF loop' = "scan" THEN 0 ELSE 1
        <3>1. CASE loop' = "scan" /\ item' = <<>>
            BY <2>1, <3>1
        <3>2. CASE loop' \in {"wait", "ended"} /\ item' = item
            BY <2>2, <3>2
        <3> QED  BY <3>1, <3>2
    <2>4. awaited' # <<>> => /\ loop' \in {"wait", "ended"}
                             /\ item'[1].type = "initial_experiment_start"
        BY DEF IsStart
    <2>5. {awaited', hosts'} \subseteq Seq(Host)
        BY <2>1 DEF TypeOK
    <2>6. loop' \in {"scan", "send", "wait", "ended"}
        OBVIOUS
    <2> QED  BY <2>3, <2>4, <2>5, <2>6 DEF TypeOK
<1>7. LoopInv'
    <2>1. InOrder(comms)'
        BY DEF LoopInv, InOrder
    <2>2. ToSet(comms)' \cap (ToSet(item)' \cup sent') = {}
        BY <1>4 DEF LoopInv
    <2> QED  BY <2>1, <2>2 DEF LoopInv, IsHalt, IsStart
<1>8. BookInv' /\ MessageInv' /\ UniqueInv'
    BY <1>5
       DEF BookInv, MessageInv, UniqueInv, Same, IsLow, IsHigh, IsHalt,
           IsStart
<1>9. SweptInv'
    BY <1>4, <1>5 DEF SweptInv, Same, IsHigh, IsHalt
<1> QED  BY <1>1, <1>4, <1>5, <1>6, <1>7, <1>8, <1>9

\* What each step of the loop is for the three lemmas above.
LEMMA LoopSteps ==
    ASSUME QueueInv, Loop
    PROVE  \/ Pop
           \/ /\ loop = "send" /\ sent' = sent \cup {item[1]}
              /\ \/ loop' = "scan" /\ item' = <<>> /\ awaited' = <<>>
                 \/ /\ loop' = "wait" /\ item' = item
                    /\ IsHalt(item[1]) \/ IsStart(item[1])
                    /\ awaited' = <<>> \/ IsStart(item[1])
                    /\ awaited' \in Seq(Host)
              /\ UNCHANGED <<now, comms, hosts, books, starts>>
           \/ /\ loop = "wait"
              /\ \/ loop' = "scan" /\ item' = <<>> /\ awaited' = <<>>
                 \/ /\ loop' \in {"wait", "ended"} /\ item' = item
                    /\ awaited' = <<>> \/ IsStart(item[1])
                    /\ awaited' \in Seq(Host)
              /\ UNCHANGED <<now, comms, hosts, books, starts, sent>>
<1> USE DEF QueueInv
<1>1. /\ awaited \in Seq(Host) /\ hosts \in Seq(Host) /\ <<>> \in Seq(Host)
      /\ awaited # <<>> => /\ loop \in {"wait", "ended"}
                           /\ IsStart(item[1])
    BY EmptySeq DEF TypeOK, IsStart
<1>2. awaited # <<>> => Tail(awaited) \in Seq(Host)
    BY <1>1, HeadTailProperties
<1>3. CASE Pop
    BY <1>3
<1>4. CASE PostAllocation
    BY <1>1, <1>4 DEF PostAllocation
<1>5. CASE PostHalt
    BY <1>1, <1>5 DEF PostHalt, IsHalt
<1>6. CASE PostStart
    BY <1>1, <1>6 DEF PostStart, IsStart
<1>7. CASE HaltAnswered
    <2>1. awaited = <<>>
        BY <1>1, <1>7 DEF HaltAnswered, IsStart
    <2> QED  BY <1>7, <2>1 DEF HaltAnswered
<1>8. CASE StartReply
    BY <1>1, <1>2, <1>8 DEF StartReply
<1>9. CASE StartError
    BY <1>1, <1>9 DEF StartError
<1> QED  BY <1>3, <1>4, <1>5, <1>6, <1>7, <1>8, <1>9 DEF Loop

\* No step of the loop disturbs the invariant.
LEMMA LoopKeeps == ASSUME QueueInv, Loop  PROVE QueueInv'
BY LoopSteps, PopKeeps, PostKeeps, ReplyKeeps

\* Nor does a call of the controller.
LEMMA ControllerKeeps == ASSUME QueueInv, Controller  PROVE QueueInv'
<1>1. CASE \E d \in Dnn, time \in 1 .. MaxTime :
                BookLow(d, time) \/ BookHigh(d, time)
    BY <1>1, BookKeeps DEF BookLow, BookHigh
<1>2. CASE \E d \in HighDnn : Blank(d) \/ Halt(d)
    BY <1>2, BlankKeeps, HaltKeeps
<1> QED  BY <1>1, <1>2 DEF Controller

\* The empty queue of the beginning.
LEMMA QueueInit == Init => QueueInv
<1> SUFFICES ASSUME Init  PROVE QueueInv
    OBVIOUS
<1>1. /\ ToSet(comms) = {} /\ ToSet(item) = {} /\ Messages = {}
      /\ InOrder(comms)
    BY DEF Init, ToSet, Messages, Held, InOrder
<1>2. <<>> \in Seq(Message) /\ <<>> \in Seq(Host) /\ Len(<<>>) = 0
    BY EmptySeq
<1>3. TypeOK
    BY <1>2, NetworkQueueAssumption DEF Init, TypeOK, Dnn
<1>4. LoopInv /\ BookInv
    BY <1>1 DEF Init, LoopInv, BookInv, Dnn
<1>5. MessageInv /\ UniqueInv /\ SweptInv
    BY <1>1 DEF MessageInv, UniqueInv, SweptInv
<1> QED  BY <1>3, <1>4, <1>5 DEF QueueInv

-----------------------------------------------------------------------------
(* The refinement of Outbox, step by step *)

\* Init is an initial state of the outbox.
LEMMA OutboxInit == Init => OutboxImplemented!Init
<1> SUFFICES ASSUME Init  PROVE OutboxImplemented!Init
    OBVIOUS
<1>1. ToSet(comms) = {} /\ ToSet(item) \cup sent = {} /\ now = 1
    BY DEF Init, ToSet
<1> QED  BY <1>1 DEF OutboxImplemented!Init

\* A step that leaves the clock, the queue and what was taken alone stutters.
LEMMA OutboxStutter ==
    ASSUME UNCHANGED <<now, comms>>,
           ToSet(item)' \cup sent' = ToSet(item) \cup sent
    PROVE  UNCHANGED OutboxImplemented!vars
BY DEF OutboxImplemented!vars, ToSet

\* Queueing a message adds it to the outbox.
LEMMA OutboxAdd ==
    ASSUME TypeOK, LoopInv, NEW m \in Message, m \notin Messages,
           AddTask(m), UNCHANGED <<now, loop, item, sent>>
    PROVE  OutboxImplemented!Next
<1>1. ToSet(comms') = {m} \cup
        (IF IsHalt(m) THEN {n \in ToSet(comms) : IsLow(n)} ELSE ToSet(comms))
    BY AddKeeps
<1>2. ToSet(item)' = ToSet(item) /\ ToSet(comms)' = ToSet(comms')
    BY DEF ToSet
<1>3. OutboxImplemented!Add(m)
    BY <1>1, <1>2
       DEF OutboxImplemented!Add, OutboxImplemented!LowOnly, IsHalt, IsLow,
           Messages, Held
<1> QED  BY <1>3 DEF OutboxImplemented!Next

\* Every step of the loop takes a message that is due, or stutters.
LEMMA OutboxLoop ==
    ASSUME QueueInv, Loop
    PROVE  OutboxImplemented!Next \/ UNCHANGED OutboxImplemented!vars
<1> USE DEF QueueInv
<1>1. CASE Pop
    <2> DEFINE m == Head(comms)
    <2>1. /\ m \in ToSet(comms)
          /\ ToSet(comms') = ToSet(comms) \ {m}
          /\ \A n \in ToSet(comms) : m.time <= n.time
          /\ ToSet(item) = {} /\ ToSet(item)' = {m}
        BY <1>1, PopKeeps
    <2>2. m.time <= now /\ UNCHANGED <<now, sent>>
        BY <1>1 DEF Pop
    <2>3. m \in Message
        <3>1. ToSet(comms) \subseteq Message
            BY DEF TypeOK, ToSet
        <3> QED  BY <2>1, <3>1
    <2>4. ToSet(comms)' = ToSet(comms')
        BY DEF ToSet
    <2> HIDE DEF m
    <2>5. OutboxImplemented!Take(m)
        BY <2>1, <2>2, <2>4 DEF OutboxImplemented!Take
    <2> QED  BY <2>3, <2>5 DEF OutboxImplemented!Next
<1>2. CASE ~Pop
    <2>1. /\ UNCHANGED <<now, comms>>
          /\ ToSet(item)' \cup sent' = ToSet(item) \cup sent
        BY <1>2, LoopSteps, PostKeeps, ReplyKeeps
    <2> QED  BY <2>1, OutboxStutter
<1> QED  BY <1>1, <1>2

\* What a call of the controller and a start of the experiment do to the
\* queue: they add a message that was nowhere, or nothing.
LEMMA AddingSteps ==
    ASSUME QueueInv, Controller \/ StartExperiment
    PROVE  /\ UNCHANGED <<now, loop, item, sent>>
           /\ \/ UNCHANGED comms
              \/ \E m \in Message : m \notin Messages /\ AddTask(m)
<1> USE DEF QueueInv
<1>1. ASSUME NEW d \in Dnn, NEW time \in 1 .. MaxTime, NEW type,
             Book(d, type, time),
             type \in {"low_complexity_allocation",
                       "high_complexity_task_mapping"}
      PROVE  \E m \in Message : m \notin Messages /\ AddTask(m)
    <2> DEFINE m == Mapping(d, type, time)
    <2>1. m \in Message
        BY <1>1, NetworkQueueAssumption DEF Mapping, Message, TypeOK
    <2>2. m \notin Messages
        BY <1>1, FreshMessages DEF Book
    <2>3. AddTask(m)
        BY <1>1 DEF Book
    <2> QED  BY <2>1, <2>2, <2>3
<1>2. ASSUME NEW d \in HighDnn, Halt(d)
      PROVE  \E m \in Message : m \notin Messages /\ AddTask(m)
    <2> DEFINE m == HaltMessage(d)
    <2>1. m \in Message
        <3>1. run[d] \in 1 .. MaxRun /\ d \in Dnn
            BY <1>2, NetworkQueueAssumption DEF Halt, TypeOK, BookInv, Dnn
        <3>2. run[d] - 1 \in 0 .. MaxRun
            BY <3>1, NetworkQueueAssumption
        <3> QED
            BY <3>1, <3>2, NetworkQueueAssumption
               DEF HaltMessage, Message, TypeOK
    <2>2. m \notin Messages
        BY <1>2, FreshMessages DEF Halt
    <2>3. AddTask(m)
        BY <1>2 DEF Halt
    <2> QED  BY <2>1, <2>2, <2>3
<1>3. ASSUME StartExperiment
      PROVE  \E m \in Message : m \notin Messages /\ AddTask(m)
    <2> DEFINE m == [type |-> "initial_experiment_start", dnn |-> NoDnn,
                     run |-> starts, time |-> now, host |-> NoHost]
    <2>1. m \in Message
        BY <1>3, NetworkQueueAssumption DEF StartExperiment, Message, TypeOK
    <2>2. m \notin Messages
        BY FreshMessages
    <2>3. AddTask(m)
        BY <1>3 DEF StartExperiment
    <2> QED  BY <2>1, <2>2, <2>3
<1>4. UNCHANGED <<now, loop, item, sent>>
    BY DEF Controller, BookLow, BookHigh, Book, Blank, Halt, StartExperiment
<1>5. (\E d \in HighDnn : Blank(d)) => UNCHANGED comms
    BY DEF Blank
<1> QED
    BY <1>1, <1>2, <1>3, <1>4, <1>5 DEF Controller, BookLow, BookHigh

\* They add a message to the outbox, or stutter.
LEMMA OutboxAdding ==
    ASSUME QueueInv, Controller \/ StartExperiment
    PROVE  OutboxImplemented!Next \/ UNCHANGED OutboxImplemented!vars
<1>1. CASE UNCHANGED comms
    <2>1. ToSet(item)' \cup sent' = ToSet(item) \cup sent /\ UNCHANGED now
        BY AddingSteps DEF ToSet
    <2> QED  BY <1>1, <2>1, OutboxStutter
<1>2. CASE \E m \in Message : m \notin Messages /\ AddTask(m)
    BY <1>2, AddingSteps, OutboxAdd DEF QueueInv
<1> QED  BY <1>1, <1>2, AddingSteps

\* The clock of the outbox is the same.
LEMMA OutboxTick == ASSUME Tick  PROVE OutboxImplemented!Next
BY DEF Tick, OutboxImplemented!Next, OutboxImplemented!Tick, ToSet

-----------------------------------------------------------------------------
(* Two properties both compositions have *)

\* An allocation of a low complexity DNN stays: in the queue, in the hand of
\* the loop, or posted.
LEMMA LowStays ==
    ASSUME QueueInv, Tick \/ Controller \/ StartExperiment \/ Loop,
           NEW m \in Messages, IsLow(m)
    PROVE  m \in Messages'
<1>1. CASE UNCHANGED <<comms, item, sent>>
    BY <1>1 DEF Messages, Held, ToSet
<1>2. ASSUME NEW n \in Message, AddTask(n), n \notin Messages,
             UNCHANGED <<loop, item, sent>>
      PROVE  m \in Messages'
    <2>1. ToSet(comms') = {n} \cup
            (IF IsHalt(n) THEN {x \in ToSet(comms) : IsLow(x)}
             ELSE ToSet(comms))
        BY <1>2, AddKeeps DEF QueueInv
    <2> QED  BY <1>2, <2>1 DEF Messages, Held, ToSet
<1>3. CASE Tick
    BY <1>1, <1>3 DEF Tick
<1>4. CASE Controller \/ StartExperiment
    BY <1>1, <1>2, <1>4, AddingSteps
<1>5. CASE Loop
    BY <1>5, LoopSteps, PopKeeps, PostKeeps, ReplyKeeps
<1> QED  BY <1>3, <1>4, <1>5

\* What was posted stays so, and what a step posts is what the loop had in
\* hand; after a halt that is not an allocation of the version it names.
LEMMA PostsInHand ==
    ASSUME QueueInv, Tick \/ Controller \/ StartExperiment \/ Loop
    PROVE  /\ sent \subseteq sent'
           /\ \A n \in sent' \ sent : loop = "send" /\ n = item[1]
           /\ \A m \in sent, n \in sent' \ sent :
                IsHalt(m) /\ IsHigh(n) => ~Same(m, n)
<1>1. CASE UNCHANGED sent
    BY <1>1
<1>2. CASE loop = "send" /\ sent' = sent \cup {item[1]}
    BY <1>2 DEF QueueInv, SweptInv, Messages
<1>3. CASE Tick
    BY <1>1, <1>3 DEF Tick
<1>4. CASE Controller \/ StartExperiment
    BY <1>1, <1>4, AddingSteps
<1>5. CASE Loop
    <2>1. CASE Pop
        BY <1>1, <2>1 DEF Pop
    <2> QED  BY <1>1, <1>2, <1>5, <2>1, LoopSteps
<1> QED  BY <1>3, <1>4, <1>5

\* A low complexity DNN that is booked has its allocation, then and later.
LEMMA LowKept ==
    ASSUME QueueInv, LowNeverLost,
           Tick \/ Controller \/ StartExperiment \/ Loop
    PROVE  LowNeverLost'
<1> SUFFICES ASSUME NEW d \in LowDnn, d \in off_total'
             PROVE  \E m \in Messages' : IsLow(m) /\ m.dnn = d
    BY DEF LowNeverLost, Messages, IsLow
<1>1. CASE d \in off_total
    <2>1. PICK m \in Messages : IsLow(m) /\ m.dnn = d
        BY <1>1 DEF LowNeverLost, Messages
    <2> QED  BY <2>1, LowStays
<1>2. CASE d \notin off_total
    <2>1. PICK time \in 1 .. MaxTime : BookLow(d, time)
        BY <1>2, NetworkQueueAssumption
           DEF Tick, Controller, BookLow, BookHigh, Book, Blank, Halt,
               StartExperiment, Loop, Pop, PostAllocation, PostHalt, PostStart,
               HaltAnswered, StartReply, StartError, books
    <2> DEFINE m == Mapping(d, "low_complexity_allocation", time)
    <2>2. d \in waiting /\ AddTask(m) /\ UNCHANGED <<loop, item, sent>>
        BY <2>1 DEF BookLow, Book
    <2>3. m \notin Messages
        BY <2>2, FreshMessages
    <2>4. m \in Message /\ IsLow(m) /\ m.dnn = d
        BY NetworkQueueAssumption
           DEF Mapping, Message, IsLow, QueueInv, TypeOK, Dnn
    <2> HIDE DEF m
    <2>5. m \in Messages'
        BY <2>2, <2>3, <2>4, AddKeeps DEF QueueInv
    <2> QED  BY <2>4, <2>5
<1> QED  BY <1>1, <1>2

\* What HaltIsLast says of a step.
LastStep ==
    \A m \in sent : m.type = "halt_req" =>
        ~\E n \in sent' \ sent :
            /\ n.type = "high_complexity_task_mapping"
            /\ n.dnn = m.dnn
            /\ n.run = m.run

\* After the halt of a version was posted its allocation is not.
LEMMA HaltKeptLast ==
    ASSUME QueueInv, Tick \/ Controller \/ StartExperiment \/ Loop
    PROVE  LastStep
<1>1. \A m \in sent, n \in sent' \ sent :
        IsHalt(m) /\ IsHigh(n) => ~Same(m, n)
    BY PostsInHand
<1> QED  BY <1>1 DEF LastStep, IsHalt, IsHigh, Same

=============================================================================
