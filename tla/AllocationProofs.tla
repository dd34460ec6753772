-------------------------- MODULE AllocationProofs --------------------------
(***************************************************************************)
(* Proofs about Allocation, for every set of devices, DNNs and requests    *)
(* and all sizes and times.                                                *)
(*                                                                         *)
(* The books are a predicate of what a call works on, so that it speaks of *)
(* the variables and of the local state of a high allocation alike: there  *)
(* some DNNs are booked and some only tried.                               *)
(***************************************************************************)
EXTENDS Allocation, LinkSlotProofs, SequenceTheorems, FiniteSetTheorems

\* Nothing is in s twice.
Distinct(s) == \A i, j \in 1 .. Len(s) : i < j => s[i] # s[j]

\* No two links have the same name.
SameName(l, m) == l.dnn = m.dnn /\ l.use = m.use /\ l.run = m.run

DistinctNames(link) ==
    \A i, j \in 1 .. Len(link) : i < j => ~SameName(link[i], link[j])

-----------------------------------------------------------------------------
(* Loops *)

\* What holds at 0 and goes from i - 1 to i holds at n.
LEMMA UpTo ==
    ASSUME NEW n \in Nat, NEW G, 0 \in G,
           \A i \in 1 .. n : i - 1 \in G => i \in G
    PROVE  \A i \in 0 .. n : i \in G
<1> DEFINE Bad == {i \in 0 .. n : i \notin G}
<1>1. SUFFICES ASSUME Bad # {}  PROVE FALSE
    OBVIOUS
<1>2. Bad \in SUBSET Nat
    OBVIOUS
<1>3. PICK i \in Bad : \A j \in Bad : i <= j
    <2> HIDE DEF Bad
    <2> QED  BY <1>1, <1>2, LeastNat
<1>4. i \in 1 .. n /\ i - 1 \in 0 .. n
    BY <1>3
<1>5. i - 1 \notin Bad
    BY <1>3, <1>4
<1> QED  BY <1>3, <1>4, <1>5

\* The local state of a loop whose step is g, from b on, after each element.
Loop(f, V, b, g, n) ==
    /\ f \in [0 .. n -> V]
    /\ f[0] = b
    /\ \A i \in 1 .. n : f[i] = g[<<f[i - 1], i>>]

\* A loop over n elements has a local state after each of them.
LEMMA LoopExists ==
    ASSUME NEW V, NEW b \in V, NEW n \in Nat,
           NEW g \in [V \X (1 .. n) -> V]
    PROVE  \E f : Loop(f, V, b, g, n)
<1> DEFINE Good(k) == \E f : Loop(f, V, b, g, k)
           G == {k \in 0 .. n : Good(k)}
<1>1. Good(0)
    <2> DEFINE f == [i \in {0} |-> b]
    <2>1. 0 .. 0 = {0} /\ 1 .. 0 = {}
        OBVIOUS
    <2>2. Loop(f, V, b, g, 0)
        BY <2>1 DEF Loop
    <2> QED  BY <2>2
<1>2. ASSUME NEW k \in 1 .. n, Good(k - 1)  PROVE Good(k)
    <2>1. PICK f : Loop(f, V, b, g, k - 1)
        BY <1>2
    <2> DEFINE h == [i \in 0 .. k |-> IF i = k THEN g[<<f[k - 1], k>>] ELSE f[i]]
    <2>2. k \in Nat /\ k - 1 \in 0 .. k - 1 /\ k # 0
        OBVIOUS
    <2>3. f[k - 1] \in V
        BY <2>1, <2>2 DEF Loop
    <2>4. g[<<f[k - 1], k>>] \in V
        BY <2>3
    <2>5. \A i \in 0 .. k - 1 : h[i] = f[i] /\ f[i] \in V
        BY <2>1, <2>2 DEF Loop
    <2>6. h[k] = g[<<f[k - 1], k>>] /\ h[k - 1] = f[k - 1] /\ h[0] = f[0]
        BY <2>2
    <2>7. h \in [0 .. k -> V]
        <3>1. \A i \in 0 .. k : i # k => i \in 0 .. k - 1
            OBVIOUS
        <3>2. \A i \in 0 .. k : h[i] \in V
            BY <2>4, <2>5, <2>6, <3>1
        <3>3. h = [i \in 0 .. k |-> h[i]]
            OBVIOUS
        <3> HIDE DEF h
        <3> QED  BY <3>2, <3>3, Zenon
    <2>8. \A i \in 1 .. k : h[i] = g[<<h[i - 1], i>>]
        <3> TAKE i \in 1 .. k
        <3>1. CASE i = k
            BY <2>6, <3>1
        <3>2. CASE i # k
            <4>1. i \in 1 .. k - 1 /\ i \in 0 .. k - 1 /\ i - 1 \in 0 .. k - 1
                BY <3>2
            <4>2. f[i] = g[<<f[i - 1], i>>]
                BY <2>1, <4>1 DEF Loop
            <4> HIDE DEF h
            <4> QED  BY <2>5, <4>1, <4>2
        <3> QED  BY <3>1, <3>2
    <2>9. Loop(h, V, b, g, k)
        <3> HIDE DEF h
        <3> QED  BY <2>1, <2>6, <2>7, <2>8 DEF Loop
    <2> QED  BY <2>9
<1>3. \A i \in 0 .. n : i \in G
    <2>1. 0 \in G
        BY <1>1
    <2>2. \A k \in 1 .. n : k - 1 \in G => k \in G
        <3> HIDE DEF Good
        <3> QED  BY <1>2
    <2> HIDE DEF G
    <2> QED  BY <2>1, <2>2, UpTo
<1> QED  BY <1>3

-----------------------------------------------------------------------------
(* Sequences *)

LEMMA Elements ==
    ASSUME NEW T, NEW s \in Seq(T)
    PROVE  /\ Len(s) \in Nat /\ DOMAIN s = 1 .. Len(s)
           /\ ToSet(s) \subseteq T
           /\ \A i \in 1 .. Len(s) : s[i] \in T /\ s[i] \in ToSet(s)
           /\ \A e \in ToSet(s) : \E i \in 1 .. Len(s) : e = s[i]
<1>1. Len(s) \in Nat /\ DOMAIN s = 1 .. Len(s)
    BY LenProperties
<1>2. \A i \in 1 .. Len(s) : s[i] \in T
    BY ElementOfSeq
<1> QED  BY <1>1, <1>2 DEF ToSet

\* What Append keeps and what it adds.
LEMMA Appended ==
    ASSUME NEW T, NEW s \in Seq(T), NEW e \in T
    PROVE  /\ Append(s, e) \in Seq(T)
           /\ Len(Append(s, e)) = Len(s) + 1
           /\ \A i \in 1 .. Len(s) : Append(s, e)[i] = s[i]
           /\ Append(s, e)[Len(s) + 1] = e
           /\ ToSet(Append(s, e)) = ToSet(s) \cup {e}
<1> DEFINE t == Append(s, e)
<1>1. /\ t \in Seq(T) /\ Len(t) = Len(s) + 1
      /\ \A i \in 1 .. Len(s) : t[i] = s[i]
      /\ t[Len(s) + 1] = e
    BY AppendProperties
<1> HIDE DEF t
<1>2. Len(s) \in Nat /\ Len(s) + 1 \in 1 .. Len(t)
    BY <1>1, Elements
<1>3. ToSet(t) \subseteq ToSet(s) \cup {e}
    <2> SUFFICES ASSUME NEW x \in ToSet(t)  PROVE x \in ToSet(s) \cup {e}
        OBVIOUS
    <2>1. PICK i \in 1 .. Len(t) : x = t[i]
        BY <1>1, Elements
    <2>2. i \in 1 .. Len(s) \/ i = Len(s) + 1
        BY <1>1, <1>2
    <2> QED  BY <1>1, <2>1, <2>2, Elements
<1>4. ToSet(s) \cup {e} \subseteq ToSet(t)
    <2> SUFFICES ASSUME NEW x \in ToSet(s) \cup {e}  PROVE x \in ToSet(t)
        OBVIOUS
    <2>1. CASE x = e
        BY <1>1, <1>2, <2>1, Elements
    <2>2. CASE x \in ToSet(s)
        <3>1. PICK i \in 1 .. Len(s) : x = s[i]
            BY <2>2, Elements
        <3>2. i \in 1 .. Len(t) /\ x = t[i]
            BY <1>1, <1>2, <3>1
        <3> QED  BY <1>1, <3>2, Elements
    <2> QED  BY <2>1, <2>2
<1>5. ToSet(t) = ToSet(s) \cup {e}
    BY <1>3, <1>4
<1> QED  BY <1>1, <1>5 DEF t

\* Two elements more, in the order in which they were there before.
LEMMA AppendedTwo ==
    ASSUME NEW T, NEW s \in Seq(T), NEW d \in T, NEW e \in T
    PROVE  s \o <<d, e>> = Append(Append(s, d), e)
<1>1. Append(s, d) \in Seq(T) /\ <<d, e>> \in Seq(T)
    BY Appended
<1>2. s \o <<d, e>> \in Seq(T) /\ Append(Append(s, d), e) \in Seq(T)
    BY <1>1, Appended, ConcatProperties
<1>3. Append(s, d) = s \o <<d>> /\ Append(Append(s, d), e) = (s \o <<d>>) \o <<e>>
    BY <1>1, AppendIsConcat
<1> QED  BY <1>1, <1>2, <1>3

\* The local state of the loop of Keep, and of the one of SortedByFin, at i.
KeepStep(s, S, f, i) ==
    IF i = 0 THEN <<>>
    ELSE IF s[i] \in S THEN Append(f[i - 1], s[i]) ELSE f[i - 1]

SortStep(s, f, i) == IF i = 0 THEN <<>> ELSE Inserted(f[i - 1], s[i])

\* Keep is what its loop leaves after the last element.
LEMMA KeepLoop ==
    ASSUME NEW T, NEW s \in Seq(T), NEW S
    PROVE  \E f : /\ f = [i \in 0 .. Len(s) |-> KeepStep(s, S, f, i)]
                  /\ Keep(s, S) = f[Len(s)]
<1> DEFINE n == Len(s)
           V == Seq(T)
           g == [p \in V \X (1 .. n) |->
                    IF s[p[2]] \in S THEN Append(p[1], s[p[2]]) ELSE p[1]]
<1>1. n \in Nat /\ \A i \in 1 .. n : s[i] \in T
    BY Elements
<1>2. <<>> \in V
    BY EmptySeq
<1>3. g \in [V \X (1 .. n) -> V]
    <2>1. \A p \in V \X (1 .. n) : p[1] \in V /\ s[p[2]] \in T
        BY <1>1
    <2>2. \A t \in V, e \in T : Append(t, e) \in V
        BY Appended
    <2> HIDE DEF V
    <2> QED  BY <2>1, <2>2
<1> HIDE DEF V, g
<1>4. PICK f : Loop(f, V, <<>>, g, n)
    BY <1>1, <1>2, <1>3, LoopExists
<1>5. \A i \in 1 .. n : f[i] = KeepStep(s, S, f, i)
    <2> TAKE i \in 1 .. n
    <2>1. f[i - 1] \in V
        BY <1>1, <1>4 DEF Loop
    <2>2. f[i] = g[<<f[i - 1], i>>]
        BY <1>4 DEF Loop
    <2>3. <<f[i - 1], i>> \in V \X (1 .. n)
        BY <2>1
    <2> QED  BY <2>2, <2>3 DEF g, KeepStep
<1>6. f = [i \in 0 .. n |-> KeepStep(s, S, f, i)]
    <2>1. f[0] = KeepStep(s, S, f, 0)
        BY <1>4 DEF Loop, KeepStep
    <2>2. \A i \in 0 .. n : i = 0 \/ i \in 1 .. n
        BY <1>1
    <2>3. \A i \in 0 .. n : f[i] = KeepStep(s, S, f, i)
        BY <1>5, <2>1, <2>2
    <2>4. f = [i \in 0 .. n |-> f[i]]
        BY <1>4 DEF Loop
    <2> QED  BY <2>3, <2>4, Zenon
<1> DEFINE F == CHOOSE h : h = [i \in 0 .. Len(s) |->
                    IF i = 0 THEN <<>>
                    ELSE IF s[i] \in S THEN Append(h[i - 1], s[i])
                    ELSE h[i - 1]]
<1>7. F = [i \in 0 .. Len(s) |->
            IF i = 0 THEN <<>>
            ELSE IF s[i] \in S THEN Append(F[i - 1], s[i]) ELSE F[i - 1]]
    <2>1. \E h : h = [i \in 0 .. Len(s) |->
                    IF i = 0 THEN <<>>
                    ELSE IF s[i] \in S THEN Append(h[i - 1], s[i])
                    ELSE h[i - 1]]
        BY <1>6 DEF KeepStep
    <2> QED  BY <2>1, Zenon
<1>8. Keep(s, S) = F[Len(s)]
    BY DEF Keep
<1> HIDE DEF F
<1> QED  BY <1>7, <1>8 DEF KeepStep

\* The elements that stay: those in S, each pair in its order.
LEMMA Kept ==
    ASSUME NEW T, NEW s \in Seq(T), NEW S
    PROVE  /\ Keep(s, S) \in Seq(T)
           /\ ToSet(Keep(s, S)) = ToSet(s) \cap S
           /\ \A k, l \in 1 .. Len(Keep(s, S)) : k < l =>
                \E i, j \in 1 .. Len(s) :
                    i < j /\ Keep(s, S)[k] = s[i] /\ Keep(s, S)[l] = s[j]
<1> DEFINE n == Len(s)
<1>1. n \in Nat /\ \A i \in 1 .. n : s[i] \in T
    BY Elements
<1>2. PICK f : /\ f = [i \in 0 .. n |-> KeepStep(s, S, f, i)]
               /\ Keep(s, S) = f[n]
    BY KeepLoop
<1> DEFINE Good(i) ==
            /\ f[i] \in Seq(T)
            /\ \A k \in 1 .. Len(f[i]) :
                f[i][k] \in S /\ \E a \in 1 .. i : f[i][k] = s[a]
            /\ \A a \in 1 .. i : s[a] \in S =>
                \E k \in 1 .. Len(f[i]) : f[i][k] = s[a]
            /\ \A k, l \in 1 .. Len(f[i]) : k < l =>
                \E a, b \in 1 .. i : a < b /\ f[i][k] = s[a] /\ f[i][l] = s[b]
           G == {i \in 0 .. n : Good(i)}
<1>3. Good(0)
    <2>1. f[0] = <<>>
        BY <1>1, <1>2 DEF KeepStep
    <2> QED  BY <2>1, EmptySeq
<1>4. ASSUME NEW i \in 1 .. n, Good(i - 1)  PROVE Good(i)
    <2> DEFINE h == f[i - 1]
               t == f[i]
    <2>1. t = IF s[i] \in S THEN Append(h, s[i]) ELSE h
        <3>1. i \in 0 .. n /\ i # 0
            BY <1>1
        <3>2. f[i] = KeepStep(s, S, f, i)
            BY <1>2, <3>1, Zenon
        <3> QED  BY <3>1, <3>2 DEF KeepStep
    <2>2. /\ h \in Seq(T) /\ Len(h) \in Nat
          /\ \A k \in 1 .. Len(h) :
                h[k] \in S /\ \E a \in 1 .. i - 1 : h[k] = s[a]
          /\ \A a \in 1 .. i - 1 : s[a] \in S =>
                \E k \in 1 .. Len(h) : h[k] = s[a]
          /\ \A k, l \in 1 .. Len(h) : k < l =>
                \E a, b \in 1 .. i - 1 : a < b /\ h[k] = s[a] /\ h[l] = s[b]
        BY <1>4, Elements
    <2>3. \A a \in 1 .. i - 1 : a \in 1 .. i /\ a < i
        OBVIOUS
    <2>4. i \in 1 .. i /\ \A a \in 1 .. i : a # i => a \in 1 .. i - 1
        OBVIOUS
    <2> SUFFICES /\ t \in Seq(T)
                 /\ \A k \in 1 .. Len(t) :
                    t[k] \in S /\ \E a \in 1 .. i : t[k] = s[a]
                 /\ \A a \in 1 .. i : s[a] \in S =>
                    \E k \in 1 .. Len(t) : t[k] = s[a]
                 /\ \A k, l \in 1 .. Len(t) : k < l =>
                    \E a, b \in 1 .. i : a < b /\ t[k] = s[a] /\ t[l] = s[b]
        OBVIOUS
    <2> HIDE DEF h, t
    <2>5. CASE s[i] \notin S
        <3>1. t = h
            BY <2>1, <2>5
        <3>2. \A k \in 1 .. Len(t) :
                    t[k] \in S /\ \E a \in 1 .. i : t[k] = s[a]
            BY <2>2, <2>3, <3>1
        <3>3. \A a \in 1 .. i : s[a] \in S =>
                    \E k \in 1 .. Len(t) : t[k] = s[a]
            BY <2>2, <2>4, <2>5, <3>1
        <3>4. \A k, l \in 1 .. Len(t) : k < l =>
                    \E a, b \in 1 .. i : a < b /\ t[k] = s[a] /\ t[l] = s[b]
            BY <2>2, <2>3, <3>1
        <3> QED  BY <2>2, <3>1, <3>2, <3>3, <3>4
    <2>6. CASE s[i] \in S
        <3>1. /\ t \in Seq(T) /\ Len(t) = Len(h) + 1
              /\ \A k \in 1 .. Len(h) : t[k] = h[k]
              /\ t[Len(h) + 1] = s[i]
            BY <1>1, <2>1, <2>2, <2>6, Appended
        <3>2. /\ \A k \in 1 .. Len(t) : k # Len(h) + 1 => k \in 1 .. Len(h)
              /\ Len(h) + 1 \in 1 .. Len(t)
              /\ \A k \in 1 .. Len(h) : k \in 1 .. Len(t)
            BY <2>2, <3>1
        <3>3. \A k \in 1 .. Len(t) :
                    t[k] \in S /\ \E a \in 1 .. i : t[k] = s[a]
            <4> TAKE k \in 1 .. Len(t)
            <4>1. CASE k = Len(h) + 1
                BY <2>4, <2>6, <3>1, <4>1
            <4>2. CASE k # Len(h) + 1
                <5>1. k \in 1 .. Len(h)
                    BY <3>2, <4>2
                <5>2. PICK a \in 1 .. i - 1 : h[k] = s[a]
                    BY <2>2, <5>1
                <5> QED  BY <2>2, <2>3, <3>1, <5>1, <5>2
            <4> QED  BY <4>1, <4>2
        <3>4. \A a \in 1 .. i : s[a] \in S =>
                    \E k \in 1 .. Len(t) : t[k] = s[a]
            <4> SUFFICES ASSUME NEW a \in 1 .. i, s[a] \in S
                         PROVE  \E k \in 1 .. Len(t) : t[k] = s[a]
                OBVIOUS
            <4>1. CASE a = i
                BY <3>1, <3>2, <4>1
            <4>2. CASE a # i
                <5>1. PICK k \in 1 .. Len(h) : h[k] = s[a]
                    BY <2>2, <2>4, <4>2
                <5> QED  BY <3>1, <3>2, <5>1
            <4> QED  BY <4>1, <4>2
        <3>5. \A k, l \in 1 .. Len(t) : k < l =>
                    \E a, b \in 1 .. i : a < b /\ t[k] = s[a] /\ t[l] = s[b]
            <4> SUFFICES ASSUME NEW k \in 1 .. Len(t), NEW l \in 1 .. Len(t),
                                k < l
                         PROVE  \E a, b \in 1 .. i :
                                    a < b /\ t[k] = s[a] /\ t[l] = s[b]
                OBVIOUS
            <4>1. k \in 1 .. Len(h)
                BY <2>2, <3>1
            <4>2. CASE l = Len(h) + 1
                <5>1. PICK a \in 1 .. i - 1 : h[k] = s[a]
                    BY <2>2, <4>1
                <5>2. a \in 1 .. i /\ a < i /\ t[k] = s[a] /\ t[l] = s[i]
                    BY <2>3, <3>1, <4>1, <4>2, <5>1
                <5> QED  BY <2>4, <5>2
            <4>3. CASE l # Len(h) + 1
                <5>1. l \in 1 .. Len(h)
                    BY <3>2, <4>3
                <5>2. PICK a \in 1 .. i - 1, b \in 1 .. i - 1 :
                            a < b /\ h[k] = s[a] /\ h[l] = s[b]
                    BY <2>2, <4>1, <5>1
                <5>3. a \in 1 .. i /\ b \in 1 .. i
                    BY <2>3
                <5> QED  BY <3>1, <4>1, <5>1, <5>2, <5>3
            <4> QED  BY <4>2, <4>3
        <3> QED  BY <3>1, <3>3, <3>4, <3>5
    <2> QED  BY <2>5, <2>6
<1>5. Good(n)
    <2>1. \A i \in 0 .. n : i \in G
        <3>1. 0 \in G
            BY <1>1, <1>3
        <3>2. \A i \in 1 .. n : i - 1 \in G => i \in G
            <4> HIDE DEF Good
            <4> QED  BY <1>1, <1>4
        <3> HIDE DEF G
        <3> QED  BY <1>1, <3>1, <3>2, UpTo
    <2> HIDE DEF Good
    <2> QED  BY <1>1, <2>1
<1> DEFINE r == Keep(s, S)
           Fine(q) ==
            /\ q \in Seq(T)
            /\ \A k \in 1 .. Len(q) : q[k] \in S /\ \E a \in 1 .. n : q[k] = s[a]
            /\ \A a \in 1 .. n : s[a] \in S => \E k \in 1 .. Len(q) : q[k] = s[a]
            /\ \A k, l \in 1 .. Len(q) : k < l =>
                \E a, b \in 1 .. n : a < b /\ q[k] = s[a] /\ q[l] = s[b]
<1>6. Fine(r)
    <2>1. Fine(f[n])
        BY <1>5
    <2> HIDE DEF Fine
    <2> QED  BY <1>2, <2>1
<1> HIDE DEF r
<1>7. ToSet(r) \subseteq ToSet(s) \cap S
    <2> SUFFICES ASSUME NEW e \in ToSet(r)  PROVE e \in ToSet(s) \cap S
        OBVIOUS
    <2>1. PICK k \in 1 .. Len(r) : e = r[k]
        BY <1>6, Elements
    <2> QED  BY <1>6, <2>1, Elements
<1>8. ToSet(s) \cap S \subseteq ToSet(r)
    <2> SUFFICES ASSUME NEW e \in ToSet(s), e \in S  PROVE e \in ToSet(r)
        OBVIOUS
    <2>1. PICK a \in 1 .. n : e = s[a]
        BY Elements
    <2>2. PICK k \in 1 .. Len(r) : r[k] = s[a]
        BY <1>6, <2>1
    <2> QED  BY <1>6, <2>1, <2>2, Elements
<1>9. ToSet(r) = ToSet(s) \cap S
    BY <1>7, <1>8
<1> QED  BY <1>6, <1>9 DEF r

\* Loops over a sequence without repetitions, or over the ledger, leave none.
LEMMA KeptDistinct ==
    ASSUME NEW T, NEW s \in Seq(T), NEW S, Distinct(s)
    PROVE  Distinct(Keep(s, S))
<1> DEFINE t == Keep(s, S)
<1>1. \A k, l \in 1 .. Len(t) : k < l =>
            \E i, j \in 1 .. Len(s) : i < j /\ t[k] = s[i] /\ t[l] = s[j]
    BY Kept
<1> HIDE DEF t
<1>2. Distinct(t)
    BY <1>1 DEF Distinct
<1> QED  BY <1>2 DEF t

\* Links erased from a ledger leave the names of the others distinct.
LEMMA KeptNames ==
    ASSUME NEW T, NEW s \in Seq(T), NEW S, DistinctNames(s)
    PROVE  DistinctNames(Keep(s, S))
<1> DEFINE t == Keep(s, S)
<1>1. \A k, l \in 1 .. Len(t) : k < l =>
            \E i, j \in 1 .. Len(s) : i < j /\ t[k] = s[i] /\ t[l] = s[j]
    BY Kept
<1> HIDE DEF t
<1> SUFFICES ASSUME NEW k \in 1 .. Len(t), NEW l \in 1 .. Len(t), k < l
             PROVE  ~SameName(t[k], t[l])
    BY DEF DistinctNames, t
<1>2. PICK i \in 1 .. Len(s), j \in 1 .. Len(s) :
            i < j /\ t[k] = s[i] /\ t[l] = s[j]
    BY <1>1
<1> QED  BY <1>2 DEF DistinctNames

\* A new element at the end is in the sequence once.
LEMMA AppendedDistinct ==
    ASSUME NEW T, NEW s \in Seq(T), NEW e \in T, Distinct(s), e \notin ToSet(s)
    PROVE  Distinct(Append(s, e))
<1> DEFINE t == Append(s, e)
<1>1. /\ Len(s) \in Nat /\ Len(t) = Len(s) + 1
      /\ \A i \in 1 .. Len(s) : t[i] = s[i] /\ s[i] # e
      /\ t[Len(s) + 1] = e
    BY Appended, Elements
<1> HIDE DEF t
<1>2. Distinct(t)
    <2> SUFFICES ASSUME NEW k \in 1 .. Len(t), NEW l \in 1 .. Len(t), k < l
                 PROVE  t[k] # t[l]
        BY DEF Distinct
    <2>1. k \in 1 .. Len(s) /\ (l \in 1 .. Len(s) \/ l = Len(s) + 1)
        BY <1>1
    <2> QED  BY <1>1, <2>1 DEF Distinct
<1> QED  BY <1>2 DEF t

\* A link with a new name can be added to the ledger.
LEMMA AppendedNames ==
    ASSUME NEW T, NEW s \in Seq(T), NEW e \in T, DistinctNames(s),
           \A l \in ToSet(s) : ~SameName(l, e)
    PROVE  DistinctNames(Append(s, e))
<1> DEFINE t == Append(s, e)
<1>1. /\ Len(s) \in Nat /\ Len(t) = Len(s) + 1
      /\ \A i \in 1 .. Len(s) : t[i] = s[i] /\ ~SameName(s[i], e)
      /\ t[Len(s) + 1] = e
    BY Appended, Elements
<1> HIDE DEF t
<1>2. DistinctNames(t)
    <2> SUFFICES ASSUME NEW k \in 1 .. Len(t), NEW l \in 1 .. Len(t), k < l
                 PROVE  ~SameName(t[k], t[l])
        BY DEF DistinctNames
    <2>1. k \in 1 .. Len(s) /\ (l \in 1 .. Len(s) \/ l = Len(s) + 1)
        BY <1>1
    <2> QED  BY <1>1, <2>1 DEF DistinctNames
<1> QED  BY <1>2 DEF t

\* A sorted ledger is a ledger.
LEMMA InsertedOne ==
    ASSUME NEW T, NEW s \in Seq(T), NEW e \in T
    PROVE  Inserted(s, e) \in Seq(T)
<1> DEFINE I == {i \in DOMAIN s : s[i].fin <= e.fin}
           n == Cardinality(I)
<1>1. /\ Len(s) \in Nat /\ DOMAIN s = 1 .. Len(s)
      /\ \A i \in 1 .. Len(s) : s[i] \in T
    BY Elements
<1>2. I \in SUBSET (1 .. Len(s))
    BY <1>1
<1> HIDE DEF I
<1>3. IsFiniteSet(1 .. Len(s)) /\ Cardinality(1 .. Len(s)) = Len(s)
    <2>1. /\ IsFiniteSet(1 .. Len(s))
          /\ Cardinality(1 .. Len(s)) =
                IF 1 > Len(s) THEN 0 ELSE Len(s) - 1 + 1
        BY <1>1, FS_Interval
    <2> QED  BY <1>1, <2>1
<1>4. n \in Nat /\ n <= Len(s)
    BY <1>2, <1>3, FS_Subset, FS_CardinalityType
<1> HIDE DEF n
<1>5. SubSeq(s, 1, n) \in Seq(T) /\ SubSeq(s, n + 1, Len(s)) \in Seq(T)
    <2>1. \A i \in 1 .. n : s[i] \in T
        BY <1>1, <1>4
    <2>2. \A i \in n + 1 .. Len(s) : s[i] \in T
        BY <1>1, <1>4
    <2> QED  BY <1>1, <1>4, <2>1, <2>2, SubSeqProperties
<1>6. Inserted(s, e) = SubSeq(s, 1, n) \o <<e>> \o SubSeq(s, n + 1, Len(s))
    BY DEF Inserted, n, I
<1>7. <<e>> \in Seq(T)
    OBVIOUS
<1>8. SubSeq(s, 1, n) \o <<e>> \in Seq(T)
    BY <1>5, <1>7, ConcatProperties
<1> QED  BY <1>5, <1>6, <1>8, ConcatProperties

\* Sorting by finish time keeps the type of the elements.
LEMMA Sorted ==
    ASSUME NEW T, NEW s \in Seq(T)
    PROVE  SortedByFin(s) \in Seq(T)
<1> DEFINE n == Len(s)
           V == Seq(T)
           g == [p \in V \X (1 .. n) |-> Inserted(p[1], s[p[2]])]
<1>1. n \in Nat /\ \A i \in 1 .. n : s[i] \in T
    BY Elements
<1>2. <<>> \in V
    BY EmptySeq
<1>3. \A t \in V, e \in T : Inserted(t, e) \in V
    BY InsertedOne
<1>4. g \in [V \X (1 .. n) -> V]
    <2>1. \A p \in V \X (1 .. n) : p[1] \in V /\ s[p[2]] \in T
        BY <1>1
    <2> HIDE DEF V
    <2> QED  BY <1>3, <2>1
<1> HIDE DEF V, g
<1>5. PICK f : Loop(f, V, <<>>, g, n)
    BY <1>1, <1>2, <1>4, LoopExists
<1>6. \A i \in 1 .. n : f[i] = SortStep(s, f, i)
    <2> TAKE i \in 1 .. n
    <2>1. f[i - 1] \in V
        BY <1>1, <1>5 DEF Loop
    <2>2. f[i] = g[<<f[i - 1], i>>]
        BY <1>5 DEF Loop
    <2>3. <<f[i - 1], i>> \in V \X (1 .. n)
        BY <2>1
    <2> QED  BY <2>2, <2>3 DEF g, SortStep
<1>7. f = [i \in 0 .. n |-> SortStep(s, f, i)]
    <2>1. f[0] = SortStep(s, f, 0)
        BY <1>5 DEF Loop, SortStep
    <2>2. \A i \in 0 .. n : i = 0 \/ i \in 1 .. n
        BY <1>1
    <2>3. \A i \in 0 .. n : f[i] = SortStep(s, f, i)
        BY <1>6, <2>1, <2>2
    <2>4. f = [i \in 0 .. n |-> f[i]]
        BY <1>5 DEF Loop
    <2> QED  BY <2>3, <2>4, Zenon
<1> DEFINE F == CHOOSE h : h = [i \in 0 .. Len(s) |->
                    IF i = 0 THEN <<>> ELSE Inserted(h[i - 1], s[i])]
<1>8. F = [i \in 0 .. Len(s) |->
            IF i = 0 THEN <<>> ELSE Inserted(F[i - 1], s[i])]
    <2>1. \E h : h = [i \in 0 .. Len(s) |->
                    IF i = 0 THEN <<>> ELSE Inserted(h[i - 1], s[i])]
        BY <1>7 DEF SortStep
    <2> QED  BY <2>1, Zenon
<1>9. SortedByFin(s) = F[Len(s)]
    BY DEF SortedByFin
<1> HIDE DEF F
<1> DEFINE G == {i \in 0 .. n : F[i] \in V}
<1>10. \A i \in 0 .. n : i \in G
    <2>1. 0 \in G
        BY <1>1, <1>2, <1>8
    <2>2. \A i \in 1 .. n : i - 1 \in G => i \in G
        BY <1>1, <1>3, <1>8
    <2> HIDE DEF G
    <2> QED  BY <1>1, <2>1, <2>2, UpTo
<1> QED  BY <1>1, <1>9, <1>10 DEF V

\* What is in a sequence is finite.
LEMMA FinitelyMany ==
    ASSUME NEW T, NEW s \in Seq(T)
    PROVE  IsFiniteSet(ToSet(s))
<1>1. Len(s) \in Nat /\ s \in [1 .. Len(s) -> T] /\ DOMAIN s = 1 .. Len(s)
    BY LenProperties
<1>2. IsFiniteSet(1 .. Len(s))
    BY <1>1, FS_Interval
<1>3. s \in Surjection(1 .. Len(s), ToSet(s))
    BY <1>1 DEF Surjection, ToSet
<1> QED  BY <1>2, <1>3, FS_Surjection
-----------------------------------------------------------------------------
(* The books *)

\* The types of what a call works on.
BookTypes(link, dnns, res) ==
    /\ link \in Seq(Link)
    /\ dnns \in [Host -> Seq(Dnn)]
    /\ res \in [Dnn -> Result]

\* Each of the DNNs of all is on the device its result names, once.
DeviceBook(dnns, res, all) ==
    \A h \in Host : /\ Distinct(dnns[h])
                    /\ ToSet(dnns[h]) = {d \in all : res[d].host = h}

\* What the result of a booked or tried DNN says.
ResultBook(res, booked, tried) ==
    \A d \in booked \cup tried :
        /\ res[d].host \in Host /\ res[d].src \in Host
        /\ res[d].low => res[d].src = res[d].host
        /\ d \in booked /\ ~res[d].low => res[d].fin <= res[d].deadline

Moved(r) == ~r.low /\ r.src # r.host

\* The links each DNN has to have: its update once it is booked.
Due(res, booked, tried) ==
    [d \in Dnn |->
        {use \in Uses :
            /\ d \in booked \cup tried
            /\ use = "transfer" => Moved(res[d])
            /\ use = "update" => d \in booked}]

\* A link of the DNN and run whose result is r does not disturb the phases.
Timed(l, r) ==
    /\ l.use = "upload" => l.fin <= r.start
    /\ l.use = "transfer" => l.fin < r.start
    /\ l.use = "update" => r.fin < l.start

\* A link is due and in time; or it is a transfer of a run that was halted.
InTime(l, r, uses) ==
    /\ l.run <= r.run
    /\ l.run < r.run => l.use = "transfer"
    /\ l.run = r.run => l.use \in uses /\ Timed(l, r)

Has(link, d, use, run) ==
    \E l \in ToSet(link) : l.dnn = d /\ l.use = use /\ l.run = run

\* The ledger holds the links that are due, and no more of the current runs.
LinkBook(link, res, due) ==
    /\ DistinctNames(link)
    /\ \A l \in ToSet(link) : InTime(l, res[l.dnn], due[l.dnn])
    /\ \A l, m \in ToSet(link) :
        /\ l.dnn = m.dnn /\ l.run = res[l.dnn].run /\ m.run = l.run
        /\ l.use = "upload" /\ m.use = "transfer"
        => l.fin < m.start
    /\ \A d \in Dnn : \A use \in due[d] : Has(link, d, use, res[d].run)

Books(link, dnns, res, booked, tried) ==
    /\ BookTypes(link, dnns, res)
    /\ booked \subseteq Dnn /\ tried \subseteq Dnn
    /\ booked \cap tried = {}
    /\ DeviceBook(dnns, res, booked \cup tried)
    /\ ResultBook(res, booked, tried)
    /\ LinkBook(link, res, Due(res, booked, tried))

-----------------------------------------------------------------------------
(* What one change does to the books *)

\* What a link on the ledger is made of.
LEMMA InLedger ==
    ASSUME NEW link \in Seq(Link)
    PROVE  \A l \in ToSet(link) :
                /\ l \in Link /\ l.dnn \in Dnn /\ l.use \in Uses
                /\ l.run \in Nat /\ l.start \in Nat /\ l.fin \in Nat
<1>1. ToSet(link) \subseteq Link
    BY Elements
<1>2. \A l \in Link : /\ l.dnn \in Dnn /\ l.use \in Uses
                      /\ l.run \in Nat /\ l.start \in Nat /\ l.fin \in Nat
    BY DEF Link
<1> QED  BY <1>1, <1>2

\* A link that was not there is booked.
LEMMA LinkAdded ==
    ASSUME NEW link \in Seq(Link), NEW res \in [Dnn -> Result],
           NEW due, NEW due2, NEW l \in Link, LinkBook(link, res, due),
           l.run = res[l.dnn].run, l.use \notin due[l.dnn],
           Timed(l, res[l.dnn]),
           \A m \in ToSet(link) : m.dnn = l.dnn /\ m.run = l.run =>
                /\ l.use = "upload" /\ m.use = "transfer" => l.fin < m.start
                /\ l.use = "transfer" /\ m.use = "upload" => m.fin < l.start,
           \A d \in Dnn : due2[d] = IF d = l.dnn THEN due[d] \cup {l.use}
                                    ELSE due[d]
    PROVE  LinkBook(Append(link, l), res, due2)
<1> DEFINE new == Append(link, l)
<1>1. ToSet(new) = ToSet(link) \cup {l} /\ ToSet(link) \subseteq Link
    BY Appended, Elements
<1>2. /\ l.dnn \in Dnn /\ l.run \in Nat /\ l.use \in Uses
      /\ \A m \in ToSet(link) : m.dnn \in Dnn /\ m.run \in Nat
    BY <1>1 DEF Link
<1>3. \A m \in ToSet(link) : ~SameName(m, l)
    BY <1>2 DEF SameName, LinkBook, InTime
<1>4. DistinctNames(new)
    BY <1>3, AppendedNames DEF LinkBook
<1> HIDE DEF new
<1>5. \A m \in ToSet(new) : InTime(m, res[m.dnn], due2[m.dnn])
    <2> TAKE m \in ToSet(new)
    <2>1. CASE m \in ToSet(link)
        <3>1. InTime(m, res[m.dnn], due[m.dnn])
            BY <2>1 DEF LinkBook
        <3>2. due[m.dnn] \subseteq due2[m.dnn]
            BY <1>2, <2>1
        <3> QED  BY <3>1, <3>2 DEF InTime
    <2>2. CASE m = l
        <3>1. l.use \in due2[l.dnn]
            BY <1>2
        <3> QED  BY <1>2, <2>2, <3>1 DEF InTime
    <2> QED  BY <1>1, <2>1, <2>2
<1>6. \A k, m \in ToSet(new) :
        /\ k.dnn = m.dnn /\ k.run = res[k.dnn].run /\ m.run = k.run
        /\ k.use = "upload" /\ m.use = "transfer"
        => k.fin < m.start
    BY <1>1 DEF LinkBook
<1>7. \A d \in Dnn : \A use \in due2[d] : Has(new, d, use, res[d].run)
    <2> SUFFICES ASSUME NEW d \in Dnn, NEW use \in due2[d]
                 PROVE  Has(new, d, use, res[d].run)
        OBVIOUS
    <2>1. CASE use \in due[d]
        <3>1. Has(link, d, use, res[d].run)
            BY <2>1 DEF LinkBook
        <3> QED  BY <1>1, <3>1 DEF Has
    <2>2. CASE use \notin due[d]
        <3>1. d = l.dnn /\ use = l.use
            BY <2>2
        <3> QED  BY <1>1, <3>1 DEF Has
    <2> QED  BY <2>1, <2>2
<1> QED  BY <1>4, <1>5, <1>6, <1>7 DEF LinkBook, new

\* Some of the links of the current run of a DNN leave the ledger.
LEMMA LinksPruned ==
    ASSUME NEW link \in Seq(Link), NEW res \in [Dnn -> Result],
           NEW due, NEW due2, NEW d \in Dnn, NEW uses,
           LinkBook(link, res, due),
           \A e \in Dnn : due2[e] = IF e = d THEN due[e] \ uses ELSE due[e]
    PROVE  /\ Prune(link, d, res[d].run, uses) \in Seq(Link)
           /\ LinkBook(Prune(link, d, res[d].run, uses), res, due2)
<1> DEFINE S == {l \in ToSet(link) :
                    ~(l.dnn = d /\ l.run = res[d].run /\ l.use \in uses)}
           new == Keep(link, S)
<1>1. new \in Seq(Link) /\ ToSet(new) = S
    BY Kept
<1>2. DistinctNames(new)
    BY KeptNames DEF LinkBook
<1>3. new = Prune(link, d, res[d].run, uses)
    BY DEF Prune
<1>4. \A m \in ToSet(link) : m.dnn \in Dnn
    BY InLedger
<1> HIDE DEF new
<1>5. \A m \in ToSet(new) : InTime(m, res[m.dnn], due2[m.dnn])
    BY <1>1, <1>4 DEF LinkBook, InTime
<1>6. \A k, m \in ToSet(new) :
        /\ k.dnn = m.dnn /\ k.run = res[k.dnn].run /\ m.run = k.run
        /\ k.use = "upload" /\ m.use = "transfer"
        => k.fin < m.start
    BY <1>1 DEF LinkBook
<1>7. \A e \in Dnn : \A use \in due2[e] : Has(new, e, use, res[e].run)
    <2> SUFFICES ASSUME NEW e \in Dnn, NEW use \in due2[e]
                 PROVE  Has(new, e, use, res[e].run)
        OBVIOUS
    <2>1. use \in due[e] /\ (e = d => use \notin uses)
        OBVIOUS
    <2>2. PICK l \in ToSet(link) :
                l.dnn = e /\ l.use = use /\ l.run = res[e].run
        BY <2>1 DEF LinkBook, Has
    <2>3. l \in S
        BY <2>1, <2>2
    <2> QED  BY <1>1, <2>2, <2>3 DEF Has
<1>8. LinkBook(new, res, due2)
    BY <1>2, <1>5, <1>6, <1>7 DEF LinkBook
<1> QED  BY <1>1, <1>3, <1>8

\* A DNN without links gets a new result; one that only has its transfer
\* may leave it behind by a new run.
LEMMA ResultSet ==
    ASSUME NEW link \in Seq(Link), NEW res \in [Dnn -> Result],
           NEW due, NEW due2, NEW d \in Dnn, NEW r \in Result,
           LinkBook(link, res, due),
           \/ due[d] = {} /\ r.run = res[d].run
           \/ due[d] \subseteq {"transfer"} /\ r.run = res[d].run + 1,
           \A e \in Dnn : due2[e] = IF e = d THEN {} ELSE due[e]
    PROVE  LinkBook(link, [res EXCEPT ![d] = r], due2)
<1> DEFINE new == [res EXCEPT ![d] = r]
<1>1. /\ new[d] = r /\ \A e \in Dnn \ {d} : new[e] = res[e]
      /\ res[d].run \in Nat
    BY DEF Result
<1>2. \A m \in ToSet(link) : m.dnn \in Dnn /\ m.run \in Nat
    BY InLedger
<1> HIDE DEF new
<1>3. \A m \in ToSet(link) : InTime(m, new[m.dnn], due2[m.dnn])
    <2> TAKE m \in ToSet(link)
    <2>1. m.dnn \in Dnn /\ m.run \in Nat /\ InTime(m, res[m.dnn], due[m.dnn])
        BY <1>2 DEF LinkBook
    <2>2. CASE m.dnn = d
        BY <1>1, <2>1, <2>2 DEF InTime
    <2>3. CASE m.dnn # d
        BY <1>1, <2>1, <2>3
    <2> QED  BY <2>2, <2>3
<1>4. \A m \in ToSet(link) : m.dnn = d => m.run # new[d].run
    BY <1>1, <1>2, <1>3 DEF InTime
<1>5. \A k, m \in ToSet(link) :
        /\ k.dnn = m.dnn /\ k.run = new[k.dnn].run /\ m.run = k.run
        /\ k.use = "upload" /\ m.use = "transfer"
        => k.fin < m.start
    BY <1>1, <1>2, <1>4 DEF LinkBook
<1>6. \A e \in Dnn : \A use \in due2[e] : Has(link, e, use, new[e].run)
    BY <1>1 DEF LinkBook
<1> QED  BY <1>3, <1>5, <1>6 DEF LinkBook, new

\* A DNN without an update is sped up.
LEMMA ResultChanged ==
    ASSUME NEW link \in Seq(Link), NEW res \in [Dnn -> Result],
           NEW due, NEW d \in Dnn, NEW r \in Result,
           LinkBook(link, res, due), "update" \notin due[d],
           r.run = res[d].run, r.start = res[d].start
    PROVE  LinkBook(link, [res EXCEPT ![d] = r], due)
<1> DEFINE new == [res EXCEPT ![d] = r]
<1>1. new[d] = r /\ \A e \in Dnn \ {d} : new[e] = res[e]
    OBVIOUS
<1>2. \A m \in ToSet(link) : m.dnn \in Dnn
    BY InLedger
<1> HIDE DEF new
<1>3. \A m \in ToSet(link) : InTime(m, new[m.dnn], due[m.dnn])
    <2> TAKE m \in ToSet(link)
    <2>1. m.dnn \in Dnn /\ InTime(m, res[m.dnn], due[m.dnn])
        BY <1>2 DEF LinkBook
    <2>2. CASE m.dnn = d
        BY <1>1, <2>1, <2>2 DEF InTime, Timed
    <2>3. CASE m.dnn # d
        BY <1>1, <2>1, <2>3
    <2> QED  BY <2>2, <2>3
<1>4. \A e \in Dnn : new[e].run = res[e].run
    BY <1>1
<1> QED  BY <1>2, <1>3, <1>4 DEF LinkBook, new
\* A DNN joins the end of the list of its device.
LEMMA DeviceJoined ==
    ASSUME NEW dnns \in [Host -> Seq(Dnn)], NEW res, NEW all,
           NEW d \in Dnn, d \notin all, NEW h \in Host, res[d].host = h,
           DeviceBook(dnns, res, all)
    PROVE  LET new == [dnns EXCEPT ![h] = Append(@, d)]
           IN  new \in [Host -> Seq(Dnn)] /\ DeviceBook(new, res, all \cup {d})
<1> DEFINE new == [dnns EXCEPT ![h] = Append(@, d)]
<1>1. dnns[h] \in Seq(Dnn) /\ d \notin ToSet(dnns[h])
    BY DEF DeviceBook
<1>2. /\ Append(dnns[h], d) \in Seq(Dnn)
      /\ ToSet(Append(dnns[h], d)) = ToSet(dnns[h]) \cup {d}
      /\ Distinct(Append(dnns[h], d))
    BY <1>1, Appended, AppendedDistinct DEF DeviceBook
<1>3. /\ new \in [Host -> Seq(Dnn)] /\ new[h] = Append(dnns[h], d)
      /\ \A g \in Host \ {h} : new[g] = dnns[g]
    BY <1>2
<1> HIDE DEF new
<1>4. ASSUME NEW g \in Host
      PROVE  /\ Distinct(new[g])
             /\ ToSet(new[g]) = {e \in all \cup {d} : res[e].host = g}
    <2>1. CASE g = h
        BY <1>2, <1>3, <2>1 DEF DeviceBook
    <2>2. CASE g # h
        BY <1>3, <2>2 DEF DeviceBook
    <2> QED  BY <2>1, <2>2
<1> QED  BY <1>3, <1>4 DEF DeviceBook, new

\* A DNN leaves the list of its device.
LEMMA DeviceLeft ==
    ASSUME NEW dnns \in [Host -> Seq(Dnn)], NEW res, NEW all,
           NEW d \in Dnn, all \subseteq Dnn, NEW h \in Host, res[d].host = h,
           DeviceBook(dnns, res, all)
    PROVE  LET new == [dnns EXCEPT ![h] = Without(@, d)]
           IN  new \in [Host -> Seq(Dnn)] /\ DeviceBook(new, res, all \ {d})
<1> DEFINE new == [dnns EXCEPT ![h] = Without(@, d)]
<1>1. dnns[h] \in Seq(Dnn) /\ Distinct(dnns[h])
    BY DEF DeviceBook
<1>2. /\ Without(dnns[h], d) \in Seq(Dnn)
      /\ ToSet(Without(dnns[h], d)) = ToSet(dnns[h]) \cap (Dnn \ {d})
      /\ Distinct(Without(dnns[h], d))
    BY <1>1, Kept, KeptDistinct DEF Without
<1>3. /\ new \in [Host -> Seq(Dnn)] /\ new[h] = Without(dnns[h], d)
      /\ \A g \in Host \ {h} : new[g] = dnns[g]
    BY <1>2
<1> HIDE DEF new
<1>4. ASSUME NEW g \in Host
      PROVE  /\ Distinct(new[g])
             /\ ToSet(new[g]) = {e \in all \ {d} : res[e].host = g}
    <2>1. CASE g = h
        BY <1>2, <1>3, <2>1 DEF DeviceBook
    <2>2. CASE g # h
        BY <1>3, <2>2 DEF DeviceBook
    <2> QED  BY <2>1, <2>2
<1> QED  BY <1>3, <1>4 DEF DeviceBook, new

-----------------------------------------------------------------------------
(* What the calls do to the books *)

\* A DNN gets a place: a device and the links to get there.
LEMMA BooksPlaced ==
    ASSUME NEW link, NEW dnns, NEW res, NEW booked, NEW tried,
           Books(link, dnns, res, booked, tried),
           NEW d \in Dnn \ (booked \cup tried), NEW r \in Result,
           r.run = res[d].run, r.host \in Host, r.src \in Host,
           r.low => r.src = r.host,
           NEW up \in Link, up.dnn = d, up.run = r.run, up.use = "upload",
           up.fin <= r.start,
           NEW tr, Moved(r) =>
                /\ tr \in Link /\ tr.dnn = d /\ tr.run = r.run
                /\ tr.use = "transfer" /\ tr.fin < r.start
                /\ up.fin < tr.start
    PROVE  Books(IF Moved(r) THEN Append(Append(link, tr), up)
                 ELSE Append(link, up),
                 [dnns EXCEPT ![r.host] = Append(@, d)],
                 [res EXCEPT ![d] = r], booked, tried \cup {d})
<1> DEFINE res2 == [res EXCEPT ![d] = r]
           dnns2 == [dnns EXCEPT ![r.host] = Append(@, d)]
           due == Due(res, booked, tried)
           due2 == Due(res2, booked, tried \cup {d})
           due1 == [e \in Dnn |->
                        IF e = d /\ Moved(r) THEN {"transfer"} ELSE due[e]]
<1>1. /\ link \in Seq(Link) /\ dnns \in [Host -> Seq(Dnn)]
      /\ res \in [Dnn -> Result]
    BY DEF Books, BookTypes
<1>2. /\ res2 \in [Dnn -> Result] /\ res2[d] = r
      /\ \A e \in Dnn \ {d} : res2[e] = res[e]
    BY <1>1
<1>3. due[d] = {}
    BY DEF Due
<1>4. LinkBook(link, res2, due)
    <2> HIDE DEF due
    <2> QED  BY <1>1, <1>3, ResultSet DEF Books, due
<1>5. \A e \in Dnn : due2[e] = IF e = d
            THEN {"upload"} \cup (IF Moved(r) THEN {"transfer"} ELSE {})
            ELSE due[e]
    <2> HIDE DEF res2
    <2> QED  BY <1>2 DEF Due, Uses
<1> HIDE DEF due, due2
<1>6. \A m \in ToSet(link) : ~(m.dnn = d /\ m.run = r.run)
    BY <1>2, <1>3, <1>4 DEF LinkBook, InTime
<1>7. LinkBook(IF Moved(r) THEN Append(Append(link, tr), up)
               ELSE Append(link, up), res2, due2)
    <2> HIDE DEF res2
    <2>1. CASE ~Moved(r)
        <3>1. \A e \in Dnn : due2[e] = IF e = up.dnn THEN due[e] \cup {up.use}
                                       ELSE due[e]
            BY <1>3, <1>5, <2>1
        <3>2. Timed(up, r)
            BY DEF Timed
        <3>3. LinkBook(Append(link, up), res2, due2)
            <4>1. /\ up.run = res2[up.dnn].run /\ up.use \notin due[up.dnn]
                  /\ Timed(up, res2[up.dnn])
                BY <1>2, <1>3, <3>2
            <4>2. \A m \in ToSet(link) : m.dnn = up.dnn /\ m.run = up.run =>
                /\ up.use = "upload" /\ m.use = "transfer" => up.fin < m.start
                /\ up.use = "transfer" /\ m.use = "upload" => m.fin < up.start
                BY <1>6
            <4> QED  BY <1>1, <1>2, <1>4, <3>1, <4>1, <4>2, LinkAdded
        <3> QED  BY <2>1, <3>3
    <2>2. CASE Moved(r)
        <3>1. \A e \in Dnn : due1[e] = IF e = tr.dnn THEN due[e] \cup {tr.use}
                                       ELSE due[e]
            BY <1>3, <2>2
        <3>2. \A e \in Dnn : due2[e] = IF e = up.dnn THEN due1[e] \cup {up.use}
                                       ELSE due1[e]
            BY <1>3, <1>5, <2>2
        <3>3. Timed(up, r) /\ Timed(tr, r)
            BY <2>2 DEF Timed
        <3>4. "upload" \notin due1[d]
            BY <2>2
        <3> HIDE DEF due1
        <3>5. LinkBook(Append(link, tr), res2, due1)
            <4>1. /\ tr.run = res2[tr.dnn].run /\ tr.use \notin due[tr.dnn]
                  /\ Timed(tr, res2[tr.dnn]) /\ tr \in Link
                BY <1>2, <1>3, <2>2, <3>3
            <4>2. \A m \in ToSet(link) : m.dnn = tr.dnn /\ m.run = tr.run =>
                /\ tr.use = "upload" /\ m.use = "transfer" => tr.fin < m.start
                /\ tr.use = "transfer" /\ m.use = "upload" => m.fin < tr.start
                BY <1>6, <2>2
            <4> QED  BY <1>1, <1>2, <1>4, <3>1, <4>1, <4>2, LinkAdded
        <3>6. /\ Append(link, tr) \in Seq(Link)
              /\ ToSet(Append(link, tr)) = ToSet(link) \cup {tr}
            BY <1>1, <2>2, Appended
        <3>7. \A m \in ToSet(Append(link, tr)) :
                    m.dnn = d /\ m.run = r.run => m = tr
            BY <1>6, <3>6
        <3>8. \A m \in ToSet(Append(link, tr)) :
                m.dnn = up.dnn /\ m.run = up.run =>
                /\ up.use = "upload" /\ m.use = "transfer" => up.fin < m.start
                /\ up.use = "transfer" /\ m.use = "upload" => m.fin < up.start
            BY <2>2, <3>7
        <3>9. LinkBook(Append(Append(link, tr), up), res2, due2)
            <4>1. /\ up.run = res2[up.dnn].run /\ up.use \notin due1[up.dnn]
                  /\ Timed(up, res2[up.dnn])
                BY <1>2, <3>3, <3>4
            <4> QED  BY <1>2, <3>2, <3>5, <3>6, <3>8, <4>1, LinkAdded
        <3> QED  BY <2>2, <3>9
    <2> QED  BY <2>1, <2>2
<1>8. (IF Moved(r) THEN Append(Append(link, tr), up) ELSE Append(link, up))
        \in Seq(Link)
    BY <1>1, Appended
<1>9. dnns2 \in [Host -> Seq(Dnn)]
      /\ DeviceBook(dnns2, res2, booked \cup (tried \cup {d}))
    <2>1. DeviceBook(dnns, res2, booked \cup tried)
        <3> HIDE DEF res2
        <3> QED  BY <1>2 DEF Books, DeviceBook
    <2>2. booked \cup (tried \cup {d}) = (booked \cup tried) \cup {d}
        OBVIOUS
    <2>3. res2[d].host = r.host /\ d \notin booked \cup tried
        BY <1>2
    <2> HIDE DEF res2
    <2> DEFINE all == booked \cup tried
    <2>4. DeviceBook(dnns, res2, all) /\ d \notin all
        BY <2>1, <2>3
    <2> HIDE DEF all
    <2>5. dnns2 \in [Host -> Seq(Dnn)] /\ DeviceBook(dnns2, res2, all \cup {d})
        BY <1>1, <2>3, <2>4, DeviceJoined
    <2> QED  BY <2>2, <2>5 DEF all
<1>10. ResultBook(res2, booked, tried \cup {d})
    <2> HIDE DEF res2
    <2> QED  BY <1>2 DEF Books, ResultBook
<1> HIDE DEF res2, dnns2
<1>11. Books(IF Moved(r) THEN Append(Append(link, tr), up) ELSE Append(link, up),
             dnns2, res2, booked, tried \cup {d})
    BY <1>2, <1>7, <1>8, <1>9, <1>10 DEF Books, BookTypes, due2
<1> QED  BY <1>11 DEF res2, dnns2

\* A tried DNN gets the other configuration where it is.
LEMMA BooksSped ==
    ASSUME NEW link, NEW dnns, NEW res, NEW booked, NEW tried,
           Books(link, dnns, res, booked, tried),
           NEW d \in tried, NEW r \in Result,
           r.run = res[d].run, r.start = res[d].start, r.src = res[d].src,
           r.host = res[d].host, r.low = res[d].low
    PROVE  Books(link, dnns, [res EXCEPT ![d] = r], booked, tried)
<1> DEFINE res2 == [res EXCEPT ![d] = r]
           due == Due(res, booked, tried)
           due2 == Due(res2, booked, tried)
<1>1. /\ link \in Seq(Link) /\ res \in [Dnn -> Result]
      /\ d \in Dnn /\ d \notin booked
    BY DEF Books, BookTypes
<1>2. /\ res2 \in [Dnn -> Result] /\ res2[d] = r
      /\ \A e \in Dnn \ {d} : res2[e] = res[e]
    BY <1>1
<1> HIDE DEF res2
<1>3. \A e \in Dnn : Moved(res2[e]) = Moved(res[e])
    BY <1>2 DEF Moved
<1>4. due2 = due
    BY <1>3 DEF Due, Uses
<1>5. "update" \notin due[d]
    BY <1>1 DEF Due
<1> HIDE DEF due, due2
<1>6. LinkBook(link, res2, due2)
    BY <1>1, <1>4, <1>5, ResultChanged DEF Books, due, res2
<1>7. DeviceBook(dnns, res2, booked \cup tried)
    <2>1. \A e \in booked \cup tried : res2[e].host = res[e].host
        BY <1>2 DEF Books
    <2> QED  BY <2>1 DEF Books, DeviceBook
<1>8. ResultBook(res2, booked, tried)
    <2>1. \A e \in booked \cup tried : e = d \/ e \in Dnn \ {d}
        BY DEF Books
    <2> QED  BY <1>1, <1>2, <2>1 DEF Books, ResultBook
<1>9. Books(link, dnns, res2, booked, tried)
    BY <1>2, <1>6, <1>7, <1>8 DEF Books, BookTypes, due2
<1> QED  BY <1>9 DEF res2

\* A tried DNN is booked, and with it its update.
LEMMA BooksConfirmed ==
    ASSUME NEW link, NEW dnns, NEW res, NEW booked, NEW tried,
           Books(link, dnns, res, booked, tried), NEW d \in tried,
           NEW l \in Link, l.dnn = d, l.run = res[d].run, l.use = "update",
           res[d].fin < l.start,
           ~res[d].low => res[d].fin <= res[d].deadline
    PROVE  Books(Append(link, l), dnns, res, booked \cup {d}, tried \ {d})
<1> DEFINE due == Due(res, booked, tried)
           due2 == Due(res, booked \cup {d}, tried \ {d})
<1>1. /\ link \in Seq(Link) /\ res \in [Dnn -> Result]
      /\ d \in Dnn /\ d \notin booked
    BY DEF Books, BookTypes
<1>2. Append(link, l) \in Seq(Link)
    BY <1>1, Appended
<1>3. \A e \in Dnn : due2[e] = IF e = l.dnn THEN due[e] \cup {l.use} ELSE due[e]
    BY <1>1 DEF Due, Uses
<1>4. l.use \notin due[l.dnn]
    BY <1>1 DEF Due
<1> HIDE DEF due, due2
<1>5. Timed(l, res[l.dnn])
    BY DEF Timed
<1>6. LinkBook(Append(link, l), res, due2)
    <2>1. LinkBook(link, res, due)
        BY DEF Books, due
    <2>2. \A m \in ToSet(link) : m.dnn = l.dnn /\ m.run = l.run =>
                /\ l.use = "upload" /\ m.use = "transfer" => l.fin < m.start
                /\ l.use = "transfer" /\ m.use = "upload" => m.fin < l.start
        OBVIOUS
    <2> QED  BY <1>1, <1>3, <1>4, <1>5, <2>1, <2>2, LinkAdded
<1>7. DeviceBook(dnns, res, (booked \cup {d}) \cup (tried \ {d}))
    <2>1. (booked \cup {d}) \cup (tried \ {d}) = booked \cup tried
        OBVIOUS
    <2> QED  BY <2>1 DEF Books
<1>8. ResultBook(res, booked \cup {d}, tried \ {d})
    BY DEF Books, ResultBook
<1> QED  BY <1>1, <1>2, <1>6, <1>7, <1>8 DEF Books, BookTypes, due2

\* A DNN loses its place and all its links.
LEMMA BooksDropped ==
    ASSUME NEW link, NEW dnns, NEW res, NEW booked, NEW tried,
           Books(link, dnns, res, booked, tried), NEW d \in booked \cup tried,
           NEW uses, Due(res, booked, tried)[d] \subseteq uses
    PROVE  Books(Prune(link, d, res[d].run, uses),
                 [dnns EXCEPT ![res[d].host] = Without(@, d)],
                 res, booked \ {d}, tried \ {d})
<1> DEFINE dnns2 == [dnns EXCEPT ![res[d].host] = Without(@, d)]
           due == Due(res, booked, tried)
           due2 == Due(res, booked \ {d}, tried \ {d})
<1>1. /\ link \in Seq(Link) /\ res \in [Dnn -> Result] /\ d \in Dnn
      /\ dnns \in [Host -> Seq(Dnn)] /\ res[d].host \in Host
    BY DEF Books, BookTypes, ResultBook
<1>2. due[d] \subseteq uses
    OBVIOUS
<1>3. \A e \in Dnn : due2[e] = IF e = d THEN {} ELSE due[e]
    BY <1>1 DEF Due, Uses
<1> HIDE DEF due, due2
<1>4. \A e \in Dnn : due2[e] = IF e = d THEN due[e] \ uses ELSE due[e]
    BY <1>2, <1>3
<1>5. /\ Prune(link, d, res[d].run, uses) \in Seq(Link)
      /\ LinkBook(Prune(link, d, res[d].run, uses), res, due2)
    <2>1. LinkBook(link, res, due)
        BY DEF Books, due
    <2> QED  BY <1>1, <1>4, <2>1, LinksPruned
<1>6. /\ dnns2 \in [Host -> Seq(Dnn)]
      /\ DeviceBook(dnns2, res, (booked \ {d}) \cup (tried \ {d}))
    <2> DEFINE all == booked \cup tried
    <2>1. (booked \ {d}) \cup (tried \ {d}) = all \ {d}
        OBVIOUS
    <2>2. DeviceBook(dnns, res, all) /\ all \subseteq Dnn
        BY DEF Books
    <2> HIDE DEF all
    <2>3. dnns2 \in [Host -> Seq(Dnn)] /\ DeviceBook(dnns2, res, all \ {d})
        BY <1>1, <2>2, DeviceLeft
    <2> QED  BY <2>1, <2>3
<1>7. ResultBook(res, booked \ {d}, tried \ {d})
    BY DEF Books, ResultBook
<1> HIDE DEF dnns2
<1>8. Books(Prune(link, d, res[d].run, uses), dnns2, res,
            booked \ {d}, tried \ {d})
    BY <1>1, <1>5, <1>6, <1>7 DEF Books, BookTypes, due2
<1> QED  BY <1>8 DEF dnns2

\* A booked DNN loses its place, and a new run of it leaves the transfer
\* behind.
LEMMA BooksHalted ==
    ASSUME NEW link, NEW dnns, NEW res, NEW booked,
           Books(link, dnns, res, booked, {}), NEW d \in booked,
           NEW r \in Result, r.run = res[d].run + 1
    PROVE  Books(Prune(link, d, res[d].run, {"upload", "update"}),
                 [dnns EXCEPT ![res[d].host] = Without(@, d)],
                 [res EXCEPT ![d] = r], booked \ {d}, {})
<1> DEFINE dnns2 == [dnns EXCEPT ![res[d].host] = Without(@, d)]
           res2 == [res EXCEPT ![d] = r]
           uses == {"upload", "update"}
           link2 == Prune(link, d, res[d].run, uses)
           due == Due(res, booked, {})
           due1 == [e \in Dnn |-> IF e = d THEN due[e] \ uses ELSE due[e]]
           due2 == Due(res2, booked \ {d}, {})
<1>1. /\ link \in Seq(Link) /\ res \in [Dnn -> Result] /\ d \in Dnn
      /\ dnns \in [Host -> Seq(Dnn)] /\ res[d].host \in Host
    BY DEF Books, BookTypes, ResultBook
<1>2. /\ res2 \in [Dnn -> Result] /\ res2[d] = r
      /\ \A e \in Dnn \ {d} : res2[e] = res[e]
    BY <1>1
<1>3. \A e \in Dnn : due2[e] = IF e = d THEN {} ELSE due1[e]
    <2> HIDE DEF res2
    <2> QED  BY <1>1, <1>2 DEF Due, Uses
<1>4. due1[d] \subseteq {"transfer"}
    BY <1>1 DEF Due, Uses
<1>5. \A e \in Dnn : due1[e] = IF e = d THEN due[e] \ uses ELSE due[e]
    OBVIOUS
<1> HIDE DEF due, due1, due2
<1>6. link2 \in Seq(Link) /\ LinkBook(link2, res, due1)
    <2>1. LinkBook(link, res, due)
        BY DEF Books, due
    <2> HIDE DEF uses
    <2> QED  BY <1>1, <1>5, <2>1, LinksPruned
<1> HIDE DEF link2
<1>7. LinkBook(link2, res2, due2)
    BY <1>1, <1>3, <1>4, <1>6, ResultSet
<1>8. /\ dnns2 \in [Host -> Seq(Dnn)]
      /\ DeviceBook(dnns2, res, booked \ {d})
    <2>1. DeviceBook(dnns, res, booked) /\ booked \subseteq Dnn
        <3>1. booked \cup {} = booked
            OBVIOUS
        <3> QED  BY <3>1 DEF Books
    <2> QED  BY <1>1, <2>1, DeviceLeft
<1> HIDE DEF res2, dnns2
<1>9. DeviceBook(dnns2, res2, booked \ {d})
    <2>1. \A e \in booked \ {d} : res2[e].host = res[e].host
        BY <1>2 DEF Books
    <2> QED  BY <1>8, <2>1 DEF DeviceBook
<1>10. ResultBook(res2, booked \ {d}, {})
    BY <1>2 DEF Books, ResultBook
<1>11. Books(link2, dnns2, res2, booked \ {d}, {})
    <2>1. (booked \ {d}) \cup {} = booked \ {d} /\ booked \subseteq Dnn
        BY DEF Books
    <2> QED  BY <1>2, <1>6, <1>7, <1>8, <1>9, <1>10, <2>1
             DEF Books, BookTypes, due2
<1> QED  BY <1>11 DEF res2, dnns2, link2

-----------------------------------------------------------------------------
(* The cores *)

\* What one DNN adds to the sum.
Share(res, start, fin, ignored, d) ==
    IF d \in ignored THEN 0 ELSE Held(res[d], start, fin)

SumStep(s, res, start, fin, ignored, f, i) ==
    IF i = 0 THEN 0
    ELSE f[i - 1] + IF s[i] \in ignored THEN 0 ELSE Held(res[s[i]], start, fin)

\* The sum f[i] over the first i DNNs of s, up to the whole.
Sums(f, s, res, start, fin, ignored) ==
    /\ f \in [0 .. Len(s) -> Nat]
    /\ f[0] = 0
    /\ \A i \in 1 .. Len(s) :
        f[i] = f[i - 1] + Share(res, start, fin, ignored, s[i])
    /\ CoreUsage(s, res, start, fin, ignored) = f[Len(s)]

\* What a DNN holds is a number of cores, none but in its window.
LEMMA ShareIs ==
    ASSUME NEW res \in [Dnn -> Result], NEW start, NEW fin, NEW ignored,
           NEW d \in Dnn
    PROVE  /\ Share(res, start, fin, ignored, d) \in Nat
           /\ Share(res, start, fin, ignored, d) =
                IF d \in ignored THEN 0 ELSE Held(res[d], start, fin)
<1>1. res[d].cores \in Nat
    BY DEF Result
<1> QED  BY <1>1 DEF Share, Held

\* CoreUsage is what the loop over the DNNs has added up at its end.
LEMMA SumLoop ==
    ASSUME NEW s \in Seq(Dnn), NEW res \in [Dnn -> Result],
           NEW start, NEW fin, NEW ignored
    PROVE  \E f : Sums(f, s, res, start, fin, ignored)
<1> DEFINE n == Len(s)
           P(d) == Share(res, start, fin, ignored, d)
           g == [p \in Nat \X (1 .. n) |-> p[1] + P(s[p[2]])]
<1>1. n \in Nat /\ \A i \in 1 .. n : s[i] \in Dnn
    BY Elements
<1>2. \A i \in 1 .. n : P(s[i]) \in Nat
    BY <1>1, ShareIs
<1> HIDE DEF n, P
<1>3. g \in [Nat \X (1 .. n) -> Nat]
    BY <1>2
<1> HIDE DEF g
<1>4. PICK f : Loop(f, Nat, 0, g, n)
    BY <1>1, <1>3, LoopExists
<1>5. f \in [0 .. n -> Nat] /\ f[0] = 0
    BY <1>4 DEF Loop
<1>6. \A i \in 1 .. n : f[i] = f[i - 1] + P(s[i])
    <2> TAKE i \in 1 .. n
    <2>1. f[i - 1] \in Nat
        BY <1>1, <1>5
    <2>2. f[i] = g[<<f[i - 1], i>>]
        BY <1>4 DEF Loop
    <2>3. <<f[i - 1], i>> \in Nat \X (1 .. n)
        BY <2>1
    <2> QED  BY <2>2, <2>3 DEF g
<1>7. f = [i \in 0 .. n |-> SumStep(s, res, start, fin, ignored, f, i)]
    <2>1. \A i \in 0 .. n : f[i] = SumStep(s, res, start, fin, ignored, f, i)
        <3> TAKE i \in 0 .. n
        <3>1. CASE i = 0
            BY <1>5, <3>1 DEF SumStep
        <3>2. CASE i # 0
            <4>1. i \in 1 .. n
                BY <1>1, <3>2
            <4> QED  BY <1>6, <3>2, <4>1 DEF SumStep, P, Share
        <3> QED  BY <3>1, <3>2
    <2>2. f = [i \in 0 .. n |-> f[i]]
        BY <1>5
    <2> QED  BY <2>1, <2>2, Zenon
<1> DEFINE F == CHOOSE h : h = [i \in 0 .. Len(s) |->
                    IF i = 0 THEN 0
                    ELSE h[i - 1] + IF s[i] \in ignored THEN 0
                                    ELSE Held(res[s[i]], start, fin)]
<1>8. F = [i \in 0 .. Len(s) |->
            IF i = 0 THEN 0
            ELSE F[i - 1] + IF s[i] \in ignored THEN 0
                            ELSE Held(res[s[i]], start, fin)]
    <2>1. \E h : h = [i \in 0 .. Len(s) |->
                    IF i = 0 THEN 0
                    ELSE h[i - 1] + IF s[i] \in ignored THEN 0
                                    ELSE Held(res[s[i]], start, fin)]
        BY <1>7 DEF SumStep, n
    <2> QED  BY <2>1, Zenon
<1>9. CoreUsage(s, res, start, fin, ignored) = F[Len(s)]
    BY DEF CoreUsage
<1> HIDE DEF F
<1>10. F[0] = 0 /\ \A i \in 1 .. n : F[i] = F[i - 1] + P(s[i])
    <2>1. F[0] = 0
        BY <1>1, <1>8 DEF n
    <2>2. ASSUME NEW i \in 1 .. n  PROVE F[i] = F[i - 1] + P(s[i])
        <3>1. i \in 0 .. Len(s) /\ i # 0
            BY <1>1 DEF n
        <3>2. F[i] = F[i - 1] + IF s[i] \in ignored THEN 0
                                ELSE Held(res[s[i]], start, fin)
            BY <1>8, <3>1
        <3> QED  BY <3>2 DEF P, Share
    <2> QED  BY <2>1, <2>2
<1> DEFINE G == {i \in 0 .. n : F[i] = f[i]}
<1>11. \A i \in 0 .. n : i \in G
    <2>1. 0 \in G
        BY <1>1, <1>5, <1>10
    <2>2. \A i \in 1 .. n : i - 1 \in G => i \in G
        BY <1>1, <1>6, <1>10
    <2> HIDE DEF G
    <2> QED  BY <1>1, <2>1, <2>2, UpTo
<1>12. F[n] = f[n]
    BY <1>1, <1>11
<1> QED  BY <1>5, <1>6, <1>9, <1>12 DEF Sums, n, P

\* A sum of cores is a number.
LEMMA UsageIsNat ==
    ASSUME NEW s \in Seq(Dnn), NEW res \in [Dnn -> Result],
           NEW start, NEW fin, NEW ignored
    PROVE  CoreUsage(s, res, start, fin, ignored) \in Nat
<1>1. Len(s) \in Nat
    BY Elements
<1> QED  BY <1>1, SumLoop DEF Sums

\* A DNN at the end of the list adds its share.
LEMMA UsageAdded ==
    ASSUME NEW s \in Seq(Dnn), NEW res \in [Dnn -> Result],
           NEW start, NEW fin, NEW ignored, NEW d \in Dnn
    PROVE  CoreUsage(Append(s, d), res, start, fin, ignored) =
            CoreUsage(s, res, start, fin, ignored)
                + Share(res, start, fin, ignored, d)
<1> DEFINE t == Append(s, d)
           n == Len(s)
           P(e) == Share(res, start, fin, ignored, e)
<1>1. /\ t \in Seq(Dnn) /\ Len(t) = n + 1 /\ n \in Nat
      /\ \A i \in 1 .. n : t[i] = s[i]
      /\ t[n + 1] = d
    BY Appended, Elements
<1>2. PICK f : Sums(f, s, res, start, fin, ignored)
    BY SumLoop
<1>3. /\ f \in [0 .. n -> Nat]
      /\ f[0] = 0
      /\ \A i \in 1 .. n : f[i] = f[i - 1] + P(s[i])
      /\ CoreUsage(s, res, start, fin, ignored) = f[n]
    BY <1>2 DEF Sums
<1> HIDE DEF t
<1>4. PICK g : Sums(g, t, res, start, fin, ignored)
    BY <1>1, SumLoop
<1>5. /\ g \in [0 .. Len(t) -> Nat]
      /\ g[0] = 0
      /\ \A i \in 1 .. Len(t) : g[i] = g[i - 1] + P(t[i])
      /\ CoreUsage(t, res, start, fin, ignored) = g[Len(t)]
    BY <1>4 DEF Sums
<1> HIDE DEF P, n
<1> DEFINE G == {i \in 0 .. n : g[i] = f[i]}
<1>6. \A i \in 0 .. n : i \in G
    <2>1. 0 \in G
        BY <1>1, <1>3, <1>5
    <2>2. ASSUME NEW i \in 1 .. n, i - 1 \in G  PROVE i \in G
        <3>1. i \in 1 .. Len(t) /\ i \in 0 .. n /\ t[i] = s[i]
            BY <1>1
        <3> QED  BY <1>3, <1>5, <2>2, <3>1
    <2> HIDE DEF G
    <2> QED  BY <1>1, <2>1, <2>2, UpTo
<1>7. g[n] = f[n] /\ g[n + 1] = g[n] + P(d)
    <2>1. n \in 0 .. n /\ n + 1 \in 1 .. Len(t) /\ (n + 1) - 1 = n
        BY <1>1
    <2>2. n \in G
        BY <1>6, <2>1
    <2>3. g[n + 1] = g[(n + 1) - 1] + P(t[n + 1])
        BY <1>5, <2>1
    <2> QED  BY <1>1, <2>1, <2>2, <2>3
<1> QED  BY <1>1, <1>3, <1>5, <1>7 DEF t, P, n

\* Of two sums over the same DNNs, each of them there once, the first is at
\* most extra larger than the second, if only one DNN adds so much more.
LEMMA UsageCompared ==
    ASSUME NEW s \in Seq(Dnn), Distinct(s),
           NEW res1 \in [Dnn -> Result], NEW start1, NEW fin1, NEW ignored1,
           NEW res2 \in [Dnn -> Result], NEW start2, NEW fin2, NEW ignored2,
           NEW d, NEW extra \in Nat,
           \A e \in ToSet(s) \ {d} :
                Share(res1, start1, fin1, ignored1, e)
                    <= Share(res2, start2, fin2, ignored2, e),
           d \in ToSet(s) => Share(res1, start1, fin1, ignored1, d)
                                <= extra + Share(res2, start2, fin2, ignored2, d)
    PROVE  CoreUsage(s, res1, start1, fin1, ignored1)
                <= CoreUsage(s, res2, start2, fin2, ignored2) + extra
<1> DEFINE n == Len(s)
           P(e) == Share(res1, start1, fin1, ignored1, e)
           Q(e) == Share(res2, start2, fin2, ignored2, e)
<1>1. n \in Nat /\ \A i \in 1 .. n : s[i] \in Dnn /\ s[i] \in ToSet(s)
    BY Elements
<1>2. PICK f : Sums(f, s, res1, start1, fin1, ignored1)
    BY SumLoop
<1>3. /\ f \in [0 .. n -> Nat]
      /\ f[0] = 0
      /\ \A i \in 1 .. n : f[i] = f[i - 1] + P(s[i])
      /\ CoreUsage(s, res1, start1, fin1, ignored1) = f[n]
    BY <1>2 DEF Sums
<1>4. PICK g : Sums(g, s, res2, start2, fin2, ignored2)
    BY SumLoop
<1>5. /\ g \in [0 .. n -> Nat]
      /\ g[0] = 0
      /\ \A i \in 1 .. n : g[i] = g[i - 1] + Q(s[i])
      /\ CoreUsage(s, res2, start2, fin2, ignored2) = g[n]
    BY <1>4 DEF Sums
<1>6. \A i \in 1 .. n : P(s[i]) \in Nat /\ Q(s[i]) \in Nat
    BY <1>1, ShareIs
<1>7. \A i \in 1 .. n : /\ s[i] # d => P(s[i]) <= Q(s[i])
                        /\ s[i] = d => P(s[i]) <= extra + Q(s[i])
    BY <1>1
<1>8. \A i, j \in 1 .. n : i < j => s[i] # s[j]
    BY DEF Distinct
<1> HIDE DEF P, Q, n
<1> DEFINE Met(i) == \E j \in 1 .. i : s[j] = d
           G == {i \in 0 .. n : /\ f[i] <= g[i] + extra
                                /\ ~Met(i) => f[i] <= g[i]}
<1>9. \A i \in 0 .. n : i \in G
    <2>1. 0 \in G
        BY <1>1, <1>3, <1>5
    <2>2. ASSUME NEW i \in 1 .. n, i - 1 \in G  PROVE i \in G
        <3>1. /\ i \in 0 .. n /\ i - 1 \in 0 .. n
              /\ f[i] = f[i - 1] + P(s[i]) /\ g[i] = g[i - 1] + Q(s[i])
              /\ f[i - 1] \in Nat /\ g[i - 1] \in Nat
              /\ P(s[i]) \in Nat /\ Q(s[i]) \in Nat
            BY <1>1, <1>3, <1>5, <1>6
        <3>2. /\ f[i - 1] <= g[i - 1] + extra
              /\ ~Met(i - 1) => f[i - 1] <= g[i - 1]
            BY <2>2
        <3>3. CASE s[i] = d
            <4>1. ~Met(i - 1)
                <5>1. \A j \in 1 .. i - 1 : j \in 1 .. n /\ j < i
                    BY <1>1
                <5> QED  BY <1>8, <3>3, <5>1
            <4>2. Met(i)
                <5>1. i \in 1 .. i
                    OBVIOUS
                <5> QED  BY <3>3, <5>1
            <4>3. P(s[i]) <= extra + Q(s[i])
                BY <1>7, <3>3
            <4> HIDE DEF Met
            <4> QED  BY <3>1, <3>2, <4>1, <4>2, <4>3
        <3>4. CASE s[i] # d
            <4>1. Met(i - 1) => Met(i)
                <5>1. \A j \in 1 .. i - 1 : j \in 1 .. i
                    OBVIOUS
                <5> QED  BY <5>1
            <4>2. P(s[i]) <= Q(s[i])
                BY <1>7, <3>4
            <4> HIDE DEF Met
            <4> QED  BY <3>1, <3>2, <4>1, <4>2
        <3> QED  BY <3>3, <3>4
    <2> HIDE DEF G
    <2> QED  BY <1>1, <2>1, <2>2, UpTo
<1>10. f[n] <= g[n] + extra
    <2>1. n \in 0 .. n
        BY <1>1
    <2>2. n \in G
        BY <1>9, <2>1
    <2> QED  BY <2>2
<1> QED  BY <1>3, <1>5, <1>10 DEF n

\* What is left of a list of DNNs holds no more cores than all of it.
LEMMA UsageKept ==
    ASSUME NEW s \in Seq(Dnn), NEW S, NEW res \in [Dnn -> Result],
           NEW start, NEW fin, NEW ignored
    PROVE  CoreUsage(Keep(s, S), res, start, fin, ignored)
                <= CoreUsage(s, res, start, fin, ignored)
<1> DEFINE n == Len(s)
           P(e) == Share(res, start, fin, ignored, e)
           U(t) == CoreUsage(t, res, start, fin, ignored)
<1>1. n \in Nat /\ \A i \in 1 .. n : s[i] \in Dnn
    BY Elements
<1>2. PICK f : /\ f = [i \in 0 .. n |-> KeepStep(s, S, f, i)]
               /\ Keep(s, S) = f[n]
    BY KeepLoop
<1>3. PICK g : Sums(g, s, res, start, fin, ignored)
    BY SumLoop
<1>4. /\ g \in [0 .. n -> Nat]
      /\ g[0] = 0
      /\ \A i \in 1 .. n : g[i] = g[i - 1] + P(s[i])
      /\ U(s) = g[n]
    BY <1>3 DEF Sums
<1>5. U(<<>>) = 0
    <2>1. <<>> \in Seq(Dnn) /\ Len(<<>>) = 0
        BY EmptySeq
    <2>2. PICK e : Sums(e, <<>>, res, start, fin, ignored)
        BY <2>1, SumLoop
    <2> QED  BY <2>1, <2>2 DEF Sums
<1>6. \A t \in Seq(Dnn), e \in Dnn :
            /\ U(Append(t, e)) = U(t) + P(e) /\ Append(t, e) \in Seq(Dnn)
    BY UsageAdded, Appended
<1>7. \A t \in Seq(Dnn) : U(t) \in Nat
    BY UsageIsNat
<1>8. \A i \in 1 .. n : P(s[i]) \in Nat
    BY <1>1, ShareIs
<1> HIDE DEF P, U, n
<1> DEFINE G == {i \in 0 .. n : f[i] \in Seq(Dnn) /\ U(f[i]) <= g[i]}
<1>9. \A i \in 0 .. n : i \in G
    <2>1. 0 \in G
        <3>1. f[0] = <<>>
            BY <1>1, <1>2 DEF KeepStep
        <3>2. f[0] \in Seq(Dnn) /\ U(f[0]) = 0 /\ g[0] = 0
            BY <1>4, <1>5, <3>1, EmptySeq
        <3>3. 0 \in 0 .. n /\ 0 <= 0
            BY <1>1
        <3> QED  BY <3>2, <3>3
    <2>2. ASSUME NEW i \in 1 .. n, i - 1 \in G  PROVE i \in G
        <3>1. i \in 0 .. n /\ i - 1 \in 0 .. n /\ i # 0
            BY <1>1
        <3>2. f[i] = KeepStep(s, S, f, i)
            BY <1>2, <3>1, Zenon
        <3>3. f[i] = IF s[i] \in S THEN Append(f[i - 1], s[i]) ELSE f[i - 1]
            BY <3>1, <3>2 DEF KeepStep
        <3>4. /\ f[i - 1] \in Seq(Dnn) /\ U(f[i - 1]) <= g[i - 1]
              /\ g[i - 1] \in Nat /\ U(f[i - 1]) \in Nat
            BY <1>4, <1>7, <2>2, <3>1
        <3>5. g[i] = g[i - 1] + P(s[i]) /\ P(s[i]) \in Nat /\ s[i] \in Dnn
            BY <1>1, <1>4, <1>8
        <3>6. CASE s[i] \in S
            <4>1. U(f[i]) = U(f[i - 1]) + P(s[i]) /\ f[i] \in Seq(Dnn)
                BY <1>6, <3>3, <3>4, <3>5, <3>6
            <4> QED  BY <3>1, <3>4, <3>5, <4>1
        <3>7. CASE s[i] \notin S
            <4>1. f[i] = f[i - 1]
                BY <3>3, <3>7
            <4> QED  BY <3>1, <3>4, <3>5, <4>1
        <3> QED  BY <3>6, <3>7
    <2> HIDE DEF G
    <2> QED  BY <1>1, <2>1, <2>2, UpTo
<1>10. U(f[n]) <= g[n]
    <2>1. n \in 0 .. n
        BY <1>1
    <2> QED  BY <1>9, <2>1
<1> QED  BY <1>2, <1>4, <1>10 DEF U

\* Some DNN of the list starts when its device has promised too many cores.
Crowded(s, res) ==
    \E d \in ToSet(s) :
        CoreUsage(s, res, res[d].start, res[d].start, {}) > Cores

\* At an instant a DNN holds no more than in a window around it.
LEMMA HeldAtOnce ==
    ASSUME NEW r \in Result, NEW t \in Nat, NEW a \in Nat, NEW b \in Nat
    PROVE  /\ Held(r, t, t) \in Nat /\ Held(r, a, b) \in Nat
           /\ a <= t /\ t <= b => Held(r, t, t) <= Held(r, a, b)
           /\ ~(r.start <= t /\ t <= r.fin) => Held(r, t, t) = 0
           /\ r.start <= t /\ t <= r.fin => Held(r, t, t) = r.cores
<1>1. r.start \in Nat /\ r.fin \in Nat /\ r.cores \in Nat
    BY DEF Result
<1> QED  BY <1>1 DEF Held, Overlap

\* Whether a list is crowded depends on the results of its DNNs only.
LEMMA CrowdedAlike ==
    ASSUME NEW s \in Seq(Dnn), Distinct(s),
           NEW res1 \in [Dnn -> Result], NEW res2 \in [Dnn -> Result],
           \A e \in ToSet(s) : res2[e] = res1[e],
           Crowded(s, res2)
    PROVE  Crowded(s, res1)
<1>1. ToSet(s) \subseteq Dnn
    BY Elements
<1>2. PICK d \in ToSet(s) :
            CoreUsage(s, res2, res2[d].start, res2[d].start, {}) > Cores
    BY DEF Crowded
<1> DEFINE now2 == res2[d].start
<1>3. res1[d].start = now2 /\ CoreUsage(s, res2, now2, now2, {}) > Cores
    BY <1>2
<1> HIDE DEF now2
<1>4. CoreUsage(s, res2, now2, now2, {})
        <= CoreUsage(s, res1, now2, now2, {}) + 0
    <2>1. \A e \in ToSet(s) :
            Share(res2, now2, now2, {}, e) <= 0 + Share(res1, now2, now2, {}, e)
        <3> TAKE e \in ToSet(s)
        <3>1. Share(res2, now2, now2, {}, e) = Share(res1, now2, now2, {}, e)
            BY DEF Share
        <3>2. Share(res1, now2, now2, {}, e) \in Nat
            BY <1>1, ShareIs
        <3> QED  BY <3>1, <3>2
    <2>2. \A e \in ToSet(s) \ {d} :
            Share(res2, now2, now2, {}, e) <= Share(res1, now2, now2, {}, e)
        <3> TAKE e \in ToSet(s) \ {d}
        <3>1. Share(res1, now2, now2, {}, e) \in Nat
            BY <1>1, ShareIs
        <3> QED  BY <2>1, <3>1
    <2>3. Share(res2, now2, now2, {}, d) <= 0 + Share(res1, now2, now2, {}, d)
        BY <1>2, <2>1
    <2> QED  BY <2>2, <2>3, UsageCompared
<1>5. /\ CoreUsage(s, res2, now2, now2, {}) \in Nat
      /\ CoreUsage(s, res1, now2, now2, {}) \in Nat /\ Cores \in Nat
    BY UsageIsNat, AllocationAssumption
<1>6. CoreUsage(s, res1, now2, now2, {}) > Cores
    BY <1>3, <1>4, <1>5
<1> QED  BY <1>2, <1>3, <1>6 DEF Crowded

\* DNNs that leave a list crowd no one.
LEMMA CrowdedLess ==
    ASSUME NEW s \in Seq(Dnn), NEW S, NEW res \in [Dnn -> Result],
           Crowded(Keep(s, S), res)
    PROVE  Crowded(s, res)
<1> DEFINE t == Keep(s, S)
<1>1. t \in Seq(Dnn) /\ ToSet(t) = ToSet(s) \cap S
    BY Kept
<1>2. PICK d \in ToSet(t) :
            CoreUsage(t, res, res[d].start, res[d].start, {}) > Cores
    BY DEF Crowded
<1> DEFINE now2 == res[d].start
<1>3. CoreUsage(t, res, now2, now2, {}) <= CoreUsage(s, res, now2, now2, {})
    BY UsageKept
<1> HIDE DEF t
<1>4. /\ CoreUsage(t, res, now2, now2, {}) \in Nat
      /\ CoreUsage(s, res, now2, now2, {}) \in Nat /\ Cores \in Nat
    BY <1>1, UsageIsNat, AllocationAssumption
<1>5. CoreUsage(t, res, now2, now2, {}) > Cores
    BY <1>2
<1> HIDE DEF now2
<1>6. CoreUsage(s, res, now2, now2, {}) > Cores
    BY <1>3, <1>4, <1>5
<1>7. CoreUsage(s, res, res[d].start, res[d].start, {}) > Cores
    BY <1>6 DEF now2
<1> QED  BY <1>1, <1>7 DEF Crowded

\* Nor does one whose result changes when it leaves.
LEMMA CrowdedLeft ==
    ASSUME NEW s \in Seq(Dnn), Distinct(s), NEW d,
           NEW res1 \in [Dnn -> Result], NEW res2 \in [Dnn -> Result],
           \A e \in Dnn \ {d} : res2[e] = res1[e],
           Crowded(Without(s, d), res2)
    PROVE  Crowded(s, res1)
<1> DEFINE t == Keep(s, Dnn \ {d})
<1>1. t \in Seq(Dnn) /\ ToSet(t) = ToSet(s) \cap (Dnn \ {d}) /\ Distinct(t)
    BY Kept, KeptDistinct
<1>2. Crowded(t, res2)
    BY DEF Without
<1>3. Crowded(t, res1)
    <2> HIDE DEF t
    <2>1. \A e \in ToSet(t) : res2[e] = res1[e]
        BY <1>1
    <2> QED  BY <1>1, <1>2, <2>1, CrowdedAlike
<1> QED  BY <1>3, CrowdedLess

\* A DNN that joins a list crowds no one, if there was room for it in a
\* window around its own.
LEMMA CrowdedJoined ==
    ASSUME NEW s \in Seq(Dnn), Distinct(s), NEW d \in Dnn, d \notin ToSet(s),
           NEW res \in [Dnn -> Result], NEW r \in Result,
           NEW a \in Nat, NEW b \in Nat,
           a <= r.start, r.start <= r.fin, r.fin <= b,
           CoreUsage(s, res, a, b, {d}) + r.cores <= Cores,
           Crowded(Append(s, d), [res EXCEPT ![d] = r])
    PROVE  Crowded(s, res)
<1> DEFINE t == Append(s, d)
           res2 == [res EXCEPT ![d] = r]
<1>1. ToSet(t) = ToSet(s) \cup {d} /\ ToSet(s) \subseteq Dnn
    BY Appended, Elements
<1>2. /\ res2 \in [Dnn -> Result] /\ res2[d] = r
      /\ \A e \in Dnn \ {d} : res2[e] = res[e]
    OBVIOUS
<1>3. PICK e \in ToSet(t) :
            CoreUsage(t, res2, res2[e].start, res2[e].start, {}) > Cores
    BY DEF Crowded
<1> HIDE DEF res2
<1> DEFINE now2 == res2[e].start
<1>4. now2 \in Nat
    BY <1>1, <1>2, <1>3 DEF Result
<1>5. CoreUsage(t, res2, now2, now2, {}) =
        CoreUsage(s, res2, now2, now2, {}) + Share(res2, now2, now2, {}, d)
    BY <1>2, UsageAdded
<1>6. /\ r.start \in Nat /\ r.fin \in Nat /\ r.cores \in Nat /\ Cores \in Nat
      /\ CoreUsage(s, res2, now2, now2, {}) \in Nat
      /\ CoreUsage(s, res, now2, now2, {}) \in Nat
      /\ CoreUsage(s, res, a, b, {d}) \in Nat
    BY <1>2, UsageIsNat, AllocationAssumption DEF Result
<1>7. Share(res2, now2, now2, {}, d) = Held(r, now2, now2)
    BY <1>2 DEF Share
<1>8. CoreUsage(t, res2, now2, now2, {}) > Cores
    BY <1>3
<1> HIDE DEF t, now2
<1>9. \A f \in ToSet(s) : f \in Dnn /\ f # d /\ res2[f] = res[f] /\ res[f] \in Result
    BY <1>1, <1>2
<1>10. CASE r.start <= now2 /\ now2 <= r.fin
    <2>1. Held(r, now2, now2) = r.cores
        BY <1>4, <1>10, HeldAtOnce
    <2>2. a <= now2 /\ now2 <= b
        BY <1>4, <1>6, <1>10
    <2>3. \A f \in ToSet(s) \ {d} :
            Share(res2, now2, now2, {}, f) <= Share(res, a, b, {d}, f)
        <3> TAKE f \in ToSet(s) \ {d}
        <3>1. Held(res[f], now2, now2) <= Held(res[f], a, b)
            BY <1>4, <1>9, <2>2, HeldAtOnce
        <3> QED  BY <1>9, <3>1 DEF Share
    <2>4. CoreUsage(s, res2, now2, now2, {}) <= CoreUsage(s, res, a, b, {d}) + 0
        BY <1>2, <2>3, UsageCompared
    <2> QED  BY <1>5, <1>6, <1>7, <1>8, <2>1, <2>4
<1>11. CASE ~(r.start <= now2 /\ now2 <= r.fin)
    <2>1. Held(r, now2, now2) = 0
        BY <1>4, <1>11, HeldAtOnce
    <2>2. e # d
        BY <1>2, <1>6, <1>11 DEF now2
    <2>3. e \in ToSet(s) /\ now2 = res[e].start
        BY <1>1, <1>3, <1>9, <2>2 DEF now2, t
    <2>4. \A f \in ToSet(s) \ {d} :
            Share(res2, now2, now2, {}, f) <= Share(res, now2, now2, {}, f)
        <3> TAKE f \in ToSet(s) \ {d}
        <3>1. Share(res2, now2, now2, {}, f) = Share(res, now2, now2, {}, f)
            BY <1>9 DEF Share
        <3>2. Share(res, now2, now2, {}, f) \in Nat
            BY <1>9, ShareIs
        <3> QED  BY <3>1, <3>2
    <2>5. CoreUsage(s, res2, now2, now2, {})
            <= CoreUsage(s, res, now2, now2, {}) + 0
        BY <1>2, <2>4, UsageCompared
    <2>6. CoreUsage(s, res, now2, now2, {}) > Cores
        BY <1>5, <1>6, <1>7, <1>8, <2>1, <2>5
    <2> QED  BY <2>3, <2>6 DEF Crowded
<1> QED  BY <1>10, <1>11

\* A DNN of the list that gets another configuration crowds no one, if there
\* was room for that next to the others.
LEMMA CrowdedSped ==
    ASSUME NEW s \in Seq(Dnn), Distinct(s), NEW d \in ToSet(s),
           NEW res \in [Dnn -> Result], NEW r \in Result,
           r.start = res[d].start,
           CoreUsage(s, res, r.start, r.fin, {d}) + r.cores <= Cores,
           Crowded(s, [res EXCEPT ![d] = r])
    PROVE  Crowded(s, res)
<1> DEFINE res2 == [res EXCEPT ![d] = r]
           a == r.start
           b == r.fin
<1>1. ToSet(s) \subseteq Dnn /\ d \in Dnn
    BY Elements
<1>2. /\ res2 \in [Dnn -> Result] /\ res2[d] = r
      /\ \A e \in Dnn \ {d} : res2[e] = res[e]
    BY <1>1
<1>3. PICK e \in ToSet(s) :
            CoreUsage(s, res2, res2[e].start, res2[e].start, {}) > Cores
    BY DEF Crowded
<1> HIDE DEF res2
<1> DEFINE now2 == res2[e].start
<1>4. now2 \in Nat /\ now2 = res[e].start
    BY <1>1, <1>2, <1>3 DEF Result
<1>5. /\ a \in Nat /\ b \in Nat /\ r.cores \in Nat /\ Cores \in Nat
      /\ CoreUsage(s, res2, now2, now2, {}) \in Nat
      /\ CoreUsage(s, res, now2, now2, {}) \in Nat
      /\ CoreUsage(s, res, a, b, {d}) \in Nat
    BY <1>2, UsageIsNat, AllocationAssumption DEF Result
<1>6. Share(res2, now2, now2, {}, d) = Held(r, now2, now2)
    BY <1>2 DEF Share
<1>7. CoreUsage(s, res2, now2, now2, {}) > Cores
    BY <1>3
<1>8. CoreUsage(s, res, a, b, {d}) + r.cores <= Cores
    OBVIOUS
<1>9. \A t \in Nat : /\ ~(a <= t /\ t <= b) => Held(r, t, t) = 0
                     /\ a <= t /\ t <= b => Held(r, t, t) = r.cores
    BY HeldAtOnce
<1> HIDE DEF now2, a, b
<1>10. \A f \in ToSet(s) \ {d} :
            f \in Dnn /\ res2[f] = res[f] /\ res[f] \in Result
    BY <1>1, <1>2
<1>11. CASE a <= now2 /\ now2 <= b
    <2>1. \A f \in ToSet(s) \ {d} :
            Share(res2, now2, now2, {}, f) <= Share(res, a, b, {d}, f)
        <3> TAKE f \in ToSet(s) \ {d}
        <3>1. Held(res[f], now2, now2) <= Held(res[f], a, b)
            BY <1>4, <1>5, <1>10, <1>11, HeldAtOnce
        <3> QED  BY <1>10, <3>1 DEF Share
    <2>2. Share(res2, now2, now2, {}, d) <= r.cores + Share(res, a, b, {d}, d)
        <3>1. Share(res, a, b, {d}, d) = 0
            BY DEF Share
        <3> QED  BY <1>4, <1>5, <1>6, <1>9, <1>11, <3>1
    <2>3. CoreUsage(s, res2, now2, now2, {})
            <= CoreUsage(s, res, a, b, {d}) + r.cores
        BY <1>2, <1>5, <2>1, <2>2, UsageCompared
    <2> QED  BY <1>5, <1>7, <1>8, <2>3
<1>12. CASE ~(a <= now2 /\ now2 <= b)
    <2>1. \A f \in ToSet(s) \ {d} :
            Share(res2, now2, now2, {}, f) <= Share(res, now2, now2, {}, f)
        <3> TAKE f \in ToSet(s) \ {d}
        <3>1. Share(res2, now2, now2, {}, f) = Share(res, now2, now2, {}, f)
            BY <1>10 DEF Share
        <3>2. Share(res, now2, now2, {}, f) \in Nat
            BY <1>10, ShareIs
        <3> QED  BY <3>1, <3>2
    <2>2. Share(res2, now2, now2, {}, d)
            <= 0 + Share(res, now2, now2, {}, d)
        <3>1. Share(res, now2, now2, {}, d) \in Nat
            BY <1>1, ShareIs
        <3> QED  BY <1>4, <1>6, <1>9, <1>12, <3>1
    <2>3. CoreUsage(s, res2, now2, now2, {})
            <= CoreUsage(s, res, now2, now2, {}) + 0
        BY <1>2, <2>1, <2>2, UsageCompared
    <2>4. CoreUsage(s, res, now2, now2, {}) > Cores
        BY <1>5, <1>7, <2>3
    <2> QED  BY <1>3, <1>4, <2>4 DEF Crowded
<1> QED  BY <1>11, <1>12

-----------------------------------------------------------------------------
(* The searches and choices of the calls *)

\* Every search of the calls finds a slot from its base on.
LEMMA SlotFound ==
    ASSUME NEW link \in Seq(Link), NEW base \in Nat,
           NEW kind \in {"low_upload", "low_update",
                         "high_upload", "transfer", "high_update"}
    PROVE  LET s == FindLinkSlot(base, Duration[kind], link)
           IN  /\ s.start \in Nat /\ s.fin \in Nat
               /\ base <= s.start /\ s.start < s.fin
<1> DEFINE dur == Duration[kind]
           s == FindLinkSlot(base, dur, link)
<1>1. dur \in Nat /\ dur > 0
    BY AllocationAssumption
<1>2. \A e \in Link : e.start \in Nat /\ e.fin \in Nat
    BY DEF Link
<1> HIDE DEF dur
<1>3. s \in Slot /\ s.start >= base /\ s.fin = s.start + dur
    BY <1>1, <1>2, SlotShape
<1> HIDE DEF s
<1>4. s.start \in Nat /\ s.fin \in Nat
    BY <1>3 DEF Slot
<1>5. s.start \in Nat /\ s.fin \in Nat /\ base <= s.start /\ s.start < s.fin
    BY <1>1, <1>3, <1>4
<1> QED  BY <1>5 DEF s, dur

\* The local state of a high allocation.
Work == [link : Seq(Link), DNNS : [Host -> Seq(Dnn)], result : [Dnn -> Result],
         taken : [Host -> Nat], tried : Seq(Dnn), allocated : SUBSET Dnn]

\* findNode returns a device with room, or says that there is none.
LEMMA NodeFound ==
    ASSUME NEW v \in Work, NEW upload, NEW transfer, NEW src \in Host, NEW d
    PROVE  LET host == FindNode(v, upload, transfer, src, d)
               link == IF host = src THEN upload ELSE transfer
           IN  /\ host \in Host \cup {NoHost}
               /\ host # NoHost =>
                    Usage(v, host, link.fin, link.fin + 1 + FtpLowTime, d)
                        + FtpLowCore <= Cores
<1> DEFINE Room(h, link) ==
            Usage(v, h, link.fin, link.fin + 1 + FtpLowTime, d) + FtpLowCore
                <= Cores
           remote == {h \in Host \ {src} : Room(h, transfer)}
           Best(h) == \A g \in remote :
                        \/ v.taken[h] < v.taken[g]
                        \/ v.taken[h] = v.taken[g] /\ h <= g
<1>1. FindNode(v, upload, transfer, src, d) =
        IF Room(src, upload) THEN src
        ELSE IF remote = {} THEN NoHost
        ELSE CHOOSE h \in remote : Best(h)
    BY DEF FindNode
<1>2. remote \subseteq Host \ {src} /\ \A h \in remote : Room(h, transfer)
    OBVIOUS
<1>3. Host \subseteq Nat /\ \A h \in Host : v.taken[h] \in Nat
    BY AllocationAssumption DEF Work
<1> HIDE DEF Room, remote
<1>4. ASSUME remote # {}  PROVE (CHOOSE g \in remote : Best(g)) \in remote
    <2> DEFINE Counts == {n \in Nat : \E h \in remote : n = v.taken[h]}
    <2>1. PICK n \in Counts : \A m \in Counts : n <= m
        <3>1. Counts \in SUBSET Nat /\ Counts # {}
            BY <1>2, <1>3, <1>4
        <3> HIDE DEF Counts
        <3> QED  BY <3>1, LeastNat
    <2> DEFINE Fewest == {h \in remote : v.taken[h] = n}
    <2>2. PICK h \in Fewest : \A g \in Fewest : h <= g
        <3>1. Fewest \in SUBSET Nat /\ Fewest # {}
            BY <1>2, <1>3, <2>1
        <3> HIDE DEF Fewest
        <3> QED  BY <3>1, LeastNat
    <2>3. \A g \in remote : v.taken[g] \in Counts /\ v.taken[g] \in Nat
        BY <1>2, <1>3
    <2>4. Best(h)
        BY <2>1, <2>2, <2>3
    <2>5. h \in remote
        BY <2>2
    <2> HIDE DEF Best
    <2>6. (CHOOSE g \in remote : Best(g)) \in remote
        BY <2>4, <2>5
    <2>7. (CHOOSE g \in remote : Best(g)) \in remote
        BY <2>6
    <2> QED  BY <2>7
<1> HIDE DEF Best
<1> DEFINE host == FindNode(v, upload, transfer, src, d)
           link == IF host = src THEN upload ELSE transfer
<1>5. /\ host \in Host \cup {NoHost}
      /\ host # NoHost => Room(host, link)
    <2>1. CASE Room(src, upload)
        BY <1>1, <2>1
    <2>2. CASE ~Room(src, upload) /\ remote = {}
        BY <1>1, <2>2
    <2>3. CASE ~Room(src, upload) /\ remote # {}
        BY <1>1, <1>2, <1>4, <2>3
    <2> QED  BY <2>1, <2>2, <2>3
<1> QED  BY <1>5 DEF Room

\* The times to try from are in a finite sequence.
LEMMA TimesFound ==
    ASSUME NEW x, IsFiniteSet(off_total), off_total \subseteq Dnn,
           result \in [Dnn -> Result], now \in Nat
    PROVE  FinishTimes(x) \in Seq([fin : Nat])
<1> DEFINE S == {d \in off_total : /\ result[d].fin < x.deadline
                                   /\ result[d].fin > now}
           n == Cardinality(S)
           soon == SetToSeq(S)
           times == [i \in DOMAIN soon |-> [fin |-> result[soon[i]].fin]]
<1>1. IsFiniteSet(S)
    BY FS_Subset
<1>2. \A d \in S : result[d].fin \in Nat
    BY DEF Result
<1>3. FinishTimes(x) = SortedByFin(Append(times, [fin |-> now]))
    BY DEF FinishTimes
<1> HIDE DEF S
<1>4. n \in Nat /\ \E f \in [1 .. n -> S] : IsInjective(f)
    BY <1>1, FS_CardinalityType DEF ExistsBijection, Bijection, Injection
<1>5. soon \in [1 .. n -> S]
    BY <1>4 DEF SetToSeq
<1> HIDE DEF soon, n
<1>6. times \in [1 .. n -> [fin : Nat]]
    BY <1>2, <1>5
<1> HIDE DEF times
<1>7. times \in Seq([fin : Nat])
    <2> DEFINE T == [fin : Nat]
    <2> HIDE DEF T
    <2>1. times \in [1 .. n -> T]
        BY <1>6 DEF T
    <2>2. times \in Seq(T)
        BY <1>4, <2>1, SeqDef
    <2> QED  BY <2>2 DEF T
<1>8. Append(times, [fin |-> now]) \in Seq([fin : Nat])
    <2>1. [fin |-> now] \in [fin : Nat]
        OBVIOUS
    <2> QED  BY <1>7, <2>1, Appended
<1> QED  BY <1>3, <1>8, Sorted

-----------------------------------------------------------------------------
(* One step of a high allocation *)

\* A request whose DNNs have no place yet.
Fresh(x) ==
    /\ x \in Item /\ x.host \in Host /\ Distinct(x.dnns)
    /\ ToSet(x.dnns) \cap off_total = {}

\* The local state has no more cores promised twice than the devices have.
Calm(v) == \A h \in Host :
    Crowded(v.DNNS[h], v.result) => Crowded(DNNS[h], result)

\* The books of the local state v while the DNNs of tried wait to be settled.
Draft(v, x, tried) ==
    /\ v \in Work
    /\ Books(v.link, v.DNNS, v.result, off_total \cup v.allocated, tried)
    /\ v.allocated \cup tried \subseteq ToSet(x.dnns)
    /\ \A d \in Dnn :
        /\ v.result[d].run = result[d].run
        /\ d \notin ToSet(x.dnns) => v.result[d] = result[d]
    /\ \A d \in v.allocated \cup tried : ~v.result[d].low
    /\ \A d \in tried : v.result[d].deadline = x.deadline
    /\ Calm(v)

\* What a DNN that finds a device gets.
TryUpload(v, d, base) ==
    Transfer(d, "upload", v.result[d].run,
             FindLinkSlot(base, Duration["high_upload"], v.link))

TryTransfer(v, d, base) ==
    Transfer(d, "transfer", v.result[d].run,
             FindLinkSlot(TryUpload(v, d, base).fin + 1, Duration["transfer"],
                          v.link))

TryHost(v, d, x, base) ==
    FindNode(v, TryUpload(v, d, base), TryTransfer(v, d, base), x.host, d)

TryResult(v, d, x, base) ==
    LET host == TryHost(v, d, x, base)
    IN  HighResult(x, host, 1 + IF host = x.host THEN TryUpload(v, d, base).fin
                                ELSE TryTransfer(v, d, base).fin,
                   v.result[d].run)

\* The two links and the result that Try makes for a DNN: typed, named after
\* the DNN and its run, and one after the other.
LEMMA TryParts ==
    ASSUME NEW v \in Work, NEW d \in Dnn, NEW x \in Item, x.host \in Host,
           NEW base \in Nat
    PROVE  LET up == TryUpload(v, d, base)
               tr == TryTransfer(v, d, base)
               r == TryResult(v, d, x, base)
               host == TryHost(v, d, x, base)
           IN  /\ host \in Host \cup {NoHost}
               /\ up \in Link /\ up.dnn = d /\ up.use = "upload"
               /\ up.run = v.result[d].run
               /\ tr \in Link /\ tr.dnn = d /\ tr.use = "transfer"
               /\ tr.run = v.result[d].run
               /\ up.fin < tr.start /\ tr.start < tr.fin
               /\ r \in Result /\ ~r.low /\ r.run = v.result[d].run
               /\ r.src = x.host /\ r.host = host /\ r.deadline = x.deadline
               /\ r.start = 1 + IF host = x.host THEN up.fin ELSE tr.fin
<1> DEFINE up == TryUpload(v, d, base)
           tr == TryTransfer(v, d, base)
           r == TryResult(v, d, x, base)
           host == TryHost(v, d, x, base)
           s == FindLinkSlot(base, Duration["high_upload"], v.link)
           t == FindLinkSlot(up.fin + 1, Duration["transfer"], v.link)
<1>1. v.link \in Seq(Link) /\ v.result[d] \in Result
    BY DEF Work
<1>2. v.result[d].run \in Nat
    BY <1>1 DEF Result
<1>3. host \in Host \cup {NoHost}
    BY NodeFound DEF TryHost
<1>4. s.start \in Nat /\ s.fin \in Nat /\ base <= s.start /\ s.start < s.fin
    BY <1>1, SlotFound
<1>5. /\ up = Transfer(d, "upload", v.result[d].run, s)
      /\ tr = Transfer(d, "transfer", v.result[d].run, t)
    BY DEF TryUpload, TryTransfer
<1> HIDE DEF s, up
<1>6. /\ up \in Link /\ up.dnn = d /\ up.use = "upload"
      /\ up.run = v.result[d].run /\ up.start = s.start /\ up.fin = s.fin
    BY <1>2, <1>4, <1>5 DEF Transfer, Link, Uses
<1>7. t.start \in Nat /\ t.fin \in Nat /\ up.fin < t.start /\ t.start < t.fin
    <2>1. up.fin + 1 \in Nat
        BY <1>4, <1>6
    <2>2. t.start \in Nat /\ t.fin \in Nat /\ up.fin + 1 <= t.start
            /\ t.start < t.fin
        BY <1>1, <2>1, SlotFound
    <2> HIDE DEF t
    <2> QED  BY <1>4, <1>6, <2>2
<1> HIDE DEF t, tr
<1>8. /\ tr \in Link /\ tr.dnn = d /\ tr.use = "transfer"
      /\ tr.run = v.result[d].run /\ tr.start = t.start /\ tr.fin = t.fin
    BY <1>2, <1>5, <1>7 DEF Transfer, Link, Uses
<1>9. r = HighResult(x, host, 1 + IF host = x.host THEN up.fin ELSE tr.fin,
                     v.result[d].run)
    BY DEF TryResult, up, tr
<1> HIDE DEF host, r
<1>10. x.deadline \in Nat
    BY DEF Item
<1>11. /\ r \in Result /\ ~r.low /\ r.run = v.result[d].run
       /\ r.src = x.host /\ r.host = host /\ r.deadline = x.deadline
       /\ r.start = 1 + IF host = x.host THEN up.fin ELSE tr.fin
    <2> DEFINE start == 1 + IF host = x.host THEN up.fin ELSE tr.fin
    <2>1. start \in Nat
        BY <1>4, <1>6, <1>7, <1>8
    <2> HIDE DEF start
    <2>2. FtpLowCore \in Nat /\ start + FtpLowTime \in Nat
        BY <2>1, AllocationAssumption
    <2>3. r = [low |-> FALSE, src |-> x.host, host |-> host,
               cores |-> FtpLowCore, start |-> start,
               fin |-> start + FtpLowTime, deadline |-> x.deadline,
               run |-> v.result[d].run]
        BY <1>9 DEF HighResult, start
    <2>4. r \in Result
        BY <1>2, <1>3, <1>10, <2>1, <2>2, <2>3 DEF Result
    <2> QED  BY <2>3, <2>4 DEF start
<1> HIDE DEF s
<1>12. up.fin < tr.start /\ tr.start < tr.fin
    BY <1>7, <1>8
<1> QED  BY <1>3, <1>6, <1>8, <1>11, <1>12 DEF up, tr, r, host

\* The device that a DNN is tried on has room for it around its window.
LEMMA TryRoom ==
    ASSUME NEW v \in Work, NEW d \in Dnn, NEW x \in Item, x.host \in Host,
           NEW base \in Nat, TryHost(v, d, x, base) # NoHost
    PROVE  LET r == TryResult(v, d, x, base)
           IN  \E a \in Nat, b \in Nat :
                /\ a <= r.start /\ r.start <= r.fin /\ r.fin <= b
                /\ CoreUsage(v.DNNS[r.host], v.result, a, b, {d}) + r.cores
                        <= Cores
<1> DEFINE up == TryUpload(v, d, base)
           tr == TryTransfer(v, d, base)
           r == TryResult(v, d, x, base)
           host == TryHost(v, d, x, base)
           link == IF host = x.host THEN up ELSE tr
<1>1. up \in Link /\ tr \in Link /\ r.host = host
    BY TryParts
<1>2. r.start = 1 + link.fin /\ r.fin = r.start + FtpLowTime
        /\ r.cores = FtpLowCore
    BY DEF TryResult, HighResult
<1>3. Usage(v, host, link.fin, link.fin + 1 + FtpLowTime, d) + FtpLowCore
        <= Cores
    BY NodeFound DEF TryHost
<1> HIDE DEF up, tr, r, host
<1>4. link.fin \in Nat /\ FtpLowTime \in Nat
    BY <1>1, AllocationAssumption DEF Link
<1> HIDE DEF link
<1> DEFINE a == link.fin
           b == link.fin + 1 + FtpLowTime
<1>5. /\ a \in Nat /\ b \in Nat
      /\ a <= r.start /\ r.start <= r.fin /\ r.fin <= b
    BY <1>2, <1>4
<1>6. CoreUsage(v.DNNS[r.host], v.result, a, b, {d}) + r.cores <= Cores
    BY <1>1, <1>2, <1>3 DEF Usage
<1> HIDE DEF a, b
<1> QED  BY <1>5, <1>6 DEF r

\* Try changes nothing, or books these links and this result on the device
\* that findNode selected.
LEMMA TryIs ==
    ASSUME NEW v \in Work, NEW d \in Dnn, NEW x \in Item, x.host \in Host,
           NEW base \in Nat
    PROVE  LET up == TryUpload(v, d, base)
               tr == TryTransfer(v, d, base)
               r == TryResult(v, d, x, base)
               host == TryHost(v, d, x, base)
           IN  Try(v, d, x, base) =
                IF host = NoHost THEN v
                ELSE [link |-> IF Moved(r) THEN Append(Append(v.link, tr), up)
                               ELSE Append(v.link, up),
                      DNNS |-> [v.DNNS EXCEPT ![r.host] = Append(@, d)],
                      result |-> [v.result EXCEPT ![d] = r],
                      taken |-> [v.taken EXCEPT ![host] = @ + 1],
                      tried |-> Append(v.tried, d),
                      allocated |-> v.allocated]
<1> DEFINE up == TryUpload(v, d, base)
           tr == TryTransfer(v, d, base)
           r == TryResult(v, d, x, base)
           host == TryHost(v, d, x, base)
           add == IF host = x.host THEN <<up>> ELSE <<tr, up>>
           new == [v EXCEPT
                    !.link = @ \o add,
                    !.DNNS[host] = Append(@, d),
                    !.result[d] = r,
                    !.taken[host] = @ + 1,
                    !.tried = Append(@, d)]
<1>1. Try(v, d, x, base) = IF host = NoHost THEN v ELSE new
    BY DEF Try, TryUpload, TryTransfer, TryHost, TryResult
<1>2. up \in Link /\ tr \in Link /\ ~r.low /\ r.src = x.host /\ r.host = host
    BY TryParts
<1> HIDE DEF up, tr, r, host
<1>3. v.link \o add = IF Moved(r) THEN Append(Append(v.link, tr), up)
                      ELSE Append(v.link, up)
    <2>1. v.link \in Seq(Link)
        BY DEF Work
    <2>2. CASE host = x.host
        BY <1>2, <2>1, <2>2, AppendIsConcat DEF Moved
    <2>3. CASE host # x.host
        BY <1>2, <2>1, <2>3, AppendedTwo DEF Moved
    <2> QED  BY <2>2, <2>3
<1> HIDE DEF add
<1>4. new = [link |-> v.link \o add,
             DNNS |-> [v.DNNS EXCEPT ![host] = Append(@, d)],
             result |-> [v.result EXCEPT ![d] = r],
             taken |-> [v.taken EXCEPT ![host] = @ + 1],
             tried |-> Append(v.tried, d),
             allocated |-> v.allocated]
    <2>1. new \in [link : {v.link \o add},
                  DNNS : {[v.DNNS EXCEPT ![host] = Append(@, d)]},
                  result : {[v.result EXCEPT ![d] = r]},
                  taken : {[v.taken EXCEPT ![host] = @ + 1]},
                  tried : {Append(v.tried, d)},
                  allocated : {v.allocated}]
        BY DEF Work
    <2> HIDE DEF new
    <2> QED  BY <2>1
<1> HIDE DEF new
<1> QED  BY <1>1, <1>2, <1>3, <1>4 DEF up, tr, r, host

\* A try leaves a local state, whatever it started from.
LEMMA TryTyped ==
    ASSUME NEW v \in Work, NEW d \in Dnn, NEW x \in Item, x.host \in Host,
           NEW base \in Nat
    PROVE  Try(v, d, x, base) \in Work
<1> DEFINE up == TryUpload(v, d, base)
           tr == TryTransfer(v, d, base)
           r == TryResult(v, d, x, base)
           host == TryHost(v, d, x, base)
           link2 == IF Moved(r) THEN Append(Append(v.link, tr), up)
                    ELSE Append(v.link, up)
<1>1. /\ v.link \in Seq(Link) /\ v.DNNS \in [Host -> Seq(Dnn)]
      /\ v.result \in [Dnn -> Result] /\ v.taken \in [Host -> Nat]
      /\ v.tried \in Seq(Dnn) /\ v.allocated \in SUBSET Dnn
    BY DEF Work
<1>2. /\ up \in Link /\ tr \in Link /\ r \in Result /\ r.host = host
      /\ host \in Host \cup {NoHost}
    BY TryParts
<1>3. Try(v, d, x, base) =
        IF host = NoHost THEN v
        ELSE [link |-> link2,
              DNNS |-> [v.DNNS EXCEPT ![r.host] = Append(@, d)],
              result |-> [v.result EXCEPT ![d] = r],
              taken |-> [v.taken EXCEPT ![host] = @ + 1],
              tried |-> Append(v.tried, d),
              allocated |-> v.allocated]
    BY TryIs
<1> HIDE DEF up, tr, r, host
<1>4. link2 \in Seq(Link)
    BY <1>1, <1>2, Appended
<1>5. [v.DNNS EXCEPT ![r.host] = Append(@, d)] \in [Host -> Seq(Dnn)]
    <2>1. \A s \in Seq(Dnn) : Append(s, d) \in Seq(Dnn)
        BY Appended
    <2> QED  BY <1>1, <2>1
<1>6. [v.result EXCEPT ![d] = r] \in [Dnn -> Result]
    BY <1>1, <1>2
<1>7. [v.taken EXCEPT ![host] = @ + 1] \in [Host -> Nat]
    <2> DEFINE taken == v.taken
    <2>1. taken \in [Host -> Nat]
        BY <1>1
    <2> HIDE DEF taken
    <2>2. ASSUME NEW g \in Host
          PROVE  (IF g = host THEN taken[host] + 1 ELSE taken[g]) \in Nat
        BY <2>1
    <2>3. [taken EXCEPT ![host] = @ + 1] =
            [g \in Host |-> IF g = host THEN taken[host] + 1 ELSE taken[g]]
        BY <2>1
    <2>4. [taken EXCEPT ![host] = @ + 1] \in [Host -> Nat]
        BY <2>2, <2>3
    <2> QED  BY <2>4 DEF taken
<1>8. Append(v.tried, d) \in Seq(Dnn)
    BY <1>1, Appended
<1> HIDE DEF link2
<1> QED  BY <1>1, <1>3, <1>4, <1>5, <1>6, <1>7, <1>8 DEF Work

\* A DNN of the request is tried, and the books stay in order.
LEMMA TryKeeps ==
    ASSUME NEW x, Fresh(x), NEW v, NEW base \in Nat,
           Draft(v, x, ToSet(v.tried)), Distinct(v.tried),
           NEW d \in ToSet(x.dnns) \ (v.allocated \cup ToSet(v.tried))
    PROVE  LET w == Try(v, d, x, base)
           IN  /\ Draft(w, x, ToSet(w.tried)) /\ Distinct(w.tried)
               /\ w.allocated = v.allocated
               /\ ToSet(w.tried) \subseteq ToSet(v.tried) \cup {d}
<1> DEFINE up == TryUpload(v, d, base)
           tr == TryTransfer(v, d, base)
           r == TryResult(v, d, x, base)
           host == TryHost(v, d, x, base)
           w == Try(v, d, x, base)
           booked == off_total \cup v.allocated
           tried == ToSet(v.tried)
           link2 == IF Moved(r) THEN Append(Append(v.link, tr), up)
                    ELSE Append(v.link, up)
<1>1. v \in Work /\ x \in Item /\ x.host \in Host
    BY DEF Draft, Fresh
<1>2. d \in Dnn /\ x.dnns \in Seq(Dnn)
    <2>1. x.dnns \in Seq(Dnn)
        BY <1>1 DEF Item
    <2> QED  BY <2>1, Elements
<1>3. /\ host \in Host \cup {NoHost}
      /\ up \in Link /\ up.dnn = d /\ up.use = "upload"
      /\ up.run = v.result[d].run
      /\ tr \in Link /\ tr.dnn = d /\ tr.use = "transfer"
      /\ tr.run = v.result[d].run
      /\ up.fin < tr.start /\ tr.start < tr.fin
      /\ r \in Result /\ ~r.low /\ r.run = v.result[d].run
      /\ r.src = x.host /\ r.host = host /\ r.deadline = x.deadline
      /\ r.start = 1 + IF host = x.host THEN up.fin ELSE tr.fin
    BY <1>1, <1>2, TryParts
<1>4. w = IF host = NoHost THEN v
          ELSE [link |-> link2,
                DNNS |-> [v.DNNS EXCEPT ![r.host] = Append(@, d)],
                result |-> [v.result EXCEPT ![d] = r],
                taken |-> [v.taken EXCEPT ![host] = @ + 1],
                tried |-> Append(v.tried, d),
                allocated |-> v.allocated]
    BY <1>1, <1>2, TryIs
<1>5. w \in Work
    BY <1>1, <1>2, TryTyped
<1> HIDE DEF up, tr, r, host, w
<1>6. CASE host = NoHost
    BY <1>4, <1>6 DEF w
<1>7. CASE host # NoHost
    <2>1. /\ w.link = link2
          /\ w.DNNS = [v.DNNS EXCEPT ![r.host] = Append(@, d)]
          /\ w.result = [v.result EXCEPT ![d] = r]
          /\ w.tried = Append(v.tried, d) /\ w.allocated = v.allocated
        BY <1>4, <1>7
    <2>2. v.tried \in Seq(Dnn) /\ v.result \in [Dnn -> Result]
        BY <1>1 DEF Work
    <2>3. ToSet(w.tried) = tried \cup {d} /\ Distinct(w.tried)
        BY <1>2, <2>1, <2>2, Appended, AppendedDistinct
    <2>4. d \notin booked /\ d \notin tried
        BY DEF Fresh
    <2>5. Books(w.link, w.DNNS, w.result, booked, tried \cup {d})
        <3>1. Books(v.link, v.DNNS, v.result, booked, tried)
            BY DEF Draft
        <3>2. up.start \in Nat /\ up.fin \in Nat /\ tr.start \in Nat
                /\ tr.fin \in Nat
            BY <1>3 DEF Link
        <3>3. r.host \in Host /\ r.src \in Host
            BY <1>1, <1>3, <1>7
        <3>4. up.fin <= r.start
            BY <1>3, <3>2
        <3>5. Moved(r) => tr.fin < r.start
            BY <1>3, <3>2 DEF Moved
        <3>6. Books(link2, [v.DNNS EXCEPT ![r.host] = Append(@, d)],
                    [v.result EXCEPT ![d] = r], booked, tried \cup {d})
            <4> HIDE DEF booked, tried
            <4> QED  BY <1>2, <1>3, <2>4, <3>1, <3>3, <3>4, <3>5, BooksPlaced
        <3> QED  BY <2>1, <3>6
    <2>6. w.result[d] = r /\ \A e \in Dnn \ {d} : w.result[e] = v.result[e]
        BY <1>2, <2>1, <2>2
    <2>7. w.allocated \cup (tried \cup {d}) \subseteq ToSet(x.dnns)
        BY <2>1 DEF Draft
    <2>8. \A e \in Dnn :
            /\ w.result[e].run = result[e].run
            /\ e \notin ToSet(x.dnns) => w.result[e] = result[e]
        BY <1>3, <2>6 DEF Draft
    <2>9. /\ \A e \in w.allocated \cup (tried \cup {d}) : ~w.result[e].low
          /\ \A e \in tried \cup {d} : w.result[e].deadline = x.deadline
        <3>1. v.allocated \cup tried \subseteq Dnn
            BY <1>2, Elements DEF Draft
        <3> QED  BY <1>3, <2>1, <2>6, <3>1 DEF Draft
    <2>10. Calm(w)
        <3>1. Books(v.link, v.DNNS, v.result, booked, tried)
            BY DEF Draft
        <3>2. w.result \in [Dnn -> Result]
            BY <1>5 DEF Work
        <3>3. ASSUME NEW h \in Host, Crowded(w.DNNS[h], w.result)
              PROVE  Crowded(v.DNNS[h], v.result)
            <4>1. /\ v.DNNS[h] \in Seq(Dnn) /\ Distinct(v.DNNS[h])
                  /\ ToSet(v.DNNS[h]) \subseteq Dnn /\ d \notin ToSet(v.DNNS[h])
                <5>1. v.DNNS \in [Host -> Seq(Dnn)]
                    BY <1>1 DEF Work
                <5> HIDE DEF booked, tried
                <5> QED  BY <2>4, <3>1, <5>1, Elements DEF Books, DeviceBook
            <4>2. CASE h = r.host
                <5>1. PICK a \in Nat, b \in Nat :
                        /\ a <= r.start /\ r.start <= r.fin /\ r.fin <= b
                        /\ CoreUsage(v.DNNS[r.host], v.result, a, b, {d})
                                + r.cores <= Cores
                    BY <1>1, <1>2, <1>7, TryRoom DEF r, host
                <5>2. w.DNNS[h] = Append(v.DNNS[h], d)
                    <6>1. v.DNNS \in [Host -> Seq(Dnn)]
                        BY <1>1 DEF Work
                    <6> QED  BY <2>1, <4>2, <6>1
                <5>3. Crowded(Append(v.DNNS[h], d), [v.result EXCEPT ![d] = r])
                    BY <2>1, <3>3, <5>2
                <5> QED  BY <1>2, <1>3, <2>2, <4>1, <4>2, <5>1, <5>3,
                            CrowdedJoined
            <4>3. CASE h # r.host
                <5>1. w.DNNS[h] = v.DNNS[h]
                    <6>1. v.DNNS \in [Host -> Seq(Dnn)]
                        BY <1>1 DEF Work
                    <6> QED  BY <2>1, <4>3, <6>1
                <5>2. \A e \in ToSet(v.DNNS[h]) : w.result[e] = v.result[e]
                    BY <2>6, <4>1
                <5> QED  BY <2>2, <3>2, <3>3, <4>1, <5>1, <5>2, CrowdedAlike
            <4> QED  BY <4>2, <4>3
        <3> QED  BY <3>3 DEF Draft, Calm
    <2>11. Draft(w, x, ToSet(w.tried))
        BY <1>5, <2>1, <2>3, <2>5, <2>7, <2>8, <2>9, <2>10 DEF Draft
    <2> QED  BY <2>1, <2>3, <2>11 DEF w
<1> QED  BY <1>6, <1>7

\* The result of a DNN in the fast configuration.
Fast(r) == [low |-> r.low, src |-> r.src, host |-> r.host, start |-> r.start,
            fin |-> r.start + FtpHighTime, cores |-> FtpHighCore,
            deadline |-> r.deadline, run |-> r.run]

\* SpeedUp changes nothing, or gives the DNN the fast configuration.
LEMMA SpeedUpIs ==
    ASSUME NEW v \in Work, NEW d \in Dnn
    PROVE  /\ Fast(v.result[d]) \in Result
           /\ \/ SpeedUp(v, d) = v
              \/ SpeedUp(v, d) =
                    [link |-> v.link, DNNS |-> v.DNNS,
                     result |-> [v.result EXCEPT ![d] = Fast(v.result[d])],
                     taken |-> v.taken, tried |-> v.tried,
                     allocated |-> v.allocated]
<1> DEFINE r == v.result[d]
           fin == r.start + FtpHighTime
           new == [v EXCEPT !.result[d].cores = FtpHighCore,
                            !.result[d].fin = fin]
           fast == Fast(r)
<1>1. r \in Result /\ v.result \in [Dnn -> Result]
    BY DEF Work
<1>2. fast \in Result
    BY <1>1, AllocationAssumption DEF Result, Fast
<1>3. SpeedUp(v, d) = v \/ SpeedUp(v, d) = new
    BY DEF SpeedUp
<1>4. [r EXCEPT !.cores = FtpHighCore, !.fin = fin] = fast
    <2>1. [r EXCEPT !.cores = FtpHighCore, !.fin = fin] \in
            [low : {r.low}, src : {r.src}, host : {r.host}, start : {r.start},
             fin : {fin}, cores : {FtpHighCore}, deadline : {r.deadline},
             run : {r.run}]
        BY <1>1 DEF Result
    <2> HIDE DEF r
    <2> DEFINE q == [r EXCEPT !.cores = FtpHighCore, !.fin = fin]
    <2>2. q \in
            [low : {r.low}, src : {r.src}, host : {r.host}, start : {r.start},
             fin : {fin}, cores : {FtpHighCore}, deadline : {r.deadline},
             run : {r.run}]
        BY <2>1
    <2> HIDE DEF q
    <2>3. q = fast
        BY <2>2 DEF Fast
    <2> QED  BY <2>3 DEF q
<1>5. new = [link |-> v.link, DNNS |-> v.DNNS,
             result |-> [v.result EXCEPT ![d] = fast],
             taken |-> v.taken, tried |-> v.tried, allocated |-> v.allocated]
    <2>1. new \in [link : {v.link}, DNNS : {v.DNNS},
                   result : {[v.result EXCEPT
                                ![d] = [r EXCEPT !.cores = FtpHighCore,
                                                 !.fin = fin]]},
                   taken : {v.taken}, tried : {v.tried},
                   allocated : {v.allocated}]
        BY DEF Work
    <2> HIDE DEF new, fast, r
    <2>2. new \in [link : {v.link}, DNNS : {v.DNNS},
                   result : {[v.result EXCEPT ![d] = fast]},
                   taken : {v.taken}, tried : {v.tried},
                   allocated : {v.allocated}]
        BY <1>4, <2>1
    <2> QED  BY <2>2
<1> HIDE DEF new
<1> QED  BY <1>2, <1>3, <1>5

\* SpeedUp changes something only if there is room for it.
LEMMA SpeedUpRoom ==
    ASSUME NEW v, NEW d, SpeedUp(v, d) # v
    PROVE  LET r == Fast(v.result[d])
           IN  CoreUsage(v.DNNS[r.host], v.result, r.start, r.fin, {d})
                    + r.cores <= Cores
BY DEF SpeedUp, Fast, Usage

\* The faster configuration of a tried DNN leaves the books in order: it has
\* no update on the link yet that could start too early.
LEMMA SpeedUpKeeps ==
    ASSUME NEW x, NEW v, NEW tried, Draft(v, x, tried), Fresh(x),
           NEW d \in tried
    PROVE  LET w == SpeedUp(v, d)
           IN  /\ Draft(w, x, tried)
               /\ w.tried = v.tried /\ w.allocated = v.allocated
<1> DEFINE w == SpeedUp(v, d)
           r == v.result[d]
           booked == off_total \cup v.allocated
<1>1. v \in Work
    BY DEF Draft
<1>2. Books(v.link, v.DNNS, v.result, booked, tried)
    BY DEF Draft
<1>3. d \in Dnn /\ tried \subseteq Dnn /\ booked \subseteq Dnn
    BY <1>2 DEF Books
<1>4. /\ Fast(r) \in Result
      /\ \/ w = v
         \/ w = [link |-> v.link, DNNS |-> v.DNNS,
                 result |-> [v.result EXCEPT ![d] = Fast(r)],
                 taken |-> v.taken, tried |-> v.tried,
                 allocated |-> v.allocated]
    BY <1>1, <1>3, SpeedUpIs
<1> HIDE DEF w
<1>5. CASE w = v
    BY <1>5 DEF w
<1>6. CASE w # v
    <2>1. /\ w.link = v.link /\ w.DNNS = v.DNNS /\ w.tried = v.tried
          /\ w.allocated = v.allocated
          /\ w.result = [v.result EXCEPT ![d] = Fast(r)]
        BY <1>4, <1>6
    <2>2. v.result \in [Dnn -> Result]
        BY <1>1 DEF Work
    <2>3. /\ Fast(r).run = r.run /\ Fast(r).start = r.start
          /\ Fast(r).src = r.src /\ Fast(r).host = r.host
          /\ Fast(r).low = r.low /\ Fast(r).deadline = r.deadline
        BY DEF Fast
    <2>4. Books(w.link, w.DNNS, w.result, booked, tried)
        <3> HIDE DEF booked
        <3>1. Books(v.link, v.DNNS, [v.result EXCEPT ![d] = Fast(r)],
                    booked, tried)
            BY <1>2, <1>4, <2>3, BooksSped
        <3> QED  BY <2>1, <3>1
    <2>5. /\ w.result[d] = Fast(r)
          /\ \A e \in Dnn \ {d} : w.result[e] = v.result[e]
        BY <1>3, <2>1, <2>2
    <2>6. w \in Work
        <3>1. w.result \in [Dnn -> Result]
            BY <1>4, <2>1, <2>2
        <3> QED  BY <1>1, <1>4, <1>6, <2>1, <3>1 DEF Work
    <2>7. \A e \in Dnn :
            /\ w.result[e].run = v.result[e].run
            /\ w.result[e].low = v.result[e].low
            /\ w.result[e].deadline = v.result[e].deadline
        BY <2>3, <2>5
    <2>8. d \in ToSet(x.dnns) /\ v.allocated \subseteq Dnn
        BY <1>3 DEF Draft
    <2>9. Draft(w, x, tried)
        <3>1. \A e \in Dnn :
                /\ w.result[e].run = result[e].run
                /\ e \notin ToSet(x.dnns) => w.result[e] = result[e]
            BY <2>5, <2>7, <2>8 DEF Draft
        <3>2. /\ \A e \in w.allocated \cup tried : ~w.result[e].low
              /\ \A e \in tried : w.result[e].deadline = x.deadline
            BY <1>3, <2>1, <2>7, <2>8 DEF Draft
        <3>3. w.allocated \cup tried \subseteq ToSet(x.dnns)
            BY <2>1 DEF Draft
        <3>4. Calm(w)
            <4>1. ASSUME NEW h \in Host, Crowded(v.DNNS[h], w.result)
                  PROVE  Crowded(v.DNNS[h], v.result)
                <5>1. /\ v.DNNS[h] \in Seq(Dnn) /\ Distinct(v.DNNS[h])
                      /\ ToSet(v.DNNS[h]) \subseteq Dnn
                    <6>1. v.DNNS \in [Host -> Seq(Dnn)]
                        BY <1>1 DEF Work
                    <6> QED  BY <1>2, <6>1, Elements DEF Books, DeviceBook
                <5>2. CASE d \in ToSet(v.DNNS[h])
                    <6>1. r.host = h
                        BY <1>2, <5>2 DEF Books, DeviceBook
                    <6>2. CoreUsage(v.DNNS[h], v.result, Fast(r).start,
                                    Fast(r).fin, {d}) + Fast(r).cores <= Cores
                        <7>1. SpeedUp(v, d) # v
                            BY <1>6 DEF w
                        <7>2. CoreUsage(v.DNNS[Fast(r).host], v.result,
                                        Fast(r).start, Fast(r).fin, {d})
                                + Fast(r).cores <= Cores
                            BY <7>1, SpeedUpRoom
                        <7>3. Fast(r).host = h
                            BY <2>3, <6>1
                        <7> HIDE DEF r
                        <7> QED  BY <7>2, <7>3
                    <6>3. Crowded(v.DNNS[h], [v.result EXCEPT ![d] = Fast(r)])
                        BY <2>1, <4>1
                    <6>4. Fast(r).start = v.result[d].start
                        BY <2>3
                    <6> QED  BY <1>4, <2>2, <5>1, <5>2, <6>2, <6>3, <6>4,
                                CrowdedSped
                <5>3. CASE d \notin ToSet(v.DNNS[h])
                    <6>1. \A e \in ToSet(v.DNNS[h]) : w.result[e] = v.result[e]
                        BY <2>5, <5>1, <5>3
                    <6>2. w.result \in [Dnn -> Result]
                        BY <2>6 DEF Work
                    <6> QED  BY <2>2, <4>1, <5>1, <6>1, <6>2, CrowdedAlike
                <5> QED  BY <5>2, <5>3
            <4> QED  BY <2>1, <4>1 DEF Draft, Calm
        <3> QED  BY <2>1, <2>4, <2>6, <3>1, <3>2, <3>3, <3>4 DEF Draft
    <2> QED  BY <2>1, <2>9 DEF w
<1> QED  BY <1>5, <1>6

\* A DNN that would be late gives up its place.
LEMMA WithdrawKeeps ==
    ASSUME NEW x, NEW v, NEW tried, Draft(v, x, tried), Fresh(x),
           NEW d \in tried
    PROVE  LET w == Withdraw(v, d)
           IN  /\ Draft(w, x, tried \ {d})
               /\ w.tried = v.tried /\ w.allocated = v.allocated
<1> DEFINE w == Withdraw(v, d)
           r == v.result[d]
           booked == off_total \cup v.allocated
           link2 == Prune(v.link, d, r.run, TriedLinks(r))
           dnns2 == [v.DNNS EXCEPT ![r.host] = Without(@, d)]
<1>1. v \in Work
    BY DEF Draft
<1>2. Books(v.link, v.DNNS, v.result, booked, tried)
    BY DEF Draft
<1>3. d \in Dnn /\ d \notin booked
    BY <1>2 DEF Books
<1>4. w = [link |-> link2, DNNS |-> dnns2, result |-> v.result,
           taken |-> v.taken, tried |-> v.tried, allocated |-> v.allocated]
    <2>1. w = [v EXCEPT !.link = link2, !.DNNS[r.host] = Without(@, d)]
        BY DEF Withdraw
    <2> DEFINE new == [v EXCEPT !.link = link2, !.DNNS[r.host] = Without(@, d)]
    <2>2. new \in [link : {link2}, DNNS : {dnns2}, result : {v.result},
                   taken : {v.taken}, tried : {v.tried},
                   allocated : {v.allocated}]
        <3> HIDE DEF link2
        <3> QED  BY <1>1 DEF Work
    <2> HIDE DEF new, link2, dnns2, w
    <2>3. new = [link |-> link2, DNNS |-> dnns2, result |-> v.result,
           taken |-> v.taken, tried |-> v.tried, allocated |-> v.allocated]
        BY <2>2
    <2> QED  BY <2>1, <2>3 DEF new
<1>5. Books(link2, dnns2, v.result, booked \ {d}, tried \ {d})
    <2>1. ~r.low
        BY DEF Draft
    <2>2. Due(v.result, booked, tried)[d] \subseteq TriedLinks(r)
        <3> HIDE DEF booked
        <3> QED  BY <1>3, <2>1 DEF Due, Uses, TriedLinks, Moved
    <2> HIDE DEF booked
    <2> QED  BY <1>2, <2>2, BooksDropped
<1>6. booked \ {d} = booked
    BY <1>3
<1> HIDE DEF link2, dnns2, w
<1>7. w \in Work
    <2>1. link2 \in Seq(Link) /\ dnns2 \in [Host -> Seq(Dnn)]
        BY <1>5 DEF Books, BookTypes
    <2> QED  BY <1>1, <1>4, <2>1 DEF Work
<1>8. Draft(w, x, tried \ {d})
    <2>1. Books(w.link, w.DNNS, w.result, off_total \cup w.allocated, tried \ {d})
        BY <1>4, <1>5, <1>6
    <2>2. Calm(w)
        <3>1. ASSUME NEW h \in Host, Crowded(w.DNNS[h], v.result)
              PROVE  Crowded(v.DNNS[h], v.result)
            <4>1. v.DNNS \in [Host -> Seq(Dnn)] /\ v.result \in [Dnn -> Result]
                BY <1>1 DEF Work
            <4>2. w.DNNS[h] = IF h = r.host THEN Keep(v.DNNS[h], Dnn \ {d})
                              ELSE v.DNNS[h]
                BY <1>4, <4>1 DEF dnns2, Without
            <4>3. v.DNNS[h] \in Seq(Dnn)
                BY <4>1
            <4> QED  BY <3>1, <4>1, <4>2, <4>3, CrowdedLess
        <3> QED  BY <1>4, <3>1 DEF Draft, Calm
    <2> QED  BY <1>4, <1>7, <2>1, <2>2 DEF Draft
<1> QED  BY <1>4, <1>8 DEF w

\* A DNN in time is booked.
LEMMA ConfirmKeeps ==
    ASSUME NEW x, NEW v, NEW tried, Draft(v, x, tried), Fresh(x),
           NEW d \in tried, v.result[d].fin <= x.deadline
    PROVE  LET w == Confirm(v, d)
           IN  /\ Draft(w, x, tried \ {d})
               /\ w.tried = v.tried /\ w.allocated = v.allocated \cup {d}
<1> DEFINE w == Confirm(v, d)
           r == v.result[d]
           booked == off_total \cup v.allocated
           s == FindLinkSlot(r.fin + 1, Duration["high_update"], v.link)
           l == Transfer(d, "update", r.run, s)
<1>1. /\ v \in Work /\ v.link \in Seq(Link) /\ v.result \in [Dnn -> Result]
      /\ v.allocated \in SUBSET Dnn
    BY DEF Draft, Work
<1>2. Books(v.link, v.DNNS, v.result, booked, tried)
    BY DEF Draft
<1>3. d \in Dnn /\ d \notin booked
    BY <1>2 DEF Books
<1>4. r.fin \in Nat /\ r.run \in Nat
    BY <1>1, <1>3 DEF Result
<1>5. s.start \in Nat /\ s.fin \in Nat /\ r.fin < s.start
    <2>1. r.fin + 1 \in Nat
        BY <1>4
    <2>2. s.start \in Nat /\ s.fin \in Nat /\ r.fin + 1 <= s.start
        BY <1>1, <2>1, SlotFound
    <2> HIDE DEF s
    <2> QED  BY <1>4, <2>2
<1>6. w = [v EXCEPT !.link = Append(@, l), !.allocated = @ \cup {d}]
    BY DEF Confirm
<1> HIDE DEF s
<1>7. l \in Link /\ l.dnn = d /\ l.run = r.run /\ l.use = "update"
        /\ r.fin < l.start
    BY <1>3, <1>4, <1>5 DEF Transfer, Link, Uses
<1> HIDE DEF l, w
<1>8. w = [link |-> Append(v.link, l), DNNS |-> v.DNNS, result |-> v.result,
           taken |-> v.taken, tried |-> v.tried,
           allocated |-> v.allocated \cup {d}]
    <2> DEFINE new == [v EXCEPT !.link = Append(@, l), !.allocated = @ \cup {d}]
    <2>1. new \in [link : {Append(v.link, l)}, DNNS : {v.DNNS},
                   result : {v.result}, taken : {v.taken}, tried : {v.tried},
                   allocated : {v.allocated \cup {d}}]
        BY <1>1 DEF Work
    <2> HIDE DEF new
    <2>2. new = [link |-> Append(v.link, l), DNNS |-> v.DNNS,
                 result |-> v.result, taken |-> v.taken, tried |-> v.tried,
                 allocated |-> v.allocated \cup {d}]
        BY <2>1
    <2> QED  BY <1>6, <2>2 DEF new
<1>9. Books(w.link, w.DNNS, w.result, off_total \cup w.allocated, tried \ {d})
    <2>1. ~r.low => r.fin <= r.deadline
        BY DEF Draft
    <2>2. Books(Append(v.link, l), v.DNNS, v.result, booked \cup {d}, tried \ {d})
        <3> HIDE DEF booked
        <3> QED  BY <1>2, <1>7, <2>1, BooksConfirmed
    <2>3. off_total \cup w.allocated = booked \cup {d}
        BY <1>8
    <2> HIDE DEF booked
    <2> QED  BY <1>8, <2>2, <2>3
<1>10. w \in Work
    <2>1. Append(v.link, l) \in Seq(Link)
        BY <1>1, <1>7, Appended
    <2>2. v.allocated \cup {d} \in SUBSET Dnn
        BY <1>1, <1>3
    <2> QED  BY <1>1, <1>8, <2>1, <2>2 DEF Work
<1>11. Draft(w, x, tried \ {d})
    <2>1. Calm(w)
        BY <1>8 DEF Draft, Calm
    <2> QED  BY <1>8, <1>9, <1>10, <2>1 DEF Draft
<1> QED  BY <1>8, <1>11 DEF w

\* One DNN after the other is settled.
LEMMA SettleKeeps ==
    ASSUME NEW x, NEW v, NEW tried, Draft(v, x, tried), Fresh(x),
           NEW d \in tried
    PROVE  LET w == Settle(v, d, x)
           IN  Draft(w, x, tried \ {d}) /\ w.tried = v.tried
<1> DEFINE u == SpeedUp(v, d)
           w == Settle(v, d, x)
<1>1. Draft(u, x, tried) /\ u.tried = v.tried
    BY SpeedUpKeeps
<1>2. w = IF u.result[d].fin > x.deadline THEN Withdraw(u, d) ELSE Confirm(u, d)
    BY DEF Settle
<1>3. d \in Dnn
    BY DEF Draft, Books
<1>4. u.result[d].fin \in Nat /\ x.deadline \in Nat
    <2>1. u.result \in [Dnn -> Result] /\ x \in Item
        BY <1>1 DEF Draft, Work, Fresh
    <2> HIDE DEF u
    <2> QED  BY <1>3, <2>1 DEF Result, Item
<1> HIDE DEF u, w
<1>5. CASE u.result[d].fin > x.deadline
    <2>1. /\ Draft(Withdraw(u, d), x, tried \ {d})
          /\ Withdraw(u, d).tried = u.tried
        BY <1>1, WithdrawKeeps
    <2> QED  BY <1>1, <1>2, <1>5, <2>1 DEF w
<1>6. CASE ~(u.result[d].fin > x.deadline)
    <2>1. u.result[d].fin <= x.deadline
        BY <1>4, <1>6
    <2>2. /\ Draft(Confirm(u, d), x, tried \ {d})
          /\ Confirm(u, d).tried = u.tried
        BY <1>1, <2>1, ConfirmKeeps
    <2> QED  BY <1>1, <1>2, <1>6, <2>2 DEF w
<1> QED  BY <1>5, <1>6

-----------------------------------------------------------------------------
(* The rounds of a high allocation *)

\* The loop over the DNNs to try.
LEMMA TryLoop ==
    ASSUME NEW v \in Work, NEW x \in Item, x.host \in Host, NEW base \in Nat
    PROVE  /\ Todo(v, x) \in Seq(Dnn)
           /\ \E f \in [0 .. Len(Todo(v, x)) -> Work] :
                /\ f[0] = [v EXCEPT !.taken = NoneTaken, !.tried = <<>>]
                /\ \A i \in 1 .. Len(Todo(v, x)) :
                        f[i] = Try(f[i - 1], Todo(v, x)[i], x, base)
                /\ TryAll(v, x, base) = f[Len(Todo(v, x))]
<1> DEFINE todo == Todo(v, x)
           n == Len(todo)
           b == [v EXCEPT !.taken = NoneTaken, !.tried = <<>>]
           g == [p \in Work \X (1 .. n) |-> Try(p[1], todo[p[2]], x, base)]
<1>1. todo \in Seq(Dnn)
    <2>1. x.dnns \in Seq(Dnn)
        BY DEF Item
    <2> QED  BY <2>1, Kept DEF Todo
<1> HIDE DEF todo
<1>2. n \in Nat /\ \A i \in 1 .. n : todo[i] \in Dnn
    BY <1>1, Elements
<1>3. b \in Work
    <2>1. NoneTaken \in [Host -> Nat] /\ <<>> \in Seq(Dnn)
        BY EmptySeq DEF NoneTaken
    <2> QED  BY <2>1 DEF Work
<1>4. \A u \in Work, d \in Dnn : Try(u, d, x, base) \in Work
    BY TryTyped
<1> HIDE DEF b, n
<1>5. g \in [Work \X (1 .. n) -> Work]
    BY <1>2, <1>4
<1> HIDE DEF g
<1>6. PICK f : Loop(f, Work, b, g, n)
    BY <1>2, <1>3, <1>5, LoopExists
<1>7. f = [i \in 0 .. n |-> IF i = 0 THEN b ELSE Try(f[i - 1], todo[i], x, base)]
    <2>1. \A i \in 1 .. n : f[i] = Try(f[i - 1], todo[i], x, base)
        <3> TAKE i \in 1 .. n
        <3>1. f[i - 1] \in Work
            BY <1>2, <1>6 DEF Loop
        <3>2. f[i] = g[<<f[i - 1], i>>]
            BY <1>6 DEF Loop
        <3>3. <<f[i - 1], i>> \in Work \X (1 .. n)
            BY <3>1
        <3> QED  BY <3>2, <3>3 DEF g
    <2>2. \A i \in 0 .. n :
            f[i] = IF i = 0 THEN b ELSE Try(f[i - 1], todo[i], x, base)
        <3>1. \A i \in 0 .. n : i = 0 \/ i \in 1 .. n
            BY <1>2
        <3> QED  BY <1>6, <2>1, <3>1 DEF Loop
    <2>3. f = [i \in 0 .. n |-> f[i]]
        BY <1>6 DEF Loop
    <2> QED  BY <2>2, <2>3, Zenon
<1> DEFINE F == CHOOSE h : h = [i \in 0 .. n |->
                    IF i = 0 THEN b ELSE Try(h[i - 1], todo[i], x, base)]
<1>8. F = [i \in 0 .. n |-> IF i = 0 THEN b ELSE Try(F[i - 1], todo[i], x, base)]
    BY <1>7, Zenon
<1>9. TryAll(v, x, base) = F[n]
    BY DEF TryAll, n, b, todo
<1> HIDE DEF F
<1>10. F[0] = b /\ \A i \in 1 .. n : F[i] = Try(F[i - 1], todo[i], x, base)
    BY <1>2, <1>8
<1> DEFINE G == {i \in 0 .. n : F[i] \in Work}
<1>11. \A i \in 0 .. n : i \in G
    <2>1. 0 \in G
        BY <1>2, <1>3, <1>10
    <2>2. \A i \in 1 .. n : i - 1 \in G => i \in G
        BY <1>2, <1>4, <1>10
    <2> HIDE DEF G
    <2> QED  BY <1>2, <2>1, <2>2, UpTo
<1>12. F \in [0 .. n -> Work]
    BY <1>8, <1>11
<1> QED  BY <1>1, <1>9, <1>10, <1>12 DEF n, b, todo

\* Every DNN that found a device in the first loop is in the books as tried.
LEMMA TriedAll ==
    ASSUME NEW x, Fresh(x), NEW base \in Nat, NEW v, Draft(v, x, {})
    PROVE  LET w == TryAll(v, x, base)
           IN  Draft(w, x, ToSet(w.tried)) /\ Distinct(w.tried)
<1> DEFINE todo == Todo(v, x)
           n == Len(todo)
           b == [v EXCEPT !.taken = NoneTaken, !.tried = <<>>]
<1>1. v \in Work /\ x \in Item /\ x.host \in Host /\ Distinct(x.dnns)
    BY DEF Draft, Fresh
<1>2. todo \in Seq(Dnn)
    BY <1>1, TryLoop
<1>3. PICK f \in [0 .. n -> Work] :
            /\ f[0] = b
            /\ \A i \in 1 .. n : f[i] = Try(f[i - 1], todo[i], x, base)
            /\ TryAll(v, x, base) = f[n]
    BY <1>1, TryLoop
<1>4. Distinct(todo) /\ ToSet(todo) = ToSet(x.dnns) \cap (Dnn \ v.allocated)
    <2>1. x.dnns \in Seq(Dnn)
        BY <1>1 DEF Item
    <2> QED  BY <1>1, <2>1, Kept, KeptDistinct DEF Todo
<1> HIDE DEF todo
<1>5. n \in Nat /\ \A i \in 1 .. n : todo[i] \in ToSet(todo)
    BY <1>2, Elements
<1> HIDE DEF n
<1> DEFINE Good(i) == /\ Draft(f[i], x, ToSet(f[i].tried))
                      /\ Distinct(f[i].tried)
                      /\ f[i].allocated = v.allocated
                      /\ \A d \in ToSet(f[i].tried) :
                            \E j \in 1 .. i : d = todo[j]
           G == {i \in 0 .. n : Good(i)}
<1>6. Good(0)
    <2>1. /\ b.link = v.link /\ b.DNNS = v.DNNS /\ b.result = v.result
          /\ b.allocated = v.allocated /\ b.tried = <<>>
        BY <1>1 DEF Work
    <2>2. b \in Work
        BY <1>3, <1>5
    <2> HIDE DEF b
    <2>3. ToSet(b.tried) = {} /\ Distinct(b.tried)
        BY <2>1 DEF ToSet, Distinct
    <2>4. Draft(b, x, {})
        <3>1. Calm(b)
            BY <2>1 DEF Draft, Calm
        <3> QED  BY <2>1, <2>2, <3>1 DEF Draft
    <2> QED  BY <1>3, <2>1, <2>3, <2>4
<1>7. ASSUME NEW i \in 1 .. n, Good(i - 1)  PROVE Good(i)
    <2> DEFINE u == f[i - 1]
               d == todo[i]
    <2>1. /\ Draft(u, x, ToSet(u.tried)) /\ Distinct(u.tried)
          /\ u.allocated = v.allocated
          /\ \A e \in ToSet(u.tried) : \E j \in 1 .. i - 1 : e = todo[j]
        BY <1>7
    <2>2. d \notin ToSet(u.tried)
        <3>1. \A j \in 1 .. i - 1 : j \in 1 .. n /\ j < i
            BY <1>5
        <3>2. \A j \in 1 .. i - 1 : todo[j] # d
            BY <1>4, <1>5, <3>1 DEF Distinct, n
        <3> QED  BY <2>1, <3>2
    <2>3. d \in ToSet(x.dnns) \ (u.allocated \cup ToSet(u.tried))
        BY <1>4, <1>5, <2>1, <2>2
    <2>4. f[i] = Try(u, d, x, base)
        BY <1>3
    <2> HIDE DEF u, d
    <2> DEFINE w == Try(u, d, x, base)
    <2>5. /\ Draft(w, x, ToSet(w.tried)) /\ Distinct(w.tried)
          /\ w.allocated = u.allocated
          /\ ToSet(w.tried) \subseteq ToSet(u.tried) \cup {d}
        BY <2>1, <2>3, TryKeeps
    <2> HIDE DEF w
    <2>6. \A e \in ToSet(w.tried) : \E j \in 1 .. i : e = todo[j]
        <3>1. i \in 1 .. i /\ \A j \in 1 .. i - 1 : j \in 1 .. i
            BY <1>5
        <3>2. d = todo[i]
            BY DEF d
        <3> QED  BY <2>1, <2>5, <3>1, <3>2
    <2>7. f[i] = w
        BY <2>4 DEF w
    <2> QED  BY <2>1, <2>5, <2>6, <2>7
<1>8. \A i \in 0 .. n : i \in G
    <2>1. 0 \in G
        BY <1>5, <1>6
    <2>2. \A i \in 1 .. n : i - 1 \in G => i \in G
        <3> HIDE DEF Good
        <3> QED  BY <1>5, <1>7
    <2> HIDE DEF G
    <2> QED  BY <1>5, <2>1, <2>2, UpTo
<1>9. Good(n)
    <2> HIDE DEF Good
    <2> QED  BY <1>5, <1>8
<1> QED  BY <1>3, <1>9

\* Settling leaves a local state, whatever it started from.
LEMMA SettleTyped ==
    ASSUME NEW v \in Work, NEW d \in Dnn, NEW x
    PROVE  Settle(v, d, x) \in Work
<1> DEFINE u == SpeedUp(v, d)
           r == u.result[d]
           link2 == Prune(u.link, d, r.run, TriedLinks(r))
           out == Withdraw(u, d)
           s == FindLinkSlot(r.fin + 1, Duration["high_update"], u.link)
           l == Transfer(d, "update", r.run, s)
           in == Confirm(u, d)
<1>1. u \in Work
    <2>1. Fast(v.result[d]) \in Result /\ v.result \in [Dnn -> Result]
        BY SpeedUpIs DEF Work
    <2>2. [v.result EXCEPT ![d] = Fast(v.result[d])] \in [Dnn -> Result]
        BY <2>1
    <2>3. CASE u = v
        BY <2>3
    <2>4. CASE u # v
        <3>1. u = [link |-> v.link, DNNS |-> v.DNNS,
                   result |-> [v.result EXCEPT ![d] = Fast(v.result[d])],
                   taken |-> v.taken, tried |-> v.tried,
                   allocated |-> v.allocated]
            BY <2>4, SpeedUpIs
        <3> QED  BY <2>2, <3>1 DEF Work
    <2> QED  BY <2>3, <2>4
<1>2. Settle(v, d, x) = out \/ Settle(v, d, x) = in
    BY DEF Settle
<1> HIDE DEF u
<1>3. /\ u.link \in Seq(Link) /\ u.DNNS \in [Host -> Seq(Dnn)]
      /\ u.result[d] \in Result
    BY <1>1 DEF Work
<1>4. out \in Work
    <2>1. link2 \in Seq(Link)
        BY <1>3, Kept DEF Prune
    <2>2. out = [u EXCEPT !.link = link2, !.DNNS[r.host] = Without(@, d)]
        BY DEF Withdraw
    <2>3. [u.DNNS EXCEPT ![r.host] = Without(@, d)] \in [Host -> Seq(Dnn)]
        <3> DEFINE dnns == u.DNNS
                   h == r.host
        <3>1. dnns \in [Host -> Seq(Dnn)]
            BY <1>3
        <3> HIDE DEF dnns, h
        <3>2. ASSUME NEW g \in Host
              PROVE  (IF g = h THEN Without(dnns[h], d) ELSE dnns[g])
                        \in Seq(Dnn)
            BY <3>1, Kept DEF Without
        <3>3. [dnns EXCEPT ![h] = Without(@, d)] =
                [g \in Host |-> IF g = h THEN Without(dnns[h], d) ELSE dnns[g]]
            BY <3>1
        <3>4. [dnns EXCEPT ![h] = Without(@, d)] \in [Host -> Seq(Dnn)]
            BY <3>2, <3>3
        <3> QED  BY <3>4 DEF dnns, h
    <2>4. out \in [link : {link2},
                   DNNS : {[u.DNNS EXCEPT ![r.host] = Without(@, d)]},
                   result : {u.result}, taken : {u.taken}, tried : {u.tried},
                   allocated : {u.allocated}]
        <3> HIDE DEF link2, out
        <3> QED  BY <1>1, <2>2 DEF Work
    <2> HIDE DEF link2, out, r
    <2> QED  BY <1>1, <2>1, <2>3, <2>4 DEF Work
<1>5. in \in Work
    <2>1. r.fin + 1 \in Nat /\ r.run \in Nat
        BY <1>3 DEF Result
    <2>2. s.start \in Nat /\ s.fin \in Nat
        BY <1>3, <2>1, SlotFound
    <2> HIDE DEF s
    <2>3. l \in Link
        BY <2>1, <2>2 DEF Transfer, Link, Uses
    <2>4. in = [u EXCEPT !.link = Append(@, l), !.allocated = @ \cup {d}]
        BY DEF Confirm, s
    <2> HIDE DEF l, in
    <2>5. Append(u.link, l) \in Seq(Link)
        BY <1>3, <2>3, Appended
    <2>6. in \in [link : {Append(u.link, l)}, DNNS : {u.DNNS},
                  result : {u.result}, taken : {u.taken}, tried : {u.tried},
                  allocated : {u.allocated \cup {d}}]
        BY <1>1, <2>4 DEF Work
    <2>7. u.allocated \cup {d} \in SUBSET Dnn
        BY <1>1 DEF Work
    <2> QED  BY <1>1, <2>5, <2>6, <2>7 DEF Work
<1> QED  BY <1>2, <1>4, <1>5

\* The loop over the DNNs to settle.
LEMMA SettleLoop ==
    ASSUME NEW v \in Work, NEW x
    PROVE  \E f \in [0 .. Len(v.tried) -> Work] :
                /\ f[0] = v
                /\ \A i \in 1 .. Len(v.tried) :
                        f[i] = Settle(f[i - 1], v.tried[i], x)
                /\ SettleAll(v, x) = f[Len(v.tried)]
<1> DEFINE todo == v.tried
           n == Len(todo)
           g == [p \in Work \X (1 .. n) |-> Settle(p[1], todo[p[2]], x)]
<1>1. todo \in Seq(Dnn)
    BY DEF Work
<1> HIDE DEF todo
<1>2. n \in Nat /\ \A i \in 1 .. n : todo[i] \in Dnn
    BY <1>1, Elements
<1>3. \A u \in Work, d \in Dnn : Settle(u, d, x) \in Work
    BY SettleTyped
<1> HIDE DEF n
<1>4. g \in [Work \X (1 .. n) -> Work]
    BY <1>2, <1>3
<1> HIDE DEF g
<1>5. PICK f : Loop(f, Work, v, g, n)
    BY <1>2, <1>4, LoopExists
<1>6. f = [i \in 0 .. n |-> IF i = 0 THEN v ELSE Settle(f[i - 1], todo[i], x)]
    <2>1. \A i \in 1 .. n : f[i] = Settle(f[i - 1], todo[i], x)
        <3> TAKE i \in 1 .. n
        <3>1. f[i - 1] \in Work
            BY <1>2, <1>5 DEF Loop
        <3>2. f[i] = g[<<f[i - 1], i>>]
            BY <1>5 DEF Loop
        <3>3. <<f[i - 1], i>> \in Work \X (1 .. n)
            BY <3>1
        <3> QED  BY <3>2, <3>3 DEF g
    <2>2. \A i \in 0 .. n :
            f[i] = IF i = 0 THEN v ELSE Settle(f[i - 1], todo[i], x)
        <3>1. \A i \in 0 .. n : i = 0 \/ i \in 1 .. n
            BY <1>2
        <3> QED  BY <1>5, <2>1, <3>1 DEF Loop
    <2>3. f = [i \in 0 .. n |-> f[i]]
        BY <1>5 DEF Loop
    <2> QED  BY <2>2, <2>3, Zenon
<1> DEFINE F == CHOOSE h : h = [i \in 0 .. n |->
                    IF i = 0 THEN v ELSE Settle(h[i - 1], todo[i], x)]
<1>7. F = [i \in 0 .. n |-> IF i = 0 THEN v ELSE Settle(F[i - 1], todo[i], x)]
    BY <1>6, Zenon
<1>8. SettleAll(v, x) = F[n]
    BY DEF SettleAll, n, todo
<1> HIDE DEF F
<1>9. F[0] = v /\ \A i \in 1 .. n : F[i] = Settle(F[i - 1], todo[i], x)
    BY <1>2, <1>7
<1> DEFINE G == {i \in 0 .. n : F[i] \in Work}
<1>10. \A i \in 0 .. n : i \in G
    <2>1. 0 \in G
        BY <1>2, <1>9
    <2>2. \A i \in 1 .. n : i - 1 \in G => i \in G
        BY <1>2, <1>3, <1>9
    <2> HIDE DEF G
    <2> QED  BY <1>2, <2>1, <2>2, UpTo
<1>11. F \in [0 .. n -> Work]
    BY <1>7, <1>10
<1> QED  BY <1>8, <1>9, <1>11 DEF n, todo

\* After the second loop each tried DNN is booked or has lost its place.
LEMMA SettledAll ==
    ASSUME NEW x, Fresh(x), NEW v, Draft(v, x, ToSet(v.tried)),
           Distinct(v.tried)
    PROVE  Draft(SettleAll(v, x), x, {})
<1> DEFINE todo == v.tried
           n == Len(todo)
           Left(i) == {todo[j] : j \in i + 1 .. n}
<1>1. v \in Work
    BY DEF Draft
<1>2. todo \in Seq(Dnn)
    BY <1>1 DEF Work
<1>3. PICK f \in [0 .. n -> Work] :
            /\ f[0] = v
            /\ \A i \in 1 .. n : f[i] = Settle(f[i - 1], todo[i], x)
            /\ SettleAll(v, x) = f[n]
    BY <1>1, SettleLoop
<1>4. Distinct(todo)
    OBVIOUS
<1>5. Draft(v, x, ToSet(todo))
    OBVIOUS
<1> HIDE DEF todo
<1>6. /\ n \in Nat /\ \A i \in 1 .. n : todo[i] \in ToSet(todo)
      /\ \A d \in ToSet(todo) : \E i \in 1 .. n : d = todo[i]
    BY <1>2, Elements
<1>7. \A i, j \in 1 .. n : i < j => todo[i] # todo[j]
    BY <1>4 DEF Distinct
<1> HIDE DEF n
<1>8. Left(0) = ToSet(todo) /\ Left(n) = {}
    BY <1>6
<1>9. ASSUME NEW i \in 1 .. n
      PROVE  todo[i] \in Left(i - 1) /\ Left(i) = Left(i - 1) \ {todo[i]}
    <2>1. i \in (i - 1) + 1 .. n
        BY <1>6
    <2>2. \A j \in i + 1 .. n : j \in (i - 1) + 1 .. n /\ j \in 1 .. n /\ i < j
        BY <1>6
    <2>3. \A j \in (i - 1) + 1 .. n : j = i \/ j \in i + 1 .. n
        BY <1>6
    <2> QED  BY <1>7, <2>1, <2>2, <2>3
<1> HIDE DEF Left
<1> DEFINE G == {i \in 0 .. n : Draft(f[i], x, Left(i))}
<1>10. \A i \in 0 .. n : i \in G
    <2>1. 0 \in G
        BY <1>3, <1>5, <1>6, <1>8
    <2>2. ASSUME NEW i \in 1 .. n, i - 1 \in G  PROVE i \in G
        <3> DEFINE u == f[i - 1]
                   d == todo[i]
                   tried == Left(i - 1)
        <3>1. Draft(u, x, tried) /\ d \in tried
            BY <1>9, <2>2
        <3>2. f[i] = Settle(u, d, x) /\ Left(i) = tried \ {d}
            BY <1>3, <1>9
        <3> HIDE DEF u, d, tried
        <3>3. Draft(Settle(u, d, x), x, tried \ {d})
            BY <3>1, SettleKeeps
        <3>4. i \in 0 .. n
            BY <1>6
        <3> QED  BY <3>2, <3>3, <3>4
    <2> HIDE DEF G
    <2> QED  BY <1>6, <2>1, <2>2, UpTo
<1>11. Draft(f[n], x, {})
    BY <1>6, <1>8, <1>10
<1> QED  BY <1>3, <1>11

\* A round keeps the types of the local state.
LEMMA RoundTyped ==
    ASSUME NEW v \in Work, NEW x \in Item, x.host \in Host, NEW base \in Nat
    PROVE  Round(v, x, base) \in Work
<1> DEFINE w == TryAll(v, x, base)
<1>1. w \in Work
    <2> DEFINE n == Len(Todo(v, x))
    <2>1. n \in Nat
        BY TryLoop, Elements
    <2>2. PICK f \in [0 .. n -> Work] :
                /\ f[0] = [v EXCEPT !.taken = NoneTaken, !.tried = <<>>]
                /\ \A i \in 1 .. n : f[i] = Try(f[i - 1], Todo(v, x)[i], x, base)
                /\ TryAll(v, x, base) = f[n]
        BY TryLoop
    <2>3. w = f[n]
        BY <2>2
    <2> HIDE DEF w, n
    <2> QED  BY <2>1, <2>3
<1> HIDE DEF w
<1>2. SettleAll(w, x) \in Work
    <2> DEFINE n == Len(w.tried)
    <2>1. n \in Nat
        <3>1. w.tried \in Seq(Dnn)
            BY <1>1 DEF Work
        <3> QED  BY <3>1, Elements
    <2>2. \E f \in [0 .. n -> Work] : SettleAll(w, x) = f[n]
        BY <1>1, SettleLoop
    <2> HIDE DEF n
    <2> QED  BY <2>1, <2>2
<1> QED  BY <1>2 DEF Round, w

\* A round leaves no DNN tried: each is booked or withdrawn.
LEMMA RoundKeeps ==
    ASSUME NEW x, Fresh(x), NEW base \in Nat, NEW v, Draft(v, x, {})
    PROVE  Draft(Round(v, x, base), x, {})
<1> DEFINE w == TryAll(v, x, base)
<1>1. Draft(w, x, ToSet(w.tried)) /\ Distinct(w.tried)
    BY TriedAll
<1> HIDE DEF w
<1>2. Draft(SettleAll(w, x), x, {})
    BY <1>1, SettledAll
<1> QED  BY <1>2 DEF Round, w

\* What the call works out, in however many rounds, is in order: the books
\* after it are those of the DNNs booked before and of the ones it allocates.
LEMMA HighDrafted ==
    ASSUME NEW x, Fresh(x), now \in Nat, IsFiniteSet(off_total),
           Books(network_link, DNNS, result, off_total, {})
    PROVE  Draft(HighAllocation(x), x, {})
<1> DEFINE times == FinishTimes(x)
           n == Len(times)
           g == [p \in Work \X (1 .. n) |-> Round(p[1], x, times[p[2]].fin)]
<1>1. /\ x \in Item /\ x.host \in Host
      /\ network_link \in Seq(Link) /\ DNNS \in [Host -> Seq(Dnn)]
      /\ result \in [Dnn -> Result] /\ off_total \subseteq Dnn
    BY DEF Fresh, Books, BookTypes
<1>2. times \in Seq([fin : Nat])
    BY <1>1, TimesFound
<1> HIDE DEF times
<1>3. n \in Nat /\ \A i \in 1 .. n : times[i].fin \in Nat
    <2>1. Len(times) \in Nat
        BY <1>2, Elements
    <2>2. \A i \in 1 .. Len(times) : times[i] \in [fin : Nat]
        BY <1>2, Elements
    <2> QED  BY <2>1, <2>2 DEF n
<1> HIDE DEF n
<1>4. Unchanged \in Work
    <2>1. NoneTaken \in [Host -> Nat] /\ <<>> \in Seq(Dnn) /\ {} \in SUBSET Dnn
        BY EmptySeq DEF NoneTaken
    <2> QED  BY <1>1, <2>1 DEF Unchanged, Work
<1>5. \A u \in Work, base \in Nat : Round(u, x, base) \in Work
    BY <1>1, RoundTyped
<1>6. g \in [Work \X (1 .. n) -> Work]
    BY <1>3, <1>5
<1> HIDE DEF g
<1>7. PICK f : Loop(f, Work, Unchanged, g, n)
    BY <1>3, <1>4, <1>6, LoopExists
<1>8. f = [i \in 0 .. n |->
            IF i = 0 THEN Unchanged ELSE Round(f[i - 1], x, times[i].fin)]
    <2>1. \A i \in 1 .. n : f[i] = Round(f[i - 1], x, times[i].fin)
        <3> TAKE i \in 1 .. n
        <3>1. f[i - 1] \in Work
            BY <1>3, <1>7 DEF Loop
        <3>2. f[i] = g[<<f[i - 1], i>>]
            BY <1>7 DEF Loop
        <3>3. <<f[i - 1], i>> \in Work \X (1 .. n)
            BY <3>1
        <3> QED  BY <3>2, <3>3 DEF g
    <2>2. \A i \in 0 .. n : f[i] =
            IF i = 0 THEN Unchanged ELSE Round(f[i - 1], x, times[i].fin)
        <3>1. \A i \in 0 .. n : i = 0 \/ i \in 1 .. n
            BY <1>3
        <3> QED  BY <1>7, <2>1, <3>1 DEF Loop
    <2>3. f = [i \in 0 .. n |-> f[i]]
        BY <1>7 DEF Loop
    <2> QED  BY <2>2, <2>3, Zenon
<1> DEFINE F == CHOOSE h : h = [i \in 0 .. n |->
                    IF i = 0 THEN Unchanged
                    ELSE Round(h[i - 1], x, times[i].fin)]
<1>9. F = [i \in 0 .. n |->
            IF i = 0 THEN Unchanged ELSE Round(F[i - 1], x, times[i].fin)]
    BY <1>8, Zenon
<1>10. HighAllocation(x) = F[n]
    BY DEF HighAllocation, n, times
<1> HIDE DEF F
<1>11. /\ F[0] = Unchanged
       /\ \A i \in 1 .. n : F[i] = Round(F[i - 1], x, times[i].fin)
    BY <1>3, <1>9
<1>12. Draft(Unchanged, x, {})
    <2>1. off_total \cup {} = off_total
        OBVIOUS
    <2>2. /\ Unchanged.link = network_link /\ Unchanged.DNNS = DNNS
          /\ Unchanged.result = result /\ Unchanged.allocated = {}
        BY DEF Unchanged
    <2>3. Calm(Unchanged)
        BY <2>2 DEF Calm
    <2> QED  BY <1>4, <2>1, <2>2, <2>3 DEF Draft
<1> DEFINE G == {i \in 0 .. n : Draft(F[i], x, {})}
<1>13. \A i \in 0 .. n : i \in G
    <2>1. 0 \in G
        BY <1>3, <1>11, <1>12
    <2>2. ASSUME NEW i \in 1 .. n, i - 1 \in G  PROVE i \in G
        <3> DEFINE u == F[i - 1]
                   base == times[i].fin
        <3>1. Draft(u, x, {}) /\ base \in Nat
            BY <1>3, <2>2
        <3>2. F[i] = Round(u, x, base)
            BY <1>11
        <3> HIDE DEF u, base
        <3>3. Draft(Round(u, x, base), x, {})
            BY <3>1, RoundKeeps
        <3>4. i \in 0 .. n
            BY <1>3
        <3> QED  BY <3>2, <3>3, <3>4
    <2> HIDE DEF G
    <2> QED  BY <1>3, <2>1, <2>2, UpTo
<1>14. Draft(F[n], x, {})
    BY <1>3, <1>13
<1> QED  BY <1>10, <1>14

-----------------------------------------------------------------------------
(* The inductive invariant *)

Booked == Books(network_link, DNNS, result, off_total, {})

\* The maps hold what is booked, each kind in its own.
MapsInv ==
    /\ off_total = off_low \cup off_high
    /\ \A d \in off_low : result[d].low
    /\ \A d \in off_high : ~result[d].low
    /\ IsFiniteSet(off_total)

\* What waits, and what low workers work on.
ItemInv ==
    /\ \A x \in waiting :
        /\ x.type = "state_update" => \E d \in Dnn : x = UpdateOf(d)
        /\ x.type # "state_update" => x.host \in Host /\ Distinct(x.dnns)
        /\ Low(x) => Len(x.dnns) = 1
    /\ \A x \in active : x.host \in Host /\ Len(x.dnns) = 1

Requests ==
    {x \in waiting : x.type \in {"low_complexity", "high_complexity"}}
        \cup active

\* A DNN asked for is with one request, or booked.
PlaceInv ==
    /\ waiting \cap active = {}
    /\ \A x, y \in Requests : \A d \in ToSet(x.dnns) \cap ToSet(y.dnns) : x = y
    /\ \A x \in Requests : \A d \in ToSet(x.dnns) :
        outcome[d] = "asked" /\ d \notin off_total
    /\ \A d \in off_total : outcome[d] = "asked"
    /\ \A d \in Dnn : outcome[d] = "asked" =>
        d \in off_total \/ \E x \in Requests : d \in ToSet(x.dnns)

\* The plan of a low worker: an upload, the DNN, the update.
PlanOf(d, p, run) ==
    /\ Len(p) = 2
    /\ \A i \in 1 .. 2 : p[i].dnn = d /\ p[i].run = run
    /\ p[1].use = "upload" /\ p[2].use = "update"
    /\ p[1].fin + LowTime < p[2].start

PlanInv ==
    \A x \in active :
        at[Head(x.dnns)] \in {"planned", "placed"} =>
            PlanOf(Head(x.dnns), plan[Head(x.dnns)], result[Head(x.dnns)].run)

\* A DNN that was never halted is reported once, while it is booked.
ReportInv ==
    \A d \in Dnn : result[d].run = 0 =>
        /\ d \in told \/ UpdateOf(d) \in waiting => d \in off_total
        /\ ~(d \in told /\ UpdateOf(d) \in waiting)

AllocationInv ==
    TypeOK /\ Booked /\ MapsInv /\ ItemInv /\ PlaceInv /\ PlanInv /\ ReportInv

-----------------------------------------------------------------------------
(* The steps *)

\* Whoever starts and is not a low worker starts alone.
LEMMA Alone ==
    ASSUME NEW x, Pool!MayStart(x), ~Low(x)
    PROVE  active = {}
BY DEF Pool!MayStart

\* What the one DNN of an item is.
LEMMA TheDnn ==
    ASSUME NEW x \in Item, Len(x.dnns) = 1
    PROVE  /\ Head(x.dnns) \in Dnn /\ ToSet(x.dnns) = {Head(x.dnns)}
           /\ Distinct(x.dnns)
<1>1. x.dnns \in Seq(Dnn)
    BY DEF Item
<1>2. Head(x.dnns) = x.dnns[1] /\ x.dnns[1] \in Dnn
    BY <1>1, Elements
<1>3. ToSet(x.dnns) = {x.dnns[1]}
    <2>1. \A i \in 1 .. Len(x.dnns) : i = 1 /\ x.dnns[i] \in ToSet(x.dnns)
        BY <1>1, Elements
    <2>2. 1 \in 1 .. Len(x.dnns)
        OBVIOUS
    <2>3. \A e \in ToSet(x.dnns) : \E i \in 1 .. Len(x.dnns) : e = x.dnns[i]
        BY <1>1, Elements
    <2> QED  BY <2>1, <2>2, <2>3
<1>4. Distinct(x.dnns)
    BY DEF Distinct
<1> QED  BY <1>2, <1>3, <1>4

\* The work item of a report.
LEMMA UpdateItem ==
    ASSUME NEW d \in Dnn
    PROVE  /\ UpdateOf(d) \in Item /\ UpdateOf(d).type = "state_update"
           /\ UpdateOf(d).dnns = <<d>> /\ Head(UpdateOf(d).dnns) = d
BY DEF UpdateOf, Item, Type

\* The controller starts with empty books.
LEMMA Initially == Init => AllocationInv
<1> SUFFICES ASSUME Init  PROVE AllocationInv
    OBVIOUS
<1> USE DEF Init
<1>1. Blank \in Result /\ Blank.run = 0
    BY DEF Blank, Result
<1>2. TypeOK
    <2>1. <<>> \in Seq(Link) /\ <<>> \in Seq(Dnn)
        BY EmptySeq
    <2> QED  BY <1>1, <2>1, AllocationAssumption DEF TypeOK
<1>3. Booked
    <2>1. DeviceBook(DNNS, result, {})
        <3>1. ToSet(<<>>) = {}
            BY DEF ToSet
        <3>2. Distinct(<<>>)
            BY DEF Distinct
        <3> QED  BY <3>1, <3>2 DEF DeviceBook
    <2>2. LinkBook(network_link, result, Due(result, {}, {}))
        <3>1. ToSet(<<>>) = {}
            BY DEF ToSet
        <3>2. \A d \in Dnn : Due(result, {}, {})[d] = {}
            BY DEF Due
        <3>3. DistinctNames(<<>>)
            BY DEF DistinctNames
        <3> QED  BY <3>1, <3>2, <3>3 DEF LinkBook
    <2>3. BookTypes(network_link, DNNS, result)
        BY <1>2 DEF TypeOK, BookTypes
    <2>4. ResultBook(result, {}, {})
        BY DEF ResultBook
    <2>5. {} \cup {} = {} /\ off_total = {}
        OBVIOUS
    <2> QED  BY <2>1, <2>2, <2>3, <2>4, <2>5 DEF Booked, Books
<1>4. MapsInv
    BY FS_EmptySet DEF MapsInv
<1>5. ItemInv /\ PlaceInv /\ PlanInv /\ ReportInv
    BY DEF ItemInv, PlaceInv, PlanInv, ReportInv, Requests
<1> QED  BY <1>2, <1>3, <1>4, <1>5 DEF AllocationInv

\* A booked state stays booked when the resources do not change.
LEMMA StillBooked ==
    ASSUME Booked, UNCHANGED resources
    PROVE  Booked'
BY DEF Booked, resources

\* The clock moves: everything was planned for times, not for the clock.
LEMMA TickStep ==
    ASSUME AllocationInv, Tick
    PROVE  AllocationInv'
<1> USE DEF Tick
<1>1. TypeOK'
    BY AllocationAssumption DEF AllocationInv, TypeOK, resources
<1>2. Booked'
    BY StillBooked DEF AllocationInv
<1>3. MapsInv' /\ ItemInv' /\ PlaceInv'
    BY DEF AllocationInv, MapsInv, ItemInv, PlaceInv, Requests, resources
<1>4. PlanInv' /\ ReportInv'
    BY DEF AllocationInv, PlanInv, ReportInv, resources
<1> QED  BY <1>1, <1>2, <1>3, <1>4 DEF AllocationInv

\* A request arrives for DNNs that are nowhere yet.
LEMMA ReceiveStep ==
    ASSUME AllocationInv, NEW x \in Offers, Receive(x)
    PROVE  AllocationInv'
<1>1. /\ waiting' = waiting \cup {x}
      /\ \A d \in ToSet(x.dnns) : outcome[d] = "none"
      /\ outcome' = [d \in Dnn |->
                        IF d \in ToSet(x.dnns) THEN "asked" ELSE outcome[d]]
      /\ UNCHANGED <<now, active, at, plan, DNNS, result, off_low, off_high,
                     off_total, network_link, told, crashed>>
    BY DEF Receive, resources
<1>2. /\ TypeOK /\ Booked /\ MapsInv /\ ItemInv /\ PlaceInv /\ PlanInv
      /\ ReportInv
    BY DEF AllocationInv
<1>3. /\ x \in Item /\ x.host \in Host
      /\ x.type \in {"low_complexity", "high_complexity"}
      /\ Low(x) => Len(x.dnns) = 1
      /\ Distinct(x.dnns) /\ ToSet(x.dnns) \subseteq Dnn
      /\ ToSet(x.dnns) # {} \/ ~Low(x)
    <2>1. x \in Item
        BY AllocationAssumption
    <2>2. x.dnns \in Seq(Dnn)
        BY <2>1 DEF Item
    <2>3. DOMAIN x.dnns = 1 .. Len(x.dnns) /\ ToSet(x.dnns) \subseteq Dnn
        BY <2>2, Elements
    <2>4. Low(x) => Len(x.dnns) = 1
        BY AllocationAssumption
    <2>5. Low(x) => ToSet(x.dnns) # {}
        BY <2>1, <2>4, TheDnn
    <2>6. Distinct(x.dnns)
        BY <2>3, AllocationAssumption DEF Distinct
    <2>7. x.host \in Host /\ x.type \in {"low_complexity", "high_complexity"}
        BY AllocationAssumption
    <2> QED  BY <2>1, <2>3, <2>4, <2>5, <2>6, <2>7
<1>4. TypeOK'
    BY <1>1, <1>2, <1>3 DEF TypeOK
<1>5. Booked'
    BY <1>1, <1>2, StillBooked DEF resources
<1>6. MapsInv'
    BY <1>1, <1>2 DEF MapsInv
<1>7. ItemInv'
    BY <1>1, <1>2, <1>3 DEF ItemInv
<1>8. Requests' = Requests \cup {x}
    BY <1>1, <1>3 DEF Requests
<1>9. PlaceInv'
    <2>1. \A y \in Requests : ToSet(x.dnns) \cap ToSet(y.dnns) = {}
        BY <1>1, <1>2 DEF PlaceInv
    <2>2. \A d \in off_total : d \notin ToSet(x.dnns) /\ d \in Dnn
        BY <1>1, <1>2 DEF PlaceInv, TypeOK
    <2>3. x \notin active
        <3>1. \A y \in active : y \in Requests /\ Low(y)
            BY <1>2 DEF Requests, TypeOK
        <3> QED  BY <1>3, <2>1, <3>1
    <2>4. waiting' \cap active' = {}
        BY <1>1, <1>2, <2>3 DEF PlaceInv
    <2>5. \A y, z \in Requests' :
                \A d \in ToSet(y.dnns) \cap ToSet(z.dnns) : y = z
        BY <1>2, <1>8, <2>1 DEF PlaceInv
    <2>6. \A y \in Requests : ToSet(y.dnns) \subseteq Dnn
        <3>1. \A y \in Requests : y.dnns \in Seq(Dnn)
            BY <1>2 DEF Requests, TypeOK, Item
        <3> QED  BY <3>1, Elements
    <2>7. \A y \in Requests' : \A d \in ToSet(y.dnns) :
                outcome'[d] = "asked" /\ d \notin off_total'
        BY <1>1, <1>2, <1>3, <1>8, <2>2, <2>6 DEF PlaceInv
    <2>8. \A d \in off_total' : outcome'[d] = "asked"
        BY <1>1, <1>2, <2>2 DEF PlaceInv
    <2>9. \A d \in Dnn : outcome'[d] = "asked" =>
                d \in off_total' \/ \E y \in Requests' : d \in ToSet(y.dnns)
        BY <1>1, <1>2, <1>8 DEF PlaceInv
    <2> QED  BY <2>4, <2>5, <2>7, <2>8, <2>9 DEF PlaceInv
<1>10. PlanInv'
    BY <1>1, <1>2 DEF PlanInv
<1>11. ReportInv'
    <2>1. \A d \in Dnn : UpdateOf(d) \in waiting' <=> UpdateOf(d) \in waiting
        BY <1>1, <1>3, UpdateItem
    <2> QED  BY <1>1, <1>2, <2>1 DEF ReportInv
<1> QED  BY <1>4, <1>5, <1>6, <1>7, <1>9, <1>10, <1>11 DEF AllocationInv

\* A device reports a DNN that is in the maps, or that was halted.
LEMMA ReportStep ==
    ASSUME AllocationInv, NEW d \in Dnn, Report(d)
    PROVE  AllocationInv'
<1> DEFINE x == UpdateOf(d)
<1>1. /\ d \in told /\ told' = told \ {d} /\ waiting' = waiting \cup {x}
      /\ UNCHANGED <<now, active, at, plan, DNNS, result, off_low, off_high,
                     off_total, network_link, outcome, crashed>>
    BY DEF Report, resources
<1>2. /\ TypeOK /\ Booked /\ MapsInv /\ ItemInv /\ PlaceInv /\ PlanInv
      /\ ReportInv
    BY DEF AllocationInv
<1>3. x \in Item /\ x.type = "state_update" /\ ~Low(x) /\ x.dnns = <<d>>
        /\ Head(x.dnns) = d
    BY UpdateItem DEF Low
<1>4. \A e \in Dnn : UpdateOf(e) = x => e = d
    BY <1>3, UpdateItem
<1> HIDE DEF x
<1>5. TypeOK'
    BY <1>1, <1>2, <1>3 DEF TypeOK
<1>6. Booked'
    BY <1>1, <1>2, StillBooked DEF resources
<1>7. MapsInv'
    BY <1>1, <1>2 DEF MapsInv
<1>8. ItemInv'
    BY <1>1, <1>2, <1>3 DEF ItemInv, x
<1>9. PlaceInv'
    <2>1. Requests' = Requests
        BY <1>1, <1>3 DEF Requests
    <2>2. x \notin active
        BY <1>2, <1>3 DEF TypeOK
    <2> QED  BY <1>1, <1>2, <2>1, <2>2 DEF PlaceInv
<1>10. PlanInv'
    BY <1>1, <1>2 DEF PlanInv
<1>11. ReportInv'
    BY <1>1, <1>2, <1>4 DEF ReportInv, x
<1> QED  BY <1>5, <1>6, <1>7, <1>8, <1>9, <1>10, <1>11 DEF AllocationInv

\* A device forgets a DNN that was halted.
LEMMA DeviceHaltsStep ==
    ASSUME AllocationInv, NEW d \in Dnn, DeviceHalts(d)
    PROVE  AllocationInv'
<1> USE DEF DeviceHalts
<1>1. TypeOK'
    BY DEF AllocationInv, TypeOK, resources
<1>2. Booked'
    BY StillBooked DEF AllocationInv
<1>3. MapsInv' /\ ItemInv' /\ PlaceInv'
    BY DEF AllocationInv, MapsInv, ItemInv, PlaceInv, Requests, resources
<1>4. PlanInv' /\ ReportInv'
    BY DEF AllocationInv, PlanInv, ReportInv, resources
<1> QED  BY <1>1, <1>2, <1>3, <1>4 DEF AllocationInv

\* A low worker starts; only low ones run next to it.
LEMMA LowStartStep ==
    ASSUME AllocationInv, NEW x \in waiting, LowStart(x)
    PROVE  AllocationInv'
<1> DEFINE d == Head(x.dnns)
<1>1. /\ Low(x) /\ waiting' = waiting \ {x} /\ active' = active \cup {x}
      /\ at' = [at EXCEPT ![d] = "called"]
      /\ UNCHANGED <<now, plan, DNNS, result, off_low, off_high, off_total,
                     network_link, told, outcome, crashed>>
    BY DEF LowStart, resources
<1>2. /\ TypeOK /\ Booked /\ MapsInv /\ ItemInv /\ PlaceInv /\ PlanInv
      /\ ReportInv
    BY DEF AllocationInv
<1>3. x \in Item /\ Len(x.dnns) = 1 /\ x.host \in Host
    BY <1>1, <1>2 DEF TypeOK, ItemInv, Low
<1>4. d \in Dnn
    BY <1>3, TheDnn
<1>5. x.type = "low_complexity"
    BY <1>1 DEF Low
<1> HIDE DEF d
<1>6. TypeOK'
    BY <1>1, <1>2, <1>3, <1>4 DEF TypeOK
<1>7. Booked'
    BY <1>1, <1>2, StillBooked DEF resources
<1>8. MapsInv'
    BY <1>1, <1>2 DEF MapsInv
<1>9. ItemInv'
    BY <1>1, <1>2, <1>3 DEF ItemInv
<1>10. PlaceInv'
    <2>1. Requests' = Requests
        BY <1>1, <1>5 DEF Requests
    <2> QED  BY <1>1, <1>2, <2>1 DEF PlaceInv
<1>11. PlanInv'
    <2> SUFFICES ASSUME NEW y \in active',
                        at'[Head(y.dnns)] \in {"planned", "placed"}
                 PROVE  PlanOf(Head(y.dnns), plan'[Head(y.dnns)],
                               result'[Head(y.dnns)].run)
        BY DEF PlanInv
    <2>1. at \in [Dnn -> {"idle", "called", "planned", "placed"}]
        BY <1>2 DEF TypeOK
    <2>2. Head(y.dnns) # d
        BY <1>1, <1>4, <2>1
    <2>3. y \in active
        BY <1>1, <2>2 DEF d
    <2>4. at'[Head(y.dnns)] = at[Head(y.dnns)]
        <3>1. Len(y.dnns) = 1 /\ y \in Item
            BY <1>2, <2>3 DEF ItemInv, TypeOK
        <3>2. Head(y.dnns) \in Dnn
            BY <3>1, TheDnn
        <3> QED  BY <1>1, <2>1, <2>2, <3>2
    <2> QED  BY <1>1, <1>2, <2>3, <2>4 DEF PlanInv
<1>12. ReportInv'
    <2>1. \A e \in Dnn : UpdateOf(e) \in waiting' <=> UpdateOf(e) \in waiting
        BY <1>1, <1>5, UpdateItem
    <2> QED  BY <1>1, <1>2, <2>1 DEF ReportInv
<1> QED  BY <1>6, <1>7, <1>8, <1>9, <1>10, <1>11, <1>12 DEF AllocationInv

\* What a low worker that has called works with.
LEMMA LowItem ==
    ASSUME AllocationInv, NEW x \in active
    PROVE  /\ x \in Item /\ Low(x) /\ Len(x.dnns) = 1 /\ x.host \in Host
           /\ Head(x.dnns) \in Dnn /\ ToSet(x.dnns) = {Head(x.dnns)}
           /\ Distinct(x.dnns) /\ x \in Requests
           /\ Head(x.dnns) \notin off_total
           /\ outcome[Head(x.dnns)] = "asked"
<1>1. x \in Item /\ Low(x) /\ Len(x.dnns) = 1 /\ x.host \in Host
    BY DEF AllocationInv, TypeOK, ItemInv
<1>2. /\ Head(x.dnns) \in Dnn /\ ToSet(x.dnns) = {Head(x.dnns)}
      /\ Distinct(x.dnns)
    BY <1>1, TheDnn
<1>3. x \in Requests
    BY DEF Requests
<1> QED  BY <1>1, <1>2, <1>3 DEF AllocationInv, PlaceInv

\* The other low workers keep their plans.
LEMMA OthersPlanned ==
    ASSUME AllocationInv, NEW d \in Dnn, active' \subseteq active,
           \A e \in Dnn \ {d} : /\ at'[e] = at[e] /\ plan'[e] = plan[e]
                                /\ result'[e].run = result[e].run,
           at'[d] \in {"planned", "placed"} =>
                PlanOf(d, plan'[d], result'[d].run)
    PROVE  PlanInv'
<1> SUFFICES ASSUME NEW y \in active',
                    at'[Head(y.dnns)] \in {"planned", "placed"}
             PROVE  PlanOf(Head(y.dnns), plan'[Head(y.dnns)],
                           result'[Head(y.dnns)].run)
    BY DEF PlanInv
<1>1. Head(y.dnns) \in Dnn
    BY LowItem
<1>2. CASE Head(y.dnns) = d
    BY <1>2
<1>3. CASE Head(y.dnns) # d
    BY <1>1, <1>3 DEF AllocationInv, PlanInv
<1> QED  BY <1>2, <1>3

\* A low worker plans two links of its DNN, the update after the window.
LEMMA LowPlanStep ==
    ASSUME AllocationInv, NEW x \in active, LowPlan(x)
    PROVE  AllocationInv'
<1> DEFINE d == Head(x.dnns)
           run == result[d].run
           s == FindLinkSlot(now, Duration["low_upload"], network_link)
           upload == Transfer(d, "upload", run, s)
           copy == SortedByFin(Append(network_link, upload))
           t == FindLinkSlot(upload.fin + LowTime + 1, Duration["low_update"],
                             copy)
           update == Transfer(d, "update", run, t)
<1>1. /\ plan' = [plan EXCEPT ![d] = <<upload, update>>]
      /\ at' = [at EXCEPT ![d] = "planned"]
      /\ UNCHANGED <<now, waiting, active, DNNS, result, off_low, off_high,
                     off_total, network_link, told, outcome, crashed>>
    BY DEF LowPlan, resources
<1>2. /\ TypeOK /\ Booked /\ MapsInv /\ ItemInv /\ PlaceInv /\ PlanInv
      /\ ReportInv
    BY DEF AllocationInv
<1>3. d \in Dnn
    BY LowItem
<1>4. network_link \in Seq(Link) /\ run \in Nat /\ now \in Nat
    BY <1>2, <1>3, AllocationAssumption DEF TypeOK, Result
<1>5. s.start \in Nat /\ s.fin \in Nat
    BY <1>4, SlotFound
<1> HIDE DEF s, d, run
<1>6. /\ upload \in Link /\ upload.fin = s.fin /\ upload.dnn = d
      /\ upload.use = "upload" /\ upload.run = run
    BY <1>3, <1>4, <1>5 DEF Transfer, Link, Uses
<1> HIDE DEF upload
<1>7. copy \in Seq(Link)
    BY <1>4, <1>6, Appended, Sorted
<1> HIDE DEF copy
<1>8. t.start \in Nat /\ t.fin \in Nat /\ upload.fin + LowTime < t.start
    <2>1. upload.fin + LowTime \in Nat /\ upload.fin + LowTime + 1 \in Nat
        BY <1>5, <1>6, AllocationAssumption
    <2>2. /\ t.start \in Nat /\ t.fin \in Nat
          /\ upload.fin + LowTime + 1 <= t.start
        BY <1>7, <2>1, SlotFound
    <2> HIDE DEF t
    <2> QED  BY <2>1, <2>2
<1> HIDE DEF t
<1>9. /\ update \in Link /\ update.start = t.start /\ update.dnn = d
      /\ update.use = "update" /\ update.run = run
    BY <1>3, <1>4, <1>8 DEF Transfer, Link, Uses
<1> HIDE DEF update
<1>10. plan' \in [Dnn -> Seq(Link)] /\ plan'[d] = <<upload, update>>
        /\ at'[d] = "planned"
       /\ \A e \in Dnn \ {d} : plan'[e] = plan[e] /\ at'[e] = at[e]
    <2>1. plan \in [Dnn -> Seq(Link)] /\ <<upload, update>> \in Seq(Link)
        BY <1>2, <1>6, <1>9 DEF TypeOK
    <2>2. at \in [Dnn -> {"idle", "called", "planned", "placed"}]
        BY <1>2 DEF TypeOK
    <2> QED  BY <1>1, <1>3, <2>1, <2>2
<1>11. TypeOK'
    BY <1>1, <1>2, <1>10 DEF TypeOK
<1>12. Booked'
    BY <1>1, <1>2, StillBooked DEF resources
<1>13. MapsInv' /\ ItemInv' /\ PlaceInv' /\ ReportInv'
    BY <1>1, <1>2 DEF MapsInv, ItemInv, PlaceInv, Requests, ReportInv
<1>14. PlanInv'
    <2>1. PlanOf(d, <<upload, update>>, run)
        BY <1>6, <1>8, <1>9 DEF PlanOf
    <2>2. PlanOf(d, plan'[d], result'[d].run)
        BY <1>1, <1>10, <2>1 DEF run
    <2> QED  BY <1>1, <1>3, <1>10, <2>2, OthersPlanned
<1> QED  BY <1>11, <1>12, <1>13, <1>14 DEF AllocationInv

\* A low worker found room: its plan stays as it is.
LEMMA LowPlaceStep ==
    ASSUME AllocationInv, NEW x \in active, LowPlace(x)
    PROVE  AllocationInv'
<1> DEFINE d == Head(x.dnns)
<1>1. /\ at[d] = "planned" /\ at' = [at EXCEPT ![d] = "placed"]
      /\ UNCHANGED <<now, waiting, active, plan, DNNS, result, off_low,
                     off_high, off_total, network_link, told, outcome,
                     crashed>>
    BY DEF LowPlace, resources
<1>2. /\ TypeOK /\ Booked /\ MapsInv /\ ItemInv /\ PlaceInv /\ PlanInv
      /\ ReportInv
    BY DEF AllocationInv
<1>3. d \in Dnn
    BY LowItem
<1>4. PlanOf(d, plan[d], result[d].run)
    BY <1>1, <1>2 DEF PlanInv
<1> HIDE DEF d
<1>5. TypeOK'
    BY <1>1, <1>2 DEF TypeOK
<1>6. Booked'
    BY <1>1, <1>2, StillBooked DEF resources
<1>7. MapsInv' /\ ItemInv' /\ PlaceInv' /\ ReportInv'
    BY <1>1, <1>2 DEF MapsInv, ItemInv, PlaceInv, Requests, ReportInv
<1>8. PlanInv'
    <2>1. at \in [Dnn -> {"idle", "called", "planned", "placed"}]
        BY <1>2 DEF TypeOK
    <2>2. \A e \in Dnn \ {d} : at'[e] = at[e]
        BY <1>1, <2>1
    <2>3. PlanOf(d, plan'[d], result'[d].run)
        BY <1>1, <1>4
    <2> QED  BY <1>1, <1>3, <2>2, <2>3, OthersPlanned
<1> QED  BY <1>5, <1>6, <1>7, <1>8 DEF AllocationInv

\* A low worker gives up: its request is back in the queue.
LEMMA LowRejectStep ==
    ASSUME AllocationInv, NEW x \in active, LowReject(x)
    PROVE  AllocationInv'
<1> DEFINE d == Head(x.dnns)
           halt == HaltFor(x)
<1>1. /\ at[d] = "planned" /\ waiting' = waiting \cup {halt, x}
      /\ at' = [at EXCEPT ![d] = "idle"]
      /\ plan' = [plan EXCEPT ![d] = <<>>]
      /\ active' = active \ {x}
      /\ UNCHANGED <<now, DNNS, result, off_low, off_high, off_total,
                     network_link, told, outcome, crashed>>
    BY DEF LowReject, resources, Asks
<1>2. /\ TypeOK /\ Booked /\ MapsInv /\ ItemInv /\ PlaceInv /\ PlanInv
      /\ ReportInv
    BY DEF AllocationInv
<1>3. /\ x \in Item /\ Low(x) /\ Len(x.dnns) = 1 /\ x.host \in Host
      /\ d \in Dnn /\ ToSet(x.dnns) = {d} /\ Distinct(x.dnns) /\ x \in Requests
    BY LowItem
<1>4. plan[d] \in Seq(Link) /\ Len(plan[d]) = 2
    BY <1>1, <1>2, <1>3 DEF PlanInv, PlanOf, TypeOK
<1>5. plan[d][1].fin \in Nat
    <2>1. plan[d][1] \in Link
        BY <1>4, Elements
    <2> QED  BY <2>1 DEF Link
<1>6. /\ halt \in Item /\ halt.type = "halt_req" /\ halt.host = x.host
      /\ halt.dnns = x.dnns
    <2>1. Window(x).start \in Nat /\ Window(x).fin \in Nat
        BY <1>5, AllocationAssumption DEF Window
    <2>2. x.dnns \in Seq(Dnn)
        BY <1>3 DEF Item
    <2> QED  BY <1>3, <2>1, <2>2 DEF HaltFor, Item, Type
<1>7. x.type = "low_complexity"
    BY <1>3 DEF Low
<1> HIDE DEF d, halt
<1>8. plan' \in [Dnn -> Seq(Link)] /\ at'[d] = "idle"
      /\ \A e \in Dnn \ {d} : plan'[e] = plan[e] /\ at'[e] = at[e]
    <2>1. plan \in [Dnn -> Seq(Link)] /\ <<>> \in Seq(Link)
        BY <1>2, EmptySeq DEF TypeOK
    <2>2. at \in [Dnn -> {"idle", "called", "planned", "placed"}]
        BY <1>2 DEF TypeOK
    <2> QED  BY <1>1, <1>3, <2>1, <2>2
<1>9. TypeOK'
    BY <1>1, <1>2, <1>3, <1>6, <1>8 DEF TypeOK
<1>10. Booked'
    BY <1>1, <1>2, StillBooked DEF resources
<1>11. MapsInv'
    BY <1>1, <1>2 DEF MapsInv
<1>12. ItemInv'
    BY <1>1, <1>2, <1>3, <1>6, <1>7 DEF ItemInv, Low
<1>13. PlaceInv'
    <2>1. Requests' = Requests
        BY <1>1, <1>6, <1>7 DEF Requests
    <2>2. halt \notin active
        BY <1>2, <1>6 DEF TypeOK, Low
    <2>3. waiting' \cap active' = {}
        BY <1>1, <1>2, <2>2 DEF PlaceInv
    <2> QED  BY <1>1, <1>2, <2>1, <2>3 DEF PlaceInv
<1>14. PlanInv'
    BY <1>1, <1>3, <1>8, OthersPlanned
<1>15. ReportInv'
    <2>1. \A e \in Dnn : UpdateOf(e) \in waiting' <=> UpdateOf(e) \in waiting
        BY <1>1, <1>6, <1>7, UpdateItem
    <2> QED  BY <1>1, <1>2, <2>1 DEF ReportInv
<1> QED  BY <1>9, <1>10, <1>11, <1>12, <1>13, <1>14, <1>15 DEF AllocationInv

\* A low worker books: its DNN was nowhere in the books before.
LEMMA LowCommitStep ==
    ASSUME AllocationInv, NEW x \in active, LowCommit(x)
    PROVE  AllocationInv'
<1> DEFINE d == Head(x.dnns)
           r == LowResult(x, result[d].run)
<1>1. /\ at[d] = "placed"
      /\ result' = [result EXCEPT ![d] = r]
      /\ off_low' = off_low \cup {d}
      /\ off_total' = off_total \cup {d}
      /\ network_link' = network_link \o plan[d]
      /\ DNNS' = [DNNS EXCEPT ![x.host] = Append(@, d)]
      /\ told' = told \cup {d}
      /\ at' = [at EXCEPT ![d] = "idle"]
      /\ plan' = [plan EXCEPT ![d] = <<>>]
      /\ active' = active \ {x}
      /\ UNCHANGED <<now, waiting, off_high, outcome, crashed>>
    BY DEF LowCommit
<1>2. /\ TypeOK /\ Booked /\ MapsInv /\ ItemInv /\ PlaceInv /\ PlanInv
      /\ ReportInv
    BY DEF AllocationInv
<1>3. /\ x \in Item /\ Low(x) /\ x.host \in Host /\ x \in Requests
      /\ d \in Dnn /\ ToSet(x.dnns) = {d}
      /\ d \notin off_total /\ outcome[d] = "asked"
    BY LowItem
<1>4. PlanOf(d, plan[d], result[d].run) /\ plan[d] \in Seq(Link)
    BY <1>1, <1>2, <1>3 DEF PlanInv, TypeOK
<1> DEFINE up == plan[d][1]
           upd == plan[d][2]
<1>5. up \in Link /\ upd \in Link /\ plan[d] = <<up, upd>>
    <2>1. Len(plan[d]) = 2
        BY <1>4 DEF PlanOf
    <2> QED  BY <1>4, <2>1, Elements
<1>6. /\ r \in Result /\ r.low /\ r.src = x.host /\ r.host = x.host
      /\ r.run = result[d].run /\ r.start = up.fin /\ r.fin = up.fin + LowTime
    <2>1. up.fin \in Nat
        BY <1>5 DEF Link
    <2>2. up.fin + LowTime \in Nat
        BY <2>1, AllocationAssumption
    <2>3. result[d].run \in Nat /\ x.deadline \in Nat
        BY <1>2, <1>3 DEF TypeOK, Result, Item
    <2>4. r = [low |-> TRUE, src |-> x.host, host |-> x.host, cores |-> 1,
               start |-> up.fin, fin |-> up.fin + LowTime,
               deadline |-> x.deadline, run |-> result[d].run]
        BY DEF LowResult, Window
    <2> HIDE DEF up, r
    <2> QED  BY <1>3, <2>1, <2>2, <2>3, <2>4 DEF Result
<1>7. /\ up.dnn = d /\ up.run = r.run /\ up.use = "upload"
      /\ upd.dnn = d /\ upd.run = r.run /\ upd.use = "update"
      /\ r.fin < upd.start
    BY <1>4, <1>6 DEF PlanOf
<1> HIDE DEF d, r, up, upd
<1>8. /\ result'[d] = r /\ result' \in [Dnn -> Result]
      /\ \A e \in Dnn \ {d} : result'[e] = result[e]
    BY <1>1, <1>2, <1>3, <1>6 DEF TypeOK
<1>9. Booked'
    <2>1. Books(network_link, DNNS, result, off_total, {})
        BY <1>2 DEF Booked
    <2>2. d \in Dnn \ (off_total \cup {})
        BY <1>3
    <2>3. up.fin <= r.start
        BY <1>5, <1>6 DEF Link
    <2>4. ~Moved(r)
        BY <1>6 DEF Moved
    <2>5. Books(Append(network_link, up),
                [DNNS EXCEPT ![r.host] = Append(@, d)], result',
                off_total, {} \cup {d})
        <3>1. \A tr : Moved(r) =>
                        /\ tr \in Link /\ tr.dnn = d /\ tr.run = r.run
                        /\ tr.use = "transfer" /\ tr.fin < r.start
                        /\ up.fin < tr.start
            BY <2>4
        <3>2. r.host \in Host /\ r.src \in Host /\ (r.low => r.src = r.host)
            BY <1>3, <1>6
        <3>3. Books(IF Moved(r) THEN Append(Append(network_link, up), up)
                    ELSE Append(network_link, up),
                    [DNNS EXCEPT ![r.host] = Append(@, d)],
                    [result EXCEPT ![d] = r], off_total, {} \cup {d})
            BY <1>5, <1>6, <1>7, <2>1, <2>2, <2>3, <3>1, <3>2, BooksPlaced
        <3> QED  BY <1>1, <2>4, <3>3
    <2>6. {} \cup {d} = {d} /\ {d} \ {d} = {}
        OBVIOUS
    <2>7. Books(Append(network_link, up), DNNS', result', off_total, {d})
        BY <1>1, <1>6, <2>5, <2>6
    <2>8. Books(Append(Append(network_link, up), upd), DNNS', result',
                off_total \cup {d}, {d} \ {d})
        BY <1>5, <1>6, <1>7, <1>8, <2>7, BooksConfirmed
    <2>9. network_link' = Append(Append(network_link, up), upd)
        BY <1>1, <1>2, <1>5, AppendedTwo DEF TypeOK
    <2> QED  BY <1>1, <2>6, <2>8, <2>9 DEF Booked
<1>10. TypeOK'
    <2>1. /\ network_link' \in Seq(Link) /\ DNNS' \in [Host -> Seq(Dnn)]
          /\ result' \in [Dnn -> Result]
        BY <1>9 DEF Booked, Books, BookTypes
    <2>2. plan' \in [Dnn -> Seq(Link)]
        <3>1. plan \in [Dnn -> Seq(Link)] /\ <<>> \in Seq(Link)
            BY <1>2, EmptySeq DEF TypeOK
        <3> QED  BY <1>1, <3>1
    <2>3. at' \in [Dnn -> {"idle", "called", "planned", "placed"}]
        BY <1>1, <1>2 DEF TypeOK
    <2> QED  BY <1>1, <1>2, <1>3, <2>1, <2>2, <2>3 DEF TypeOK
<1>11. MapsInv'
    <2>1. /\ \A e \in off_low' : result'[e].low
          /\ \A e \in off_high' : ~result'[e].low
        <3>1. off_low \subseteq Dnn /\ off_high \subseteq Dnn /\ d \notin off_high
            BY <1>2, <1>3 DEF MapsInv, TypeOK
        <3> QED  BY <1>1, <1>2, <1>6, <1>8, <3>1 DEF MapsInv
    <2>2. IsFiniteSet(off_total')
        BY <1>1, <1>2, FS_AddElement DEF MapsInv
    <2>3. off_total' = off_low' \cup off_high'
        BY <1>1, <1>2 DEF MapsInv
    <2> QED  BY <2>1, <2>2, <2>3 DEF MapsInv
<1>12. ItemInv'
    BY <1>1, <1>2 DEF ItemInv
<1>13. PlaceInv'
    <2>1. Requests' \subseteq Requests \ {x}
        BY <1>1, <1>2, <1>3 DEF Requests, PlaceInv
    <2>2. Requests \ {x} \subseteq Requests'
        BY <1>1 DEF Requests
    <2>3. \A y \in Requests \ {x} : d \notin ToSet(y.dnns)
        BY <1>2, <1>3 DEF PlaceInv
    <2>4. waiting' \cap active' = {}
        BY <1>1, <1>2 DEF PlaceInv
    <2>5. \A y, z \in Requests' :
                \A e \in ToSet(y.dnns) \cap ToSet(z.dnns) : y = z
        BY <1>2, <2>1 DEF PlaceInv
    <2>6. \A y \in Requests' : \A e \in ToSet(y.dnns) :
                outcome'[e] = "asked" /\ e \notin off_total'
        BY <1>1, <1>2, <2>1, <2>3 DEF PlaceInv
    <2>7. \A e \in off_total' : outcome'[e] = "asked"
        BY <1>1, <1>2, <1>3 DEF PlaceInv
    <2>8. \A e \in Dnn : outcome'[e] = "asked" =>
                e \in off_total' \/ \E y \in Requests' : e \in ToSet(y.dnns)
        BY <1>1, <1>2, <1>3, <2>2 DEF PlaceInv
    <2> QED  BY <2>4, <2>5, <2>6, <2>7, <2>8 DEF PlaceInv
<1>14. PlanInv'
    <2>1. /\ at \in [Dnn -> {"idle", "called", "planned", "placed"}]
          /\ plan \in [Dnn -> Seq(Link)]
        BY <1>2 DEF TypeOK
    <2>2. at'[d] = "idle" /\ \A e \in Dnn \ {d} :
                /\ at'[e] = at[e] /\ plan'[e] = plan[e]
                /\ result'[e].run = result[e].run
        BY <1>1, <1>3, <1>8, <2>1
    <2>3. active' \subseteq active
        BY <1>1
    <2> QED  BY <1>3, <2>2, <2>3, OthersPlanned
<1>15. ReportInv'
    BY <1>1, <1>2, <1>3, <1>6, <1>8 DEF ReportInv
<1> QED  BY <1>9, <1>10, <1>11, <1>12, <1>13, <1>14, <1>15 DEF AllocationInv

\* A high allocation starts and ends with books in order.
LEMMA HighWorksOut ==
    ASSUME AllocationInv, NEW x \in waiting, HighAllocate(x)
    PROVE  Fresh(x) /\ Draft(HighAllocation(x), x, {})
<1>1. x.type = "high_complexity"
    BY DEF HighAllocate
<1>2. TypeOK /\ Booked /\ MapsInv /\ ItemInv /\ PlaceInv
    BY DEF AllocationInv
<1>3. Fresh(x)
    <2>1. x.host \in Host /\ Distinct(x.dnns) /\ x \in Item
        BY <1>1, <1>2 DEF ItemInv, TypeOK
    <2>2. x \in Requests
        BY <1>1 DEF Requests
    <2>3. ToSet(x.dnns) \cap off_total = {}
        BY <1>2, <2>2 DEF PlaceInv
    <2> QED  BY <2>1, <2>3 DEF Fresh
<1>4. now \in Nat /\ IsFiniteSet(off_total)
    BY <1>2, AllocationAssumption DEF TypeOK, MapsInv
<1>5. Books(network_link, DNNS, result, off_total, {})
    BY <1>2 DEF Booked
<1> QED  BY <1>3, <1>4, <1>5, HighDrafted

\* A high allocation: each of its DNNs is booked or has failed.
LEMMA HighAllocateStep ==
    ASSUME AllocationInv, NEW x \in waiting, HighAllocate(x)
    PROVE  AllocationInv'
<1> DEFINE v == HighAllocation(x)
<1>1. /\ x.type = "high_complexity" /\ Pool!MayStart(x)
      /\ waiting' = waiting \ {x}
      /\ network_link' = v.link /\ DNNS' = v.DNNS /\ result' = v.result
      /\ off_high' = off_high \cup v.allocated
      /\ off_total' = off_total \cup v.allocated
      /\ told' = told \cup v.allocated
      /\ outcome' = [d \in Dnn |->
                        IF d \in ToSet(x.dnns) \ v.allocated THEN "failed"
                        ELSE outcome[d]]
      /\ UNCHANGED <<now, active, at, plan, off_low, crashed>>
    BY DEF HighAllocate, Sent
<1>2. /\ TypeOK /\ Booked /\ MapsInv /\ ItemInv /\ PlaceInv /\ PlanInv
      /\ ReportInv
    BY DEF AllocationInv
<1>3. active = {}
    BY <1>1, Alone DEF Low
<1>4. x \in Requests
    BY <1>1 DEF Requests
<1>5. Fresh(x)
    BY HighWorksOut
<1>6. Draft(v, x, {})
    BY HighWorksOut
<1> HIDE DEF v
<1>7. /\ v \in Work /\ v.allocated \subseteq ToSet(x.dnns)
      /\ \A d \in Dnn : /\ v.result[d].run = result[d].run
                        /\ d \notin ToSet(x.dnns) => v.result[d] = result[d]
      /\ \A d \in v.allocated : ~v.result[d].low
      /\ Books(v.link, v.DNNS, v.result, off_total \cup v.allocated, {})
    BY <1>6 DEF Draft
<1>8. v.allocated \subseteq Dnn /\ ToSet(x.dnns) \cap off_total = {}
    BY <1>5, <1>7 DEF Work, Fresh
<1>9. Booked'
    BY <1>1, <1>7 DEF Booked
<1>10. TypeOK'
    <2>1. /\ network_link' \in Seq(Link) /\ DNNS' \in [Host -> Seq(Dnn)]
          /\ result' \in [Dnn -> Result]
        BY <1>9 DEF Booked, Books, BookTypes
    <2>2. outcome' \in [Dnn -> {"none", "asked", "finished", "failed"}]
        BY <1>1, <1>2 DEF TypeOK
    <2> QED  BY <1>1, <1>2, <1>8, <2>1, <2>2 DEF TypeOK
<1>11. MapsInv'
    <2>1. off_low \subseteq Dnn /\ off_high \subseteq Dnn
            /\ off_low \cup off_high = off_total
        BY <1>2 DEF TypeOK, MapsInv
    <2>2. \A d \in off_low' : result'[d].low
        BY <1>1, <1>2, <1>7, <1>8, <2>1 DEF MapsInv
    <2>3. \A d \in off_high' : ~result'[d].low
        BY <1>1, <1>2, <1>7, <1>8, <2>1 DEF MapsInv
    <2>4. IsFiniteSet(off_total')
        <3>1. x.dnns \in Seq(Dnn)
            BY <1>5 DEF Fresh, Item
        <3>2. IsFiniteSet(v.allocated)
            BY <1>7, <3>1, FinitelyMany, FS_Subset
        <3> QED  BY <1>1, <1>2, <3>2, FS_Union DEF MapsInv
    <2> QED  BY <1>1, <2>1, <2>2, <2>3, <2>4 DEF MapsInv
<1>12. ItemInv'
    BY <1>1, <1>2 DEF ItemInv
<1>13. PlaceInv'
    <2>1. Requests' = Requests \ {x}
        BY <1>1, <1>3 DEF Requests
    <2>2. \A y \in Requests \ {x} : \A e \in ToSet(y.dnns) :
                e \notin ToSet(x.dnns) /\ e \in Dnn
        <3>1. \A y \in Requests : y.dnns \in Seq(Dnn)
            BY <1>2 DEF Requests, TypeOK, Item
        <3>2. \A y \in Requests : ToSet(y.dnns) \subseteq Dnn
            BY <3>1, Elements
        <3> QED  BY <1>2, <1>4, <3>2 DEF PlaceInv
    <2>3. waiting' \cap active' = {}
        BY <1>1, <1>3
    <2>4. \A y, z \in Requests' :
                \A e \in ToSet(y.dnns) \cap ToSet(z.dnns) : y = z
        BY <1>2, <2>1 DEF PlaceInv
    <2>5. \A y \in Requests' : \A e \in ToSet(y.dnns) :
                outcome'[e] = "asked" /\ e \notin off_total'
        BY <1>1, <1>2, <1>7, <2>1, <2>2 DEF PlaceInv
    <2>6. \A e \in off_total' : outcome'[e] = "asked"
        <3>1. off_total \subseteq Dnn
            BY <1>2 DEF TypeOK
        <3>2. \A e \in v.allocated : outcome[e] = "asked"
            BY <1>2, <1>4, <1>7 DEF PlaceInv
        <3> QED  BY <1>1, <1>2, <1>8, <3>1, <3>2 DEF PlaceInv
    <2>7. \A e \in Dnn : outcome'[e] = "asked" =>
                e \in off_total' \/ \E y \in Requests' : e \in ToSet(y.dnns)
        <3> SUFFICES ASSUME NEW e \in Dnn, outcome'[e] = "asked",
                            e \notin off_total'
                     PROVE  \E y \in Requests' : e \in ToSet(y.dnns)
            OBVIOUS
        <3>1. e \notin ToSet(x.dnns) /\ outcome[e] = "asked"
            BY <1>1
        <3>2. \E y \in Requests : e \in ToSet(y.dnns)
            BY <1>1, <1>2, <3>1 DEF PlaceInv
        <3> QED  BY <2>1, <3>1, <3>2
    <2> QED  BY <2>3, <2>4, <2>5, <2>6, <2>7 DEF PlaceInv
<1>14. PlanInv'
    BY <1>1, <1>3 DEF PlanInv
<1>15. ReportInv'
    <2>1. \A d \in Dnn : UpdateOf(d) \in waiting' <=> UpdateOf(d) \in waiting
        BY <1>1, UpdateItem
    <2> QED  BY <1>1, <1>2, <1>7, <1>8, <2>1 DEF ReportInv
<1> QED  BY <1>9, <1>10, <1>11, <1>12, <1>13, <1>14, <1>15 DEF AllocationInv

\* A halt finds the DNN to make room among those booked on its device.
LEMMA PrunedBooked ==
    ASSUME AllocationInv, NEW x \in waiting, x.type = "halt_req",
           Candidates(x) # <<>>
    PROVE  DnnToPrune(x) \in off_total
<1> DEFINE c == Candidates(x)
           n == Len(c)
           dl == [j \in 1 .. n |-> result[c[j]].deadline]
           Best(k, i) == \A j \in 1 .. i :
                            dl[j] < dl[k] \/ (dl[j] = dl[k] /\ k <= j)
<1>1. x.host \in Host /\ DNNS[x.host] \in Seq(Dnn)
    BY DEF AllocationInv, ItemInv, TypeOK
<1>2. c \in Seq(Dnn) /\ ToSet(c) \subseteq off_total
    <2>1. /\ c \in Seq(Dnn) /\ ToSet(c) \subseteq ToSet(DNNS[x.host])
        BY <1>1, Kept DEF Candidates
    <2>2. ToSet(DNNS[x.host]) \subseteq off_total
        BY <1>1 DEF AllocationInv, Booked, Books, DeviceBook
    <2> QED  BY <2>1, <2>2
<1>3. c # <<>>
    OBVIOUS
<1> HIDE DEF c
<1>4. /\ n \in Nat /\ DOMAIN c = 1 .. n
      /\ \A i \in 1 .. n : c[i] \in Dnn /\ c[i] \in ToSet(c)
    BY <1>2, Elements
<1>5. n # 0
    BY <1>2, <1>3, EmptySeq
<1>6. \A j \in 1 .. n : dl[j] \in Nat /\ dl[j] = result[c[j]].deadline
    <2>1. \A e \in Dnn : result[e].deadline \in Nat
        BY DEF AllocationInv, TypeOK, Result
    <2> QED  BY <1>4, <2>1
<1> HIDE DEF n, dl
<1> DEFINE G == {i \in 0 .. n : i = 0 \/ \E k \in 1 .. i : Best(k, i)}
<1>7. \A i \in 0 .. n : i \in G
    <2>1. 0 \in G
        BY <1>4
    <2>2. ASSUME NEW i \in 1 .. n, i - 1 \in G  PROVE i \in G
        <3>1. i \in 0 .. n /\ i \in 1 .. i
            BY <1>4
        <3>2. CASE i = 1
            <4>1. Best(1, 1)
                OBVIOUS
            <4> QED  BY <3>1, <3>2, <4>1
        <3>3. CASE i # 1
            <4>1. PICK k \in 1 .. i - 1 : Best(k, i - 1)
                BY <2>2, <3>3
            <4>2. /\ k \in 1 .. i /\ k \in 1 .. n
                  /\ \A j \in 1 .. i - 1 : j \in 1 .. n
                  /\ \A j \in 1 .. i : j = i \/ j \in 1 .. i - 1
                BY <1>4
            <4>3. CASE dl[i] <= dl[k]
                <5>1. Best(k, i)
                    BY <1>6, <4>1, <4>2, <4>3
                <5> QED  BY <3>1, <4>2, <5>1
            <4>4. CASE ~(dl[i] <= dl[k])
                <5>1. \A j \in 1 .. i - 1 : dl[j] < dl[i]
                    BY <1>6, <4>1, <4>2, <4>4
                <5>2. i \in Nat /\ i <= i
                    BY <1>4
                <5>3. \A j \in 1 .. i :
                            dl[j] < dl[i] \/ (dl[j] = dl[i] /\ i <= j)
                    BY <4>2, <5>1, <5>2
                <5>4. Best(i, i)
                    BY <5>3
                <5> HIDE DEF Best
                <5> QED  BY <3>1, <5>4
            <4> QED  BY <4>3, <4>4
        <3> QED  BY <3>2, <3>3
    <2> HIDE DEF G
    <2> QED  BY <1>4, <2>1, <2>2, UpTo
<1>8. PICK k \in 1 .. n : Best(k, n)
    <2>1. n \in G
        <3> HIDE DEF G
        <3> QED  BY <1>4, <1>7
    <2> HIDE DEF Best
    <2> QED  BY <1>5, <2>1
<1> DEFINE First(i) == \A j \in DOMAIN c :
                \/ result[c[j]].deadline < result[c[i]].deadline
                \/ result[c[j]].deadline = result[c[i]].deadline /\ i <= j
<1>9. k \in DOMAIN c /\ First(k)
    BY <1>4, <1>6, <1>8
<1> DEFINE m == CHOOSE i \in DOMAIN c : First(i)
<1>10. m \in DOMAIN c
    <2> HIDE DEF First
    <2> QED  BY <1>9
<1>11. DnnToPrune(x) = c[m]
    BY DEF DnnToPrune, c
<1> HIDE DEF m
<1> QED  BY <1>2, <1>4, <1>10, <1>11

\* The result of a DNN that was halted.
HaltedResult(r) ==
    [low |-> r.low, src |-> r.src, host |-> NoHost, start |-> 0, fin |-> 0,
     cores |-> 0, deadline |-> r.deadline, run |-> r.run + 1]

\* A halt takes a DNN apart, whose next run is back in the queue.
LEMMA HaltStep ==
    ASSUME AllocationInv, NEW x \in waiting, Halt(x)
    PROVE  AllocationInv'
<1> DEFINE d == DnnToPrune(x)
           r == result[d]
           again == [type |-> "high_complexity", dnns |-> <<d>>,
                     host |-> r.src, deadline |-> r.deadline,
                     start |-> 0, fin |-> 0]
<1>1. /\ x.type = "halt_req" /\ Pool!MayStart(x) /\ Prunable(x)
      /\ waiting' = (waiting \ {x}) \cup {again}
      /\ DNNS' = [DNNS EXCEPT ![r.host] = Without(@, d)]
      /\ network_link' = Prune(network_link, d, r.run, {"upload", "update"})
      /\ result' = [result EXCEPT ![d].host = NoHost, ![d].cores = 0,
                                  ![d].start = 0, ![d].fin = 0,
                                  ![d].run = @ + 1]
      /\ off_total' = off_total \ {d}
      /\ off_high' = off_high \ {d}
      /\ UNCHANGED <<now, active, at, plan, off_low, told, outcome, crashed>>
    BY DEF Halt, PutBack
<1>2. /\ TypeOK /\ Booked /\ MapsInv /\ ItemInv /\ PlaceInv /\ PlanInv
      /\ ReportInv
    BY DEF AllocationInv
<1>3. active = {}
    BY <1>1, Alone DEF Low
<1>4. d \in off_total /\ r.src # r.host
    BY <1>1, PrunedBooked DEF Prunable
<1> HIDE DEF d
<1>5. d \in Dnn /\ r \in Result /\ result \in [Dnn -> Result]
    BY <1>2, <1>4 DEF TypeOK
<1>6. r.src \in Host /\ ~r.low
    <2>1. ResultBook(result, off_total, {})
        BY <1>2 DEF Booked, Books
    <2> QED  BY <1>4, <2>1 DEF ResultBook
<1>7. d \in off_high /\ d \notin off_low
    BY <1>2, <1>4, <1>6 DEF MapsInv
<1>8. /\ again \in Item /\ again.type = "high_complexity"
      /\ again.host \in Host /\ again.dnns = <<d>> /\ ToSet(again.dnns) = {d}
      /\ Distinct(again.dnns)
    <2>1. r.deadline \in Nat
        BY <1>5 DEF Result
    <2>2. again \in Item
        BY <1>5, <1>6, <2>1 DEF Item, Type
    <2>3. ToSet(<<d>>) = {d} /\ Distinct(<<d>>)
        BY DEF ToSet, Distinct
    <2> QED  BY <1>6, <2>2, <2>3
<1> HIDE DEF again
<1>9. /\ HaltedResult(r) \in Result
      /\ result' = [result EXCEPT ![d] = HaltedResult(r)]
    <2>1. HaltedResult(r) \in Result
        BY <1>5 DEF HaltedResult, Result
    <2> DEFINE q == [r EXCEPT !.host = NoHost, !.cores = 0, !.start = 0,
                              !.fin = 0, !.run = @ + 1]
    <2>2. q \in [low : {r.low}, src : {r.src}, host : {NoHost}, start : {0},
                 fin : {0}, cores : {0}, deadline : {r.deadline},
                 run : {r.run + 1}]
        <3> HIDE DEF r
        <3> QED  BY <1>5 DEF Result
    <2>3. result' = [result EXCEPT ![d] = q]
        BY <1>1
    <2> HIDE DEF q
    <2>4. q = HaltedResult(r)
        BY <2>2 DEF HaltedResult
    <2> QED  BY <2>1, <2>3, <2>4
<1>10. /\ result'[d] = HaltedResult(r) /\ result'[d].run = r.run + 1
       /\ result' \in [Dnn -> Result]
       /\ \A e \in Dnn \ {d} : result'[e] = result[e]
    BY <1>5, <1>9 DEF HaltedResult
<1>11. Booked'
    <2>1. Books(network_link, DNNS, result, off_total, {})
        BY <1>2 DEF Booked
    <2>2. HaltedResult(r).run = r.run + 1
        BY DEF HaltedResult
    <2>3. Books(Prune(network_link, d, result[d].run, {"upload", "update"}),
                [DNNS EXCEPT ![result[d].host] = Without(@, d)],
                [result EXCEPT ![d] = HaltedResult(r)], off_total \ {d}, {})
        BY <1>4, <1>9, <2>1, <2>2, BooksHalted
    <2>4. Books(network_link', DNNS', result', off_total', {})
        BY <1>1, <1>9, <2>3
    <2> QED  BY <2>4 DEF Booked
<1> HIDE DEF r
<1>12. TypeOK'
    <2>1. /\ network_link' \in Seq(Link) /\ DNNS' \in [Host -> Seq(Dnn)]
        BY <1>11 DEF Booked, Books, BookTypes
    <2> QED  BY <1>1, <1>2, <1>8, <1>10, <2>1 DEF TypeOK
<1>13. MapsInv'
    <2>1. off_low \subseteq Dnn /\ off_high \subseteq Dnn
        BY <1>2 DEF TypeOK
    <2>2. IsFiniteSet(off_total')
        BY <1>1, <1>2, FS_Subset DEF MapsInv
    <2> QED  BY <1>1, <1>2, <1>7, <1>10, <2>1, <2>2 DEF MapsInv
<1>14. ItemInv'
    BY <1>1, <1>2, <1>8 DEF ItemInv, Low
<1>15. PlaceInv'
    <2>1. Requests' = Requests \cup {again} /\ x \notin Requests
        BY <1>1, <1>3, <1>8 DEF Requests
    <2>2. \A y \in Requests : d \notin ToSet(y.dnns)
        BY <1>2, <1>4 DEF PlaceInv
    <2>3. waiting' \cap active' = {}
        BY <1>1, <1>3
    <2>4. \A y, z \in Requests' :
                \A e \in ToSet(y.dnns) \cap ToSet(z.dnns) : y = z
        BY <1>2, <1>8, <2>1, <2>2 DEF PlaceInv
    <2>5. \A y \in Requests' : \A e \in ToSet(y.dnns) :
                outcome'[e] = "asked" /\ e \notin off_total'
        BY <1>1, <1>2, <1>4, <1>8, <2>1 DEF PlaceInv
    <2>6. \A e \in off_total' : outcome'[e] = "asked"
        BY <1>1, <1>2 DEF PlaceInv
    <2>7. \A e \in Dnn : outcome'[e] = "asked" =>
                e \in off_total' \/ \E y \in Requests' : e \in ToSet(y.dnns)
        <3> SUFFICES ASSUME NEW e \in Dnn, outcome'[e] = "asked",
                            e \notin off_total'
                     PROVE  \E y \in Requests' : e \in ToSet(y.dnns)
            OBVIOUS
        <3>1. CASE e = d
            BY <1>8, <2>1, <3>1
        <3>2. CASE e # d
            <4>1. \E y \in Requests : e \in ToSet(y.dnns)
                BY <1>1, <1>2, <3>2 DEF PlaceInv
            <4> QED  BY <2>1, <4>1
        <3> QED  BY <3>1, <3>2
    <2> QED  BY <2>3, <2>4, <2>5, <2>6, <2>7 DEF PlaceInv
<1>16. PlanInv'
    BY <1>1, <1>3 DEF PlanInv
<1>17. ReportInv'
    <2>1. \A e \in Dnn : UpdateOf(e) \in waiting' <=> UpdateOf(e) \in waiting
        BY <1>1, <1>8, UpdateItem
    <2>2. result'[d].run # 0
        BY <1>5, <1>10 DEF Result
    <2> QED  BY <1>1, <1>2, <1>10, <2>1, <2>2 DEF ReportInv
<1> QED  BY <1>11, <1>12, <1>13, <1>14, <1>15, <1>16, <1>17 DEF AllocationInv

\* A state update takes the last run of a DNN out of the books.
LEMMA StateUpdateStep ==
    ASSUME AllocationInv, NEW x \in waiting, StateUpdate(x)
    PROVE  AllocationInv'
<1> DEFINE d == Head(x.dnns)
           r == result[d]
           uses == {"upload", "update"}
                    \cup IF ~r.low /\ r.src # r.host THEN {"transfer"} ELSE {}
<1>1. /\ x.type = "state_update" /\ Pool!MayStart(x) /\ d \in off_total
      /\ waiting' = waiting \ {x}
      /\ DNNS' = [DNNS EXCEPT ![r.host] = Without(@, d)]
      /\ network_link' = Prune(network_link, d, r.run, uses)
      /\ off_total' = off_total \ {d}
      /\ off_high' = IF r.low THEN off_high ELSE off_high \ {d}
      /\ off_low' = IF r.low THEN off_low \ {d} ELSE off_low
      /\ outcome' = [outcome EXCEPT ![d] = "finished"]
      /\ UNCHANGED <<now, active, at, plan, result, told, crashed>>
    BY DEF StateUpdate
<1>2. /\ TypeOK /\ Booked /\ MapsInv /\ ItemInv /\ PlaceInv /\ PlanInv
      /\ ReportInv
    BY DEF AllocationInv
<1>3. active = {}
    BY <1>1, Alone DEF Low
<1>4. x = UpdateOf(d) /\ d \in Dnn
    BY <1>1, <1>2, UpdateItem DEF ItemInv
<1>5. x \notin Requests
    BY <1>1, <1>3 DEF Requests
<1> HIDE DEF d
<1>6. Booked'
    <2>1. Books(network_link, DNNS, result, off_total, {})
        BY <1>2 DEF Booked
    <2>2. Due(result, off_total, {})[d] \subseteq uses
        BY <1>4 DEF Due, Uses, Moved
    <2> HIDE DEF uses
    <2>3. d \in off_total \cup {}
        BY <1>1
    <2>4. Books(Prune(network_link, d, result[d].run, uses),
                [DNNS EXCEPT ![result[d].host] = Without(@, d)],
                result, off_total \ {d}, {} \ {d})
        BY <2>1, <2>2, <2>3, BooksDropped
    <2>5. {} \ {d} = {}
        OBVIOUS
    <2>6. Books(network_link', DNNS', result', off_total', {})
        BY <1>1, <2>4, <2>5
    <2> QED  BY <2>6 DEF Booked
<1> HIDE DEF uses
<1>7. TypeOK'
    <2>1. network_link' \in Seq(Link) /\ DNNS' \in [Host -> Seq(Dnn)]
        BY <1>6 DEF Booked, Books, BookTypes
    <2>2. off_low' \subseteq off_low /\ off_high' \subseteq off_high
        BY <1>1
    <2> QED  BY <1>1, <1>2, <2>1, <2>2 DEF TypeOK
<1>8. MapsInv'
    <2>1. IsFiniteSet(off_total')
        BY <1>1, <1>2, FS_Subset DEF MapsInv
    <2>2. d \in off_low <=> r.low
        BY <1>1, <1>2 DEF MapsInv
    <2>3. d \in off_high <=> ~r.low
        BY <1>1, <1>2 DEF MapsInv
    <2> HIDE DEF r
    <2>4. off_total' = off_low' \cup off_high'
        BY <1>1, <1>2, <2>2, <2>3 DEF MapsInv
    <2> QED  BY <1>1, <1>2, <2>1, <2>4 DEF MapsInv
<1>9. ItemInv'
    BY <1>1, <1>2 DEF ItemInv
<1>10. PlaceInv'
    <2>1. Requests' = Requests
        BY <1>1, <1>5 DEF Requests
    <2>2. \A y \in Requests : d \notin ToSet(y.dnns)
        BY <1>1, <1>2 DEF PlaceInv
    <2>3. /\ outcome'[d] = "finished"
          /\ \A e \in Dnn \ {d} : outcome'[e] = outcome[e]
        BY <1>1, <1>2, <1>4 DEF TypeOK
    <2>4. \A y \in Requests : \A e \in ToSet(y.dnns) : e \in Dnn
        <3>1. \A y \in Requests : y.dnns \in Seq(Dnn)
            BY <1>2 DEF Requests, TypeOK, Item
        <3> QED  BY <3>1, Elements
    <2>5. \A y \in Requests' : \A e \in ToSet(y.dnns) :
                outcome'[e] = "asked" /\ e \notin off_total'
        BY <1>1, <1>2, <2>1, <2>2, <2>3, <2>4 DEF PlaceInv
    <2>6. \A e \in off_total' : outcome'[e] = "asked"
        <3>1. off_total \subseteq Dnn
            BY <1>2 DEF TypeOK
        <3> QED  BY <1>1, <1>2, <2>3, <3>1 DEF PlaceInv
    <2>7. \A e \in Dnn : outcome'[e] = "asked" =>
                e \in off_total' \/ \E y \in Requests' : e \in ToSet(y.dnns)
        BY <1>1, <1>2, <2>1, <2>3 DEF PlaceInv
    <2>8. waiting' \cap active' = {}
        BY <1>1, <1>3
    <2> QED  BY <1>2, <2>1, <2>5, <2>6, <2>7, <2>8 DEF PlaceInv
<1>11. PlanInv'
    BY <1>1, <1>3 DEF PlanInv
<1>12. ReportInv'
    <2> SUFFICES ASSUME NEW e \in Dnn, result'[e].run = 0
                 PROVE  /\ e \in told' \/ UpdateOf(e) \in waiting' =>
                            e \in off_total'
                        /\ ~(e \in told' /\ UpdateOf(e) \in waiting')
        BY DEF ReportInv
    <2>1. /\ e \in told \/ UpdateOf(e) \in waiting => e \in off_total
          /\ ~(e \in told /\ UpdateOf(e) \in waiting)
        BY <1>1, <1>2 DEF ReportInv
    <2>2. CASE e = d
        <3>1. UpdateOf(e) \in waiting /\ UpdateOf(e) \notin waiting'
            BY <1>1, <1>4, <2>2
        <3> QED  BY <1>1, <2>1, <3>1
    <2>3. CASE e # d
        BY <1>1, <2>1, <2>3
    <2> QED  BY <2>2, <2>3
<1> QED  BY <1>6, <1>7, <1>8, <1>9, <1>10, <1>11, <1>12 DEF AllocationInv

\* A call that crashes changes nothing that anyone looks at afterwards.
LEMMA CrashStep ==
    ASSUME AllocationInv, NEW x \in waiting,
           HaltCrashes(x) \/ StateUpdateCrashes(x)
    PROVE  AllocationInv'
<1>1. /\ crashed' \in {"no", "halt", "update"}
      /\ UNCHANGED <<now, waiting, active, at, plan, resources, told, outcome>>
    BY DEF HaltCrashes, StateUpdateCrashes
<1>2. TypeOK'
    BY <1>1 DEF AllocationInv, TypeOK, resources
<1>3. Booked'
    BY <1>1, StillBooked DEF AllocationInv
<1>4. MapsInv' /\ ItemInv' /\ PlaceInv' /\ PlanInv' /\ ReportInv'
    BY <1>1 DEF AllocationInv, MapsInv, ItemInv, PlaceInv, PlanInv, ReportInv,
                Requests, resources
<1> QED  BY <1>2, <1>3, <1>4 DEF AllocationInv

-----------------------------------------------------------------------------
(* The theorems *)

\* Every call, in every state the system can be in, leaves the books, the
\* maps, the requests and the plans in order.
THEOREM AllocationInvariant == Spec => []AllocationInv
<1>1. AllocationInv /\ [Next]_vars => AllocationInv'
    <2> SUFFICES ASSUME AllocationInv, [Next]_vars  PROVE AllocationInv'
        OBVIOUS
    <2>1. CASE Environment
        BY <2>1, TickStep, ReceiveStep, ReportStep, DeviceHaltsStep
           DEF Environment
    <2>2. ASSUME NEW x \in active, LowWorker(x)  PROVE AllocationInv'
        BY <2>2, LowPlanStep, LowPlaceStep, LowCommitStep, LowRejectStep
           DEF LowWorker
    <2>3. ASSUME NEW x \in waiting, Serve(x)  PROVE AllocationInv'
        BY <2>3, LowStartStep, HighAllocateStep, HaltStep, StateUpdateStep,
           CrashStep DEF Serve
    <2>4. CASE UNCHANGED vars
        <3>1. TypeOK'
            BY <2>4 DEF AllocationInv, TypeOK, vars, resources
        <3>2. Booked'
            BY <2>4, StillBooked DEF AllocationInv, vars
        <3>3. MapsInv' /\ ItemInv' /\ PlaceInv' /\ PlanInv' /\ ReportInv'
            BY <2>4 DEF AllocationInv, MapsInv, ItemInv, PlaceInv, PlanInv,
                        ReportInv, Requests, vars, resources
        <3> QED  BY <3>1, <3>2, <3>3 DEF AllocationInv
    <2> QED  BY <2>1, <2>2, <2>3, <2>4 DEF Next
<1> QED  BY <1>1, Initially, PTL DEF Spec

\* Every variable keeps its type; the ledger and the windows hold real times.
THEOREM AllocationTypes == Spec => []TypeOK
<1>1. AllocationInv => TypeOK
    BY DEF AllocationInv
<1> QED  BY <1>1, AllocationInvariant, PTL

\* How often something is in a sequence without repetitions.
LEMMA OnceIn ==
    ASSUME NEW T, NEW s \in Seq(T), Distinct(s), NEW e
    PROVE  Cardinality({i \in DOMAIN s : s[i] = e}) =
                IF e \in ToSet(s) THEN 1 ELSE 0
<1> DEFINE I == {i \in DOMAIN s : s[i] = e}
<1>1. /\ DOMAIN s = 1 .. Len(s) /\ Len(s) \in Nat
      /\ \A i \in 1 .. Len(s) : s[i] \in ToSet(s)
      /\ \A d \in ToSet(s) : \E i \in 1 .. Len(s) : d = s[i]
    BY Elements
<1>2. CASE e \in ToSet(s)
    <2>1. PICK i \in 1 .. Len(s) : e = s[i]
        BY <1>1, <1>2
    <2>2. \A j \in 1 .. Len(s) : j < i \/ i < j => s[j] # e
        BY <2>1 DEF Distinct
    <2>3. I = {i}
        BY <1>1, <2>1, <2>2
    <2> HIDE DEF I
    <2> QED  BY <1>2, <2>3, FS_Singleton DEF I
<1>3. CASE e \notin ToSet(s)
    <2>1. I = {}
        BY <1>1, <1>3
    <2> HIDE DEF I
    <2> QED  BY <1>3, <2>1, FS_EmptySet DEF I
<1> QED  BY <1>2, <1>3

\* The maps, the devices and the results agree on what is allocated where.
THEOREM BooksAlwaysAgree == Spec => []BooksAgree
<1>1. AllocationInv => BooksAgree
    <2> SUFFICES ASSUME AllocationInv  PROVE BooksAgree
        OBVIOUS
    <2>1. /\ DeviceBook(DNNS, result, off_total \cup {})
          /\ ResultBook(result, off_total, {})
          /\ DNNS \in [Host -> Seq(Dnn)]
        BY DEF AllocationInv, Booked, Books, BookTypes
    <2>2. off_total = off_low \cup off_high
        BY DEF AllocationInv, MapsInv
    <2>3. ASSUME NEW d \in Dnn, NEW h \in Host
          PROVE  Cardinality({i \in DOMAIN DNNS[h] : DNNS[h][i] = d}) =
                    IF d \in off_total /\ result[d].host = h THEN 1 ELSE 0
        <3> DEFINE s == DNNS[h]
        <3>1. /\ s \in Seq(Dnn) /\ Distinct(s)
              /\ d \in ToSet(s) <=> d \in off_total /\ result[d].host = h
            BY <2>1 DEF DeviceBook
        <3> HIDE DEF s
        <3>2. Cardinality({i \in DOMAIN s : s[i] = d}) =
                    IF d \in ToSet(s) THEN 1 ELSE 0
            BY <3>1, OnceIn
        <3> QED  BY <3>1, <3>2 DEF s
    <2>4. ASSUME NEW d \in off_total
          PROVE  result[d].host \in Host /\ (d \in off_low <=> result[d].low)
        <3>1. result[d].host \in Host
            BY <2>1 DEF ResultBook
        <3>2. d \in off_low <=> result[d].low
            BY <2>2 DEF AllocationInv, MapsInv
        <3> QED  BY <3>1, <3>2
    <2> QED  BY <2>2, <2>3, <2>4 DEF BooksAgree
<1> QED  BY <1>1, AllocationInvariant, PTL

\* What the ledger is, in a state of the system.
LEMMA LedgerBook ==
    ASSUME AllocationInv
    PROVE  /\ network_link \in Seq(Link) /\ off_total \subseteq Dnn
           /\ result \in [Dnn -> Result]
           /\ LinkBook(network_link, result, Due(result, off_total, {}))
           /\ DOMAIN network_link = 1 .. Len(network_link)
           /\ \A i \in DOMAIN network_link :
                network_link[i] \in ToSet(network_link)
           /\ \A l \in ToSet(network_link) :
                \E i \in DOMAIN network_link : l = network_link[i]
<1>1. /\ network_link \in Seq(Link) /\ off_total \subseteq Dnn
      /\ result \in [Dnn -> Result]
      /\ LinkBook(network_link, result, Due(result, off_total, {}))
    BY DEF AllocationInv, Booked, Books, BookTypes
<1> QED  BY <1>1, Elements

\* The ledger holds just the links of the DNNs allocated, and the transfers
\* that halts leave behind.
THEOREM LedgerIsExact == Spec => []LinksBooked
<1>1. AllocationInv => LinksBooked
    <2> SUFFICES ASSUME AllocationInv  PROVE LinksBooked
        OBVIOUS
    <2> DEFINE due == Due(result, off_total, {})
               D == DOMAIN network_link
    <2>1. /\ network_link \in Seq(Link) /\ off_total \subseteq Dnn
          /\ LinkBook(network_link, result, due)
          /\ D = 1 .. Len(network_link)
          /\ \A i \in D : network_link[i] \in ToSet(network_link)
          /\ \A l \in ToSet(network_link) : \E i \in D : l = network_link[i]
        BY LedgerBook
    <2>2. \A d \in Dnn, use \in Uses : use \in due[d] <=>
                d \in off_total /\ (use = "transfer" => Remote(d))
        BY DEF Due, Remote, Moved
    <2> HIDE DEF due
    <2>3. ASSUME NEW d \in Dnn, NEW use \in Uses
          PROVE  Cardinality(LinksFor(d, use)) =
                    IF d \in off_total /\ (use = "transfer" => Remote(d))
                    THEN 1 ELSE 0
        <3> DEFINE I == LinksFor(d, use)
        <3>1. I = {i \in D : /\ network_link[i].dnn = d
                             /\ network_link[i].use = use
                             /\ network_link[i].run = result[d].run}
            BY DEF LinksFor
        <3> HIDE DEF I
        <3>2. CASE use \in due[d]
            <4>1. Has(network_link, d, use, result[d].run)
                BY <2>1, <3>2 DEF LinkBook
            <4>2. PICK i \in D : i \in I
                BY <2>1, <3>1, <4>1 DEF Has
            <4>3. \A j \in D : j < i \/ i < j =>
                        ~SameName(network_link[i], network_link[j])
                BY <2>1 DEF LinkBook, DistinctNames, SameName
            <4>4. I = {i}
                BY <2>1, <3>1, <4>2, <4>3 DEF SameName
            <4> QED  BY <2>2, <3>2, <4>4, FS_Singleton DEF I
        <3>3. CASE use \notin due[d]
            <4>1. \A i \in I : FALSE
                BY <2>1, <3>1, <3>3 DEF LinkBook, InTime
            <4>2. I = {}
                BY <4>1
            <4> QED  BY <2>2, <3>3, <4>2, FS_EmptySet DEF I
        <3> QED  BY <3>2, <3>3
    <2>4. ASSUME NEW i \in D,
                 network_link[i].run # result[network_link[i].dnn].run
          PROVE  /\ network_link[i].use = "transfer"
                 /\ network_link[i].run < result[network_link[i].dnn].run
        <3> DEFINE l == network_link[i]
        <3>1. InTime(l, result[l.dnn], due[l.dnn]) /\ l \in Link
            BY <2>1, InLedger DEF LinkBook
        <3>2. l.run \in Nat /\ result[l.dnn].run \in Nat
            BY <3>1 DEF Link, AllocationInv, TypeOK, Result
        <3> QED  BY <2>4, <3>1, <3>2 DEF InTime
    <2> QED  BY <2>3, <2>4 DEF LinksBooked
<1> QED  BY <1>1, AllocationInvariant, PTL

\* A DNN waits for its data, and its update for the DNN.
THEOREM PhasesAlwaysInOrder == Spec => []PhasesInOrder
<1>1. AllocationInv => PhasesInOrder
    <2> SUFFICES ASSUME AllocationInv, NEW d \in off_total
                 PROVE  /\ \A i \in LinksFor(d, "upload") :
                            /\ network_link[i].fin <= result[d].start
                            /\ \A j \in LinksFor(d, "transfer") :
                                network_link[i].fin < network_link[j].start
                        /\ \A j \in LinksFor(d, "transfer") :
                            network_link[j].fin < result[d].start
                        /\ \A k \in LinksFor(d, "update") :
                            result[d].fin < network_link[k].start
        BY DEF PhasesInOrder
    <2>1. \A use : \A i \in LinksFor(d, use) :
            /\ network_link[i] \in ToSet(network_link)
            /\ network_link[i].dnn = d /\ network_link[i].use = use
            /\ network_link[i].run = result[d].run
        BY LedgerBook DEF LinksFor
    <2>2. \A use : \A i \in LinksFor(d, use) :
            Timed(network_link[i], result[d])
        BY <2>1, LedgerBook DEF LinkBook, InTime
    <2>3. \A i \in LinksFor(d, "upload"), j \in LinksFor(d, "transfer") :
            network_link[i].fin < network_link[j].start
        BY <2>1, LedgerBook DEF LinkBook
    <2> QED  BY <2>1, <2>2, <2>3 DEF Timed
<1> QED  BY <1>1, AllocationInvariant, PTL

\* A high complexity DNN is allocated in time, or not at all.
THEOREM HighAlwaysInTime == Spec => []HighMeetsDeadline
<1>1. AllocationInv => HighMeetsDeadline
    BY DEF AllocationInv, Booked, Books, ResultBook, MapsInv, HighMeetsDeadline
<1> QED  BY <1>1, AllocationInvariant, PTL

\* What was asked for is in one place, whoever preempts whom.
THEOREM AlwaysAccounted == Spec => []Accounted
<1>1. AllocationInv => Accounted
    <2> SUFFICES ASSUME AllocationInv, NEW d \in Dnn
                 PROVE  Cardinality(
                            {x \in waiting :
                                /\ x.type \in {"low_complexity",
                                               "high_complexity"}
                                /\ d \in ToSet(x.dnns)})
                        + Cardinality({x \in active : d \in ToSet(x.dnns)})
                        + Cardinality({d} \cap off_total)
                            = IF outcome[d] = "asked" THEN 1 ELSE 0
        BY DEF Accounted
    <2> DEFINE W == {x \in waiting :
                        /\ x.type \in {"low_complexity", "high_complexity"}
                        /\ d \in ToSet(x.dnns)}
               A == {x \in active : d \in ToSet(x.dnns)}
               B == {d} \cap off_total
    <2>1. /\ W \cup A = {x \in Requests : d \in ToSet(x.dnns)}
          /\ W \cap A = {}
        BY DEF Requests, AllocationInv, PlaceInv
    <2>2. /\ \A x, y \in W \cup A : x = y
          /\ W \cup A # {} => d \notin off_total /\ outcome[d] = "asked"
          /\ d \in off_total => outcome[d] = "asked"
          /\ outcome[d] = "asked" => d \in off_total \/ W \cup A # {}
        BY <2>1 DEF AllocationInv, PlaceInv
    <2> HIDE DEF W, A
    <2>3. /\ \A x : Cardinality({x}) = 1
          /\ Cardinality({}) = 0
        BY FS_Singleton, FS_EmptySet
    <2>4. CASE d \in off_total
        <3>1. W = {} /\ A = {} /\ B = {d}
            BY <2>2, <2>4
        <3> HIDE DEF B
        <3>2. Cardinality(W) = 0 /\ Cardinality(A) = 0 /\ Cardinality(B) = 1
            BY <2>3, <3>1
        <3> QED  BY <2>2, <2>4, <3>2 DEF W, A, B
    <2>5. CASE d \notin off_total
        <3>1. B = {}
            BY <2>5
        <3> HIDE DEF B
        <3>2. Cardinality(B) = 0
            BY <2>3, <3>1
        <3>3. CASE W # {}
            <4>1. PICK x : x \in W
                BY <3>3
            <4>2. W = {x} /\ A = {}
                BY <2>1, <2>2, <4>1
            <4>3. Cardinality(W) = 1 /\ Cardinality(A) = 0
                BY <2>3, <4>2
            <4> QED  BY <2>2, <3>2, <3>3, <4>3 DEF W, A, B
        <3>4. CASE A # {}
            <4>1. PICK x : x \in A
                BY <3>4
            <4>2. A = {x} /\ W = {}
                BY <2>1, <2>2, <4>1
            <4>3. Cardinality(W) = 0 /\ Cardinality(A) = 1
                BY <2>3, <4>2
            <4> QED  BY <2>2, <3>2, <3>4, <4>3 DEF W, A, B
        <3>5. CASE W = {} /\ A = {}
            <4>1. Cardinality(W) = 0 /\ Cardinality(A) = 0
                BY <2>3, <3>5
            <4> QED  BY <2>2, <2>5, <3>2, <3>5, <4>1 DEF W, A, B
        <3> QED  BY <3>3, <3>4, <3>5
    <2> QED  BY <2>4, <2>5
<1> QED  BY <1>1, AllocationInvariant, PTL

\* A DNN leaves its device, and its result may change: nobody is crowded who
\* was not before.
LEMMA LeaverCrowdsNone ==
    ASSUME AllocationInv, NEW d \in off_total,
           DNNS' = [DNNS EXCEPT ![result[d].host] = Without(@, d)],
           result' \in [Dnn -> Result],
           \A e \in Dnn \ {d} : result'[e] = result[e]
    PROVE  \A h \in Host :
                Crowded(DNNS'[h], result') => Crowded(DNNS[h], result)
<1> SUFFICES ASSUME NEW h \in Host, Crowded(DNNS'[h], result')
             PROVE  Crowded(DNNS[h], result)
    OBVIOUS
<1>1. /\ DNNS \in [Host -> Seq(Dnn)] /\ result \in [Dnn -> Result]
      /\ DeviceBook(DNNS, result, off_total)
    BY DEF AllocationInv, Booked, Books, BookTypes
<1>2. /\ DNNS[h] \in Seq(Dnn) /\ Distinct(DNNS[h])
      /\ ToSet(DNNS[h]) = {e \in off_total : result[e].host = h}
      /\ ToSet(DNNS[h]) \subseteq Dnn
    BY <1>1, Elements DEF DeviceBook
<1>3. CASE h = result[d].host
    <2>1. Crowded(Without(DNNS[h], d), result')
        BY <1>1, <1>3
    <2> QED  BY <1>1, <1>2, <2>1, CrowdedLeft
<1>4. CASE h # result[d].host
    <2>1. DNNS'[h] = DNNS[h]
        BY <1>1, <1>4
    <2>2. \A e \in ToSet(DNNS[h]) : result'[e] = result[e]
        BY <1>2, <1>4
    <2>3. Crowded(DNNS[h], result')
        BY <2>1
    <2> QED  BY <1>1, <1>2, <2>2, <2>3, CrowdedAlike
<1> QED  BY <1>3, <1>4

\* No step but a low worker's booking crowds a device.
LEMMA CrowdedByLows ==
    ASSUME AllocationInv, [Next]_vars, off_low' = off_low
    PROVE  \A h \in Host :
                Crowded(DNNS'[h], result') => Crowded(DNNS[h], result)
<1>1. CASE DNNS' = DNNS /\ result' = result
    BY <1>1
<1>2. ASSUME NEW x \in active, LowCommit(x)
      PROVE  FALSE
    <2>1. /\ x.dnns \in Seq(Dnn) /\ Len(x.dnns) = 1 /\ x \in Item
        BY DEF AllocationInv, TypeOK, ItemInv, Item
    <2>2. Head(x.dnns) \in ToSet(x.dnns)
        BY <2>1, TheDnn
    <2>3. Head(x.dnns) \notin off_total
        BY <2>2 DEF AllocationInv, PlaceInv, Requests
    <2>4. Head(x.dnns) \in off_low' /\ Head(x.dnns) \notin off_low
        BY <1>2, <2>3 DEF LowCommit, AllocationInv, MapsInv
    <2> QED  BY <2>4
<1>3. ASSUME NEW x \in waiting, HighAllocate(x)
      PROVE  \A h \in Host :
                Crowded(DNNS'[h], result') => Crowded(DNNS[h], result)
    <2> DEFINE v == HighAllocation(x)
    <2>1. Draft(v, x, {})
        BY <1>3, HighWorksOut
    <2>2. DNNS' = v.DNNS /\ result' = v.result
        BY <1>3 DEF HighAllocate
    <2> HIDE DEF v
    <2> QED  BY <2>1, <2>2 DEF Draft, Calm
<1>4. ASSUME NEW x \in waiting, Halt(x)
      PROVE  \A h \in Host :
                Crowded(DNNS'[h], result') => Crowded(DNNS[h], result)
    <2> DEFINE d == DnnToPrune(x)
    <2>1. /\ x.type = "halt_req" /\ Prunable(x)
          /\ DNNS' = [DNNS EXCEPT ![result[d].host] = Without(@, d)]
          /\ result' = [result EXCEPT ![d].host = NoHost, ![d].cores = 0,
                                      ![d].start = 0, ![d].fin = 0,
                                      ![d].run = @ + 1]
        BY <1>4 DEF Halt
    <2>2. d \in off_total
        BY <2>1, PrunedBooked DEF Prunable
    <2> HIDE DEF d
    <2>3. result \in [Dnn -> Result] /\ result' \in [Dnn -> Result]
        BY <1>4, HaltStep DEF AllocationInv, TypeOK
    <2>4. \A e \in Dnn \ {d} : result'[e] = result[e]
        BY <2>1, <2>3
    <2> QED  BY <2>1, <2>2, <2>3, <2>4, LeaverCrowdsNone
<1>5. ASSUME NEW x \in waiting, StateUpdate(x)
      PROVE  \A h \in Host :
                Crowded(DNNS'[h], result') => Crowded(DNNS[h], result)
    <2> DEFINE d == Head(x.dnns)
    <2>1. /\ d \in off_total /\ result' = result
          /\ DNNS' = [DNNS EXCEPT ![result[d].host] = Without(@, d)]
        BY <1>5 DEF StateUpdate
    <2> HIDE DEF d
    <2>2. result' \in [Dnn -> Result] /\ \A e \in Dnn \ {d} : result'[e] = result[e]
        BY <2>1 DEF AllocationInv, TypeOK
    <2> QED  BY <2>1, <2>2, LeaverCrowdsNone
<1>6. CASE UNCHANGED vars
    BY <1>1, <1>6 DEF vars, resources
<1>7. CASE Environment
    BY <1>1, <1>7 DEF Environment, Tick, Receive, Report, DeviceHalts, resources
<1>8. ASSUME NEW x \in active, LowWorker(x)
      PROVE  LowCommit(x) \/ (DNNS' = DNNS /\ result' = result)
    BY <1>8 DEF LowWorker, LowPlan, LowPlace, LowReject, resources
<1>9. ASSUME NEW x \in waiting, Serve(x)
      PROVE  \/ HighAllocate(x) \/ Halt(x) \/ StateUpdate(x)
             \/ DNNS' = DNNS /\ result' = result
    BY <1>9 DEF Serve, LowStart, HaltCrashes, StateUpdateCrashes, resources
<1>10. CASE \E x \in active : LowWorker(x)
    BY <1>1, <1>2, <1>8, <1>10
<1>11. CASE \E x \in waiting : Serve(x)
    BY <1>1, <1>3, <1>4, <1>5, <1>9, <1>11
<1> QED  BY <1>6, <1>7, <1>10, <1>11 DEF Next

\* Only low workers overbook a device: every other call finds the cores it
\* promises, in whichever round and configuration, or gives some back.
THEOREM LowsAloneOverbook == Spec => OnlyLowsOverbook
<1>1. ASSUME AllocationInv, [Next]_vars
      PROVE  [Overbooked' \subseteq Overbooked \/ off_low' # off_low]_vars
    <2>1. Overbooked = {h \in Host : Crowded(DNNS[h], result)}
        BY DEF Overbooked, Crowded
    <2>2. Overbooked' = {h \in Host : Crowded(DNNS'[h], result')}
        BY DEF Overbooked, Crowded
    <2>3. CASE off_low' = off_low
        BY <1>1, <2>1, <2>2, <2>3, CrowdedByLows
    <2>4. CASE off_low' # off_low
        BY <2>4
    <2> QED  BY <2>3, <2>4
<1> QED  BY <1>1, AllocationInvariant, PTL DEF Spec, OnlyLowsOverbook

\* A state update finds its DNN in the maps unless the DNN was halted.
THEOREM OrphansWereHalted == Spec => []OnlyHaltsOrphan
<1>1. AllocationInv => OnlyHaltsOrphan
    <2> SUFFICES ASSUME AllocationInv, NEW x \in waiting,
                        x.type = "state_update"
                 PROVE  \/ Head(x.dnns) \in off_total
                        \/ result[Head(x.dnns)].run > 0
        BY DEF OnlyHaltsOrphan
    <2>1. PICK d \in Dnn : x = UpdateOf(d)
        BY DEF AllocationInv, ItemInv
    <2>2. Head(x.dnns) = d
        BY <2>1, UpdateItem
    <2>3. result[d].run \in Nat
        BY DEF AllocationInv, TypeOK, Result
    <2>4. result[d].run = 0 => d \in off_total
        BY <2>1 DEF AllocationInv, ReportInv
    <2> QED  BY <2>2, <2>3, <2>4
<1> QED  BY <1>1, AllocationInvariant, PTL
=============================================================================
