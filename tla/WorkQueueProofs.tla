-------------------------- MODULE WorkQueueProofs ---------------------------
(***************************************************************************)
(* Proofs about WorkQueue for every set of requests, every deadline and    *)
(* every number of retries. The properties follow from IInv, which adds to *)
(* them what the sequence, the stages and the place of main_loop have to   *)
(* do with each other.                                                     *)
(***************************************************************************)
EXTENDS WorkQueue, FiniteSetTheorems, SequenceTheorems, TLAPS

Started == Working \cup {"gone"}
Accepted == {"queued"} \cup Started

\* The queue holds every queued item once, the most urgent one first.
QueueInv ==
    /\ \A i, j \in 1 .. Len(work_queue) :
        work_queue[i] = work_queue[j] => i = j
    /\ Range(work_queue) = {x \in Item : stage[x] = "queued"}
    /\ \A i, j \in 1 .. Len(work_queue) :
        i < j => ~Before(work_queue[j], work_queue[i])

\* Which threads can be where, and whose items they carry.
StageInv ==
    /\ work_queue_lock \in Item => stage[work_queue_lock] \in Adding
    /\ \A x \in Item :
        /\ stage[x] = "post" => x \in External
        /\ stage[x] \in {"add_halt", "add_retry"}
            => Low(x) /\ x.attempt < MaxAttempt
        /\ stage[x] = "add_realloc" => x.type = "halt_req"
        /\ stage[x] # "none" /\ x.type = "halt_req" => x.attempt > 0
        /\ stage[x] # "none" /\ (Low(x) \/ x.type = "halt_req")
            => x.deadline = Due[x.req]

\* An item that a thread has not yet passed to add_task is nowhere.
FreshInv ==
    /\ \A t \in Item : Low(t) /\ t.attempt < MaxAttempt =>
        /\ stage[t] \in {"none", "post", "queued", "run", "add_halt"}
            => stage[HaltOf(t)] = "none"
        /\ stage[t] \in {"none", "post", "queued", "run", "add_halt",
                         "add_retry"}
            => stage[RetryOf(t)] = "none"
    /\ \A t \in Item, d \in Deadline :
        /\ t.type = "halt_req" /\ t.attempt > 0 /\ t.deadline = Due[t.req]
        /\ stage[t] \in {"none", "post", "queued", "run", "add_realloc"}
        => stage[ReallocOf(t, d)] = "none"

\* While main_loop looks for an item nothing runs; while it waits, what runs
\* is the first item it took or, if that is low, a batch of low items.
MainInv ==
    /\ main \in {"scan", "pop", "take"} => Live = {}
    /\ main \in {"pop", "take"} => current_task = <<>>
    /\ main = "pop" => work_queue # <<>> \/ work_queue_lock \in Item
    /\ main = "take" => work_queue # <<>>
    /\ main \in {"wait", "poll", "absorb"} =>
        /\ current_task # <<>>
        /\ \A x \in Live : \/ x = Head(current_task)
                           \/ Low(x) /\ Low(Head(current_task))
    /\ main \in {"take", "absorb"} <=> work_queue_lock = Main

CountInv == IsFiniteSet(Live) /\ CounterMatches

\* The halt is accepted before the retry and carried out before it starts.
OrderInv ==
    \A t \in Item : Low(t) /\ t.attempt < MaxAttempt =>
        /\ stage[t] = "add_retry" => stage[HaltOf(t)] \in Accepted
        /\ stage[RetryOf(t)] \in Accepted => stage[HaltOf(t)] \in Accepted
        /\ stage[RetryOf(t)] \in Started => stage[HaltOf(t)] = "gone"

IInv == /\ TypeOK /\ QueueInv /\ StageInv /\ FreshInv
        /\ MainInv /\ CountInv /\ OrderInv

-----------------------------------------------------------------------------
(* Lemmas about the comparator, the sort and the items workers build *)

\* An empty queue holds nothing.
LEMMA EmptyRange == Range(<<>>) = {}
<1>1. <<>> \in Seq({})
    BY EmptySeq
<1>2. Range(<<>>) \in SUBSET {}
    BY <1>1, RangeOfSeq
<1> QED  BY <1>2

\* Before is a strict order on items.
LEMMA BeforeOrder ==
    /\ \A a \in Item : ~Before(a, a)
    /\ \A a, b, c \in Item : ~Before(b, a) /\ ~Before(c, b) => ~Before(c, a)
<1>1. /\ \A a \in Item : a.deadline \in Nat
      /\ \A a \in Item : Priority[a.type] \in Nat
    <2>1. \A a \in Item : a.deadline \in Deadline /\ a.type \in Type
        BY DEF Item
    <2>2. \A y \in Type : Priority[y] \in Nat
        BY DEF Type, Priority
    <2>3. \A d \in Deadline : d \in Nat
        BY ConstantsAssumption
    <2>4. \A a \in Item : a.deadline \in Nat
        BY <2>1, <2>3, Zenon
    <2>5. \A a \in Item : Priority[a.type] \in Nat
        BY <2>1, <2>2, Zenon
    <2> QED  BY <2>4, <2>5
<1>2. \A a, b \in Item : Priority[a.type] = Priority[b.type] <=> a.type = b.type
    BY DEF Item, Priority, Type
<1> QED  BY <1>1, <1>2 DEF Before

\* Sorting a sorted queue with a new item at its end gives a sorted queue of
\* the old items and the new one, each once.
LEMMA SortsQueue ==
    ASSUME NEW q \in Seq(Item), NEW x \in Item, NEW s \in Sorts(q, x),
           \A i, j \in 1 .. Len(q) : q[i] = q[j] => i = j,
           \A i, j \in 1 .. Len(q) : i < j => ~Before(q[j], q[i]),
           x \notin Range(q)
    PROVE  /\ s \in Seq(Item)
           /\ s # <<>>
           /\ Range(s) = Range(q) \cup {x}
           /\ \A i, j \in 1 .. Len(s) : s[i] = s[j] => i = j
           /\ \A i, j \in 1 .. Len(s) : i < j => ~Before(s[j], s[i])
<1> DEFINE n == Len(q)
<1>1. n \in Nat /\ \A i \in 1 .. n : q[i] \in Item
    BY LenProperties, ElementOfSeq
<1>2. PICK k \in 1 .. n + 1 :
        /\ s = PutAt(q, k, x)
        /\ \A j \in 1 .. k - 1 : ~Before(x, q[j])
        /\ \A j \in k .. n : ~Before(q[j], x)
    BY DEF Sorts
<1>3. /\ s = [j \in 1 .. n + 1 |->
                IF j < k THEN q[j] ELSE IF j = k THEN x ELSE q[j - 1]]
      /\ s \in [1 .. n + 1 -> Item]
    BY <1>1, <1>2 DEF PutAt
<1>4. s \in Seq(Item) /\ Len(s) = n + 1
    BY <1>1, <1>3, IsASeq, LenProperties
<1>5. \A i \in 1 .. n : q[i] # x
    BY <1>1, RangeEquality
<1>6. \A i \in 1 .. n + 1 : /\ i < k => s[i] = q[i] /\ i \in 1 .. n
                            /\ i = k => s[i] = x
                            /\ i > k => s[i] = q[i - 1] /\ i - 1 \in 1 .. n
    BY <1>1, <1>3
<1>7. Range(s) = Range(q) \cup {x}
    <2>1. \A i \in 1 .. n + 1 : s[i] \in Range(q) \cup {x}
        BY <1>1, <1>6, RangeEquality
    <2>2. \A i \in 1 .. n : \E j \in 1 .. n + 1 : s[j] = q[i]
        <3> TAKE i \in 1 .. n
        <3>1. CASE i < k   BY <1>1, <1>6, <3>1
        <3>2. CASE i >= k
            <4>1. i + 1 \in 1 .. n + 1 /\ i + 1 > k /\ (i + 1) - 1 = i
                BY <1>1, <3>2
            <4> QED  BY <1>6, <4>1
        <3> QED  BY <1>1, <3>1, <3>2
    <2> QED  BY <1>1, <1>4, <1>6, <2>1, <2>2, RangeEquality
<1>8. \A i, j \in 1 .. n + 1 : s[i] = s[j] => i = j
    BY <1>1, <1>5, <1>6
<1>9. \A i, j \in 1 .. n + 1 : i < j => ~Before(s[j], s[i])
    <2> SUFFICES ASSUME NEW i \in 1 .. n + 1, NEW j \in 1 .. n + 1, i < j
                 PROVE  ~Before(s[j], s[i])
        OBVIOUS
    <2>1. CASE j < k  BY <1>1, <1>6, <2>1
    <2>2. CASE j = k
        <3>1. i \in 1 .. k - 1 /\ s[i] = q[i] /\ s[j] = x
            BY <1>1, <1>6, <2>2
        <3> QED  BY <1>2, <3>1
    <2>3. CASE j > k /\ i = k
        <3>1. j - 1 \in k .. n /\ s[j] = q[j - 1] /\ s[i] = x
            BY <1>1, <1>6, <2>3
        <3> QED  BY <1>2, <3>1
    <2>4. CASE j > k /\ i > k
        BY <1>1, <1>6, <2>4
    <2>5. CASE j > k /\ i < k
        <3>1. i \in 1 .. n /\ j - 1 \in 1 .. n /\ i < j - 1
              /\ s[i] = q[i] /\ s[j] = q[j - 1]
            BY <1>1, <1>6, <2>5
        <3> QED  BY <3>1
    <2> QED  BY <1>1, <2>1, <2>2, <2>3, <2>4, <2>5
<1> QED  BY <1>1, <1>4, <1>7, <1>8, <1>9, EmptySeq

\* Popping the front of such a queue removes exactly its most urgent item.
LEMMA PopsQueue ==
    ASSUME NEW q \in Seq(Item), q # <<>>,
           \A i, j \in 1 .. Len(q) : q[i] = q[j] => i = j,
           \A i, j \in 1 .. Len(q) : i < j => ~Before(q[j], q[i])
    PROVE  /\ Head(q) \in Range(q) /\ Head(q) \in Item
           /\ Tail(q) \in Seq(Item)
           /\ Range(Tail(q)) = Range(q) \ {Head(q)}
           /\ \A y \in Range(q) : ~Before(y, Head(q))
           /\ \A i, j \in 1 .. Len(Tail(q)) : Tail(q)[i] = Tail(q)[j] => i = j
           /\ \A i, j \in 1 .. Len(Tail(q)) :
                i < j => ~Before(Tail(q)[j], Tail(q)[i])
<1> DEFINE n == Len(q)
           t == Tail(q)
<1>1. n \in Nat /\ n > 0 /\ Head(q) = q[1] /\ \A i \in 1 .. n : q[i] \in Item
    BY LenProperties, ElementOfSeq, EmptySeq
<1>2. /\ t \in Seq(Item)
      /\ Len(t) = n - 1
      /\ \A i \in 1 .. n - 1 : t[i] = q[i + 1]
    BY HeadTailProperties
<1>3. Range(q) = {q[i] : i \in 1 .. n} /\ Range(t) = {t[i] : i \in 1 .. Len(t)}
    <2>1. \A s \in Seq(Item) : Range(s) = {s[i] : i \in 1 .. Len(s)}
        BY RangeEquality
    <2> QED  BY <1>2, <2>1
<1>4. Range(t) = Range(q) \ {Head(q)}
    <2>1. \A i \in 1 .. n - 1 : i + 1 \in 1 .. n /\ i + 1 # 1
        BY <1>1
    <2>2. \A i \in 1 .. n : i # 1 => i - 1 \in 1 .. n - 1 /\ t[i - 1] = q[i]
        <3> TAKE i \in 1 .. n
        <3> HAVE i # 1
        <3>1. i - 1 \in 1 .. n - 1 /\ (i - 1) + 1 = i
            BY <1>1
        <3> QED  BY <1>2, <3>1
    <2>3. 1 \in 1 .. n
        BY <1>1
    <2>4. ASSUME NEW y \in Range(t)  PROVE y \in Range(q) \ {Head(q)}
        <3>1. PICK i \in 1 .. n - 1 : y = q[i + 1]
            BY <1>2, <1>3
        <3> QED  BY <1>1, <1>3, <2>1, <2>3, <3>1
    <2>5. ASSUME NEW y \in Range(q) \ {Head(q)}  PROVE y \in Range(t)
        <3>1. PICK i \in 1 .. n : y = q[i] /\ i # 1
            BY <1>1, <1>3
        <3> QED  BY <1>2, <1>3, <2>2, <3>1
    <2> QED  BY <2>4, <2>5
<1>5. \A y \in Range(q) : ~Before(y, Head(q))
    BY <1>1, <1>3, BeforeOrder
<1>6. \A i, j \in 1 .. n - 1 : t[i] = t[j] => i = j
    BY <1>1, <1>2
<1>7. \A i, j \in 1 .. n - 1 : i < j => ~Before(t[j], t[i])
    <2> TAKE i, j \in 1 .. n - 1
    <2> HAVE i < j
    <2>1. i + 1 \in 1 .. n /\ j + 1 \in 1 .. n /\ i + 1 < j + 1
        BY <1>1
    <2> QED  BY <1>2, <2>1
<1> QED  BY <1>1, <1>2, <1>3, <1>4, <1>5, <1>6, <1>7

\* The items a worker builds are items, and belong to that worker alone.
LEMMA BuiltItems ==
    /\ \A t \in Item : Low(t) /\ t.attempt < MaxAttempt =>
            /\ HaltOf(t) \in Item /\ RetryOf(t) \in Item
            /\ HaltOf(t) \notin External /\ RetryOf(t) \notin External
            /\ HaltOf(t) # t /\ RetryOf(t) # t
    /\ \A t \in Item : \A d \in Deadline : ReallocOf(t, d) \in Item
    /\ \A t, u \in Item : Low(t) /\ Low(u) =>
            /\ HaltOf(t) = HaltOf(u) => t = u
            /\ RetryOf(t) = RetryOf(u) => t = u
<1>1. \A t \in Item : t.attempt \in 0 .. MaxAttempt /\ t.type \in Type
                     /\ t.req \in Req /\ t.deadline \in Deadline
    BY DEF Item
<1>2. \A t, u \in Item : /\ t.type = u.type /\ t.req = u.req
                        /\ t.attempt = u.attempt /\ t.deadline = u.deadline
                        => t = u
    BY DEF Item
<1>3. \A t \in Item : Low(t) /\ t.attempt < MaxAttempt =>
            /\ HaltOf(t) \in Item /\ RetryOf(t) \in Item
            /\ HaltOf(t) \notin External /\ RetryOf(t) \notin External
            /\ HaltOf(t) # t /\ RetryOf(t) # t
    BY <1>1, ConstantsAssumption
       DEF HaltOf, RetryOf, Item, Type, External, Low
<1>4. \A t \in Item : \A d \in Deadline : ReallocOf(t, d) \in Item
    BY <1>1 DEF ReallocOf, Item, Type
<1>5. \A t, u \in Item : Low(t) /\ Low(u) =>
            /\ HaltOf(t) = HaltOf(u) => t = u
            /\ RetryOf(t) = RetryOf(u) => t = u
    <2> SUFFICES ASSUME NEW t \in Item, NEW u \in Item, Low(t), Low(u),
                        HaltOf(t) = HaltOf(u) \/ RetryOf(t) = RetryOf(u)
                 PROVE  t = u
        OBVIOUS
    <2>1. /\ t.req = u.req
          /\ t.attempt + 1 = u.attempt + 1
          /\ t.deadline = u.deadline
        BY DEF HaltOf, RetryOf
    <2> QED  BY <1>1, <1>2, <2>1, ConstantsAssumption DEF Low
<1> QED  BY <1>3, <1>4, <1>5

-----------------------------------------------------------------------------
(* What the actions that move items do to the queue, its stages and workers *)

\* add_task puts one item, that nobody held but its thread, into the queue;
\* no worker starts or ends.
LEMMA Added ==
    ASSUME IInv, NEW t \in Item, AddTask(t)
    PROVE  \E x \in Item :
            /\ x \in Passes(t)
            /\ stage[t] \in Adding
            /\ stage' = [stage EXCEPT ![t] = Returns(t), ![x] = "queued"]
            /\ IF stage[t] = "post" THEN x = t ELSE x # t /\ stage[x] = "none"
            /\ work_queue' \in Seq(Item) /\ work_queue' # <<>>
            /\ QueueInv'
            /\ Live' = Live
<1> USE DEF IInv
<1>1. stage[t] \in Adding /\ stage \in [Item -> Stage]
    BY DEF AddTask, StageInv, TypeOK
<1>2. PICK x \in Passes(t) :
        /\ work_queue' \in Sorts(work_queue, x)
        /\ stage' = [stage EXCEPT ![t] = Returns(t), ![x] = "queued"]
    BY DEF AddTask
<1>3. /\ x \in Item
      /\ IF stage[t] = "post" THEN x = t ELSE x # t /\ stage[x] = "none"
    <2>1. CASE stage[t] = "post"
        BY <1>2, <2>1 DEF Passes
    <2>2. CASE stage[t] = "add_halt"
        <3>1. x = HaltOf(t) /\ Low(t) /\ t.attempt < MaxAttempt
            BY <1>2, <2>2 DEF Passes, StageInv
        <3> QED  BY <2>2, <3>1, BuiltItems DEF FreshInv
    <2>3. CASE stage[t] = "add_retry"
        <3>1. x = RetryOf(t) /\ Low(t) /\ t.attempt < MaxAttempt
            BY <1>2, <2>3 DEF Passes, StageInv
        <3> QED  BY <2>3, <3>1, BuiltItems DEF FreshInv
    <2>4. CASE stage[t] = "add_realloc"
        <3>1. PICK d \in Deadline : x = ReallocOf(t, d)
            BY <1>2, <2>4 DEF Passes
        <3>2. /\ t.type = "halt_req" /\ t.attempt > 0
              /\ t.deadline = Due[t.req]
            BY <2>4 DEF StageInv
        <3>3. stage[x] = "none"
            BY <2>4, <3>1, <3>2 DEF FreshInv
        <3> QED  BY <2>4, <3>1, <3>3, BuiltItems
    <2> QED  BY <1>1, <2>1, <2>2, <2>3, <2>4 DEF Adding
<1>4. x \notin Range(work_queue)
    BY <1>1, <1>3 DEF QueueInv, Adding
<1>5. /\ work_queue' \in Seq(Item) /\ work_queue' # <<>>
      /\ Range(work_queue') = Range(work_queue) \cup {x}
      /\ \A i, j \in 1 .. Len(work_queue') :
            work_queue'[i] = work_queue'[j] => i = j
      /\ \A i, j \in 1 .. Len(work_queue') :
            i < j => ~Before(work_queue'[j], work_queue'[i])
    <2> DEFINE s == work_queue'
    <2>1. work_queue \in Seq(Item) /\ s \in Sorts(work_queue, x)
        BY <1>2 DEF TypeOK
    <2>2. /\ \A i, j \in 1 .. Len(work_queue) :
                work_queue[i] = work_queue[j] => i = j
          /\ \A i, j \in 1 .. Len(work_queue) :
                i < j => ~Before(work_queue[j], work_queue[i])
        BY DEF QueueInv
    <2> HIDE DEF s
    <2>3. /\ s \in Seq(Item) /\ s # <<>>
          /\ Range(s) = Range(work_queue) \cup {x}
          /\ \A i, j \in 1 .. Len(s) : s[i] = s[j] => i = j
          /\ \A i, j \in 1 .. Len(s) : i < j => ~Before(s[j], s[i])
        BY <1>3, <1>4, <2>1, <2>2, SortsQueue
    <2> QED  BY <2>3 DEF s
<1>6. \A y \in Item : stage'[y] = IF y = x THEN "queued"
                                 ELSE IF y = t THEN Returns(t) ELSE stage[y]
    BY <1>1, <1>2, <1>3
<1>7. stage[t] # "post" => Returns(t) \in {"add_retry", "end"}
    BY DEF Returns
<1>8. {y \in Item : stage'[y] = "queued"}
        = {y \in Item : stage[y] = "queued"} \cup {x}
    BY <1>1, <1>3, <1>6, <1>7 DEF Adding
<1>9. Live' = Live
    BY <1>1, <1>3, <1>6, <1>7 DEF Live, Working, Adding
<1>10. QueueInv'
    BY <1>5, <1>8 DEF QueueInv
<1> QED  BY <1>1, <1>2, <1>3, <1>5, <1>9, <1>10

\* Dispatching takes the most urgent item out of the queue and starts its
\* worker, which did not run before.
LEMMA Dispatched ==
    ASSUME IInv, work_queue # <<>>, Dispatch
    PROVE  /\ Head(work_queue) \in Item
           /\ stage[Head(work_queue)] = "queued"
           /\ \A y \in Item : stage[y] = "queued" => ~Before(y, Head(work_queue))
           /\ stage' = [stage EXCEPT ![Head(work_queue)] = "run"]
           /\ work_queue' \in Seq(Item)
           /\ current_task' \in Seq(Item) /\ current_task' # <<>>
           /\ Head(current_task') = IF current_task = <<>>
                                    THEN Head(work_queue)
                                    ELSE Head(current_task)
           /\ QueueInv'
           /\ Live' = Live \cup {Head(work_queue)}
           /\ Head(work_queue) \notin Live
           /\ CountInv'
<1> USE DEF IInv
<1> DEFINE h == Head(work_queue)
<1>1. /\ work_queue \in Seq(Item) /\ current_task \in Seq(Item)
      /\ stage \in [Item -> Stage] /\ thread_counter \in Int
    BY DEF TypeOK
<1>2. /\ h \in Range(work_queue) /\ h \in Item
      /\ Tail(work_queue) \in Seq(Item)
      /\ Range(Tail(work_queue)) = Range(work_queue) \ {h}
      /\ \A y \in Range(work_queue) : ~Before(y, h)
      /\ \A i, j \in 1 .. Len(Tail(work_queue)) :
            Tail(work_queue)[i] = Tail(work_queue)[j] => i = j
      /\ \A i, j \in 1 .. Len(Tail(work_queue)) :
            i < j => ~Before(Tail(work_queue)[j], Tail(work_queue)[i])
    BY <1>1, PopsQueue DEF QueueInv
<1>3. stage[h] = "queued" /\ h \notin Live
    BY <1>2 DEF QueueInv, Live, Working
<1>4. \A y \in Item : stage[y] = "queued" => ~Before(y, h)
    BY <1>2 DEF QueueInv
<1>5. /\ work_queue' = Tail(work_queue)
      /\ current_task' = Append(current_task, h)
      /\ stage' = [stage EXCEPT ![h] = "run"]
      /\ thread_counter' = thread_counter + 1
    BY DEF Dispatch
<1>6. /\ current_task' \in Seq(Item) /\ current_task' # <<>>
      /\ Head(current_task') = IF current_task = <<>>
                               THEN h ELSE Head(current_task)
    BY <1>1, <1>2, <1>5
<1>7. \A y \in Item : stage'[y] = IF y = h THEN "run" ELSE stage[y]
    BY <1>1, <1>2, <1>5
<1>8. Live' = Live \cup {h}
    BY <1>2, <1>7 DEF Live, Working
<1>9. QueueInv'
    <2>1. {y \in Item : stage'[y] = "queued"}
            = {y \in Item : stage[y] = "queued"} \ {h}
        BY <1>2, <1>7
    <2> QED  BY <1>2, <1>5, <2>1 DEF QueueInv
<1>10. CountInv'
    <2>1. /\ IsFiniteSet(Live \cup {h})
          /\ Cardinality(Live \cup {h}) = Cardinality(Live) + 1
        BY <1>3, FS_AddElement DEF CountInv
    <2> QED  BY <1>5, <1>8, <2>1 DEF CountInv, CounterMatches
<1> QED  BY <1>2, <1>3, <1>4, <1>5, <1>6, <1>8, <1>9, <1>10

\* A worker moving on between its start and its decrement stays alive.
LEMMA Moved ==
    ASSUME IInv, NEW w \in Item, NEW s \in Working,
           stage[w] \in Working, MoveTo(w, s)
    PROVE  /\ stage' = [stage EXCEPT ![w] = s]
           /\ QueueInv'
           /\ Live' = Live
           /\ CountInv'
<1> USE DEF IInv
<1>1. \A y \in Item : stage'[y] = IF y = w THEN s ELSE stage[y]
    BY DEF MoveTo, TypeOK
<1>2. Live' = Live
    BY <1>1 DEF Live
<1>3. {y \in Item : stage'[y] = "queued"} = {y \in Item : stage[y] = "queued"}
    BY <1>1 DEF Working
<1>4. work_queue' = work_queue /\ thread_counter' = thread_counter
    BY DEF MoveTo
<1> QED  BY <1>2, <1>3, <1>4 DEF MoveTo, QueueInv, CountInv, CounterMatches

\* decrementThreadCounter ends one live worker and counts it off.
LEMMA Decremented ==
    ASSUME IInv, NEW w \in Item, Decrement(w)
    PROVE  /\ QueueInv'
           /\ Live' = Live \ {w}
           /\ CountInv'
<1> USE DEF IInv
<1>1. \A y \in Item : stage'[y] = IF y = w THEN "gone" ELSE stage[y]
    BY DEF Decrement, TypeOK
<1>2. w \in Live /\ Live' = Live \ {w}
    BY <1>1 DEF Live, Working, Decrement
<1>3. {y \in Item : stage'[y] = "queued"} = {y \in Item : stage[y] = "queued"}
    BY <1>1 DEF Decrement
<1>4. QueueInv'
    BY <1>3 DEF QueueInv, Decrement
<1>5. CountInv'
    <2>1. /\ IsFiniteSet(Live \ {w})
          /\ Cardinality(Live \ {w}) = Cardinality(Live) - 1
        BY <1>2, FS_RemoveElement DEF CountInv
    <2> QED  BY <1>2, <2>1 DEF CountInv, CounterMatches, Decrement
<1> QED  BY <1>2, <1>4, <1>5

-----------------------------------------------------------------------------
(* Every step preserves the inductive invariant, one conjunct at a time *)

\* The steps that leave the queue and the stages alone.
Quiet ==
    \/ \E t \in Item : Lock(t)
    \/ MainScan \/ MainIdle \/ MainLock \/ MainPoll \/ MainDone \/ MainRelease
    \/ UNCHANGED vars

\* A worker leaves "run".
Leaves(w) == Complete(w) \/ LowReject(w) \/ HaltWork(w)

\* How the steps are told apart below.
LEMMA Steps ==
    ASSUME [Next]_vars
    PROVE  \/ \E x \in External : Receive(x)
           \/ \E t \in Item : AddTask(t)
           \/ MainPop
           \/ MainAbsorb
           \/ \E w \in Item : Leaves(w)
           \/ \E w \in Item : Decrement(w)
           \/ Quiet
BY DEF Next, MainNext, WorkerNext, Leaves, Quiet

\* A quiet step moves no item and starts or ends no worker.
LEMMA QuietLeaves ==
    ASSUME Quiet
    PROVE  work_queue' = work_queue /\ stage' = stage /\ Live' = Live
BY DEF Quiet, Lock, MainScan, MainIdle, MainLock, MainPoll, MainDone,
       MainRelease, vars, Live

\* Where a worker can go from "run", by the type of its item.
LEMMA Left ==
    ASSUME NEW w \in Item, Leaves(w)
    PROVE  \E s \in {"end", "add_halt", "add_realloc"} :
            /\ stage[w] = "run"
            /\ MoveTo(w, s)
            /\ s = "add_halt" => Low(w) /\ w.attempt < MaxAttempt
            /\ s = "add_realloc" => w.type = "halt_req"
            /\ s = "end" => w.type # "halt_req"
BY DEF Leaves, Complete, LowReject, HaltWork

\* Every step keeps the queue sorted, free of duplicates and complete.
LEMMA QueueStep ==
    ASSUME IInv, [Next]_vars
    PROVE  QueueInv'
<1>1. ASSUME NEW x \in External, Receive(x)  PROVE QueueInv'
    <2>1. x \in Item /\ stage[x] = "none"
        BY <1>1 DEF External, Receive
    <2>2. \A y \in Item : stage'[y] = IF y = x THEN "post" ELSE stage[y]
        BY <1>1, <2>1 DEF Receive, IInv, TypeOK
    <2>3. {y \in Item : stage'[y] = "queued"}
            = {y \in Item : stage[y] = "queued"}
        BY <2>1, <2>2
    <2> QED  BY <1>1, <2>3 DEF Receive, QueueInv, IInv
<1>2. ASSUME NEW t \in Item, AddTask(t)  PROVE QueueInv'
    BY <1>2, Added
<1>3. CASE MainPop
    BY <1>3, Dispatched DEF MainPop
<1>4. CASE MainAbsorb
    BY <1>4, Dispatched DEF MainAbsorb, Joins
<1>5. ASSUME NEW w \in Item, Leaves(w)  PROVE QueueInv'
    BY <1>5, Left, Moved DEF Working
<1>6. ASSUME NEW w \in Item, Decrement(w)  PROVE QueueInv'
    BY <1>6, Decremented
<1>7. CASE Quiet
    BY <1>7, QuietLeaves DEF QueueInv, IInv
<1> QED  BY <1>1, <1>2, <1>3, <1>4, <1>5, <1>6, <1>7, Steps

\* Every step keeps the counter equal to the number of live workers.
LEMMA CountStep ==
    ASSUME IInv, [Next]_vars
    PROVE  CountInv'
<1> USE DEF CountInv, CounterMatches
<1>1. ASSUME NEW x \in External, Receive(x)  PROVE CountInv'
    <2>1. x \in Item /\ stage[x] = "none"
        BY <1>1 DEF External, Receive
    <2>2. \A y \in Item : stage'[y] = IF y = x THEN "post" ELSE stage[y]
        BY <1>1, <2>1 DEF Receive, IInv, TypeOK
    <2>3. Live' = Live
        BY <2>1, <2>2 DEF Live, Working
    <2> QED  BY <1>1, <2>3 DEF Receive, IInv
<1>2. ASSUME NEW t \in Item, AddTask(t)  PROVE CountInv'
    BY <1>2, Added DEF AddTask, IInv
<1>3. CASE MainPop
    BY <1>3, Dispatched DEF MainPop
<1>4. CASE MainAbsorb
    BY <1>4, Dispatched DEF MainAbsorb, Joins
<1>5. ASSUME NEW w \in Item, Leaves(w)  PROVE CountInv'
    BY <1>5, Left, Moved DEF Working
<1>6. ASSUME NEW w \in Item, Decrement(w)  PROVE CountInv'
    BY <1>6, Decremented
<1>7. CASE Quiet
    \* The reset at the scan finds the counter at zero: nothing is live.
    <2>1. CASE MainScan \/ MainIdle
        <3>1. Live = {} /\ Live' = Live /\ thread_counter' = 0
            BY <1>7, <2>1, QuietLeaves DEF MainScan, MainIdle, IInv, MainInv
        <3> QED  BY <3>1, FS_EmptySet
    <2>2. CASE ~(MainScan \/ MainIdle)
        BY <1>7, <2>2, QuietLeaves
           DEF Quiet, Lock, MainLock, MainPoll, MainDone, MainRelease, vars,
               IInv
    <2> QED  BY <2>1, <2>2
<1> QED  BY <1>1, <1>2, <1>3, <1>4, <1>5, <1>6, <1>7, Steps

\* Every step keeps the types.
LEMMA TypeStep ==
    ASSUME IInv, [Next]_vars
    PROVE  TypeOK'
<1>1. TypeOK
    BY DEF IInv
<1>0. thread_counter' \in Nat
    <2>1. IsFiniteSet(Live') /\ thread_counter' = Cardinality(Live')
        BY CountStep DEF CountInv, CounterMatches
    <2> QED  BY <2>1, FS_CardinalityType
<1>2. ASSUME NEW x \in External, Receive(x)  PROVE TypeOK'
    BY <1>1, <1>2 DEF Receive, TypeOK, Stage, Adding
<1>3. ASSUME NEW t \in Item, AddTask(t)  PROVE TypeOK'
    <2>1. PICK x \in Item :
            /\ stage' = [stage EXCEPT ![t] = Returns(t), ![x] = "queued"]
            /\ work_queue' \in Seq(Item)
        BY <1>3, Added
    <2>2. Returns(t) \in Stage /\ "queued" \in Stage
        BY DEF Returns, Stage, Adding, Working
    <2>3. stage' \in [Item -> Stage]
        BY <1>1, <2>1, <2>2 DEF TypeOK
    <2>4. /\ work_queue_lock' = NoOne /\ main' = main
          /\ thread_counter' = thread_counter /\ current_task' = current_task
        BY <1>3 DEF AddTask
    <2>5. /\ main' \in MainAt /\ thread_counter' \in Nat
          /\ current_task' \in Seq(Item)
          /\ work_queue_lock' \in Item \cup {NoOne, Main}
        BY <1>1, <2>4 DEF TypeOK
    <2> QED  BY <2>1, <2>3, <2>5, Zenon DEF TypeOK
<1>4. CASE MainPop
    BY <1>1, <1>4, Dispatched
       DEF MainPop, Dispatch, TypeOK, Stage, Working, MainAt
<1>5. CASE MainAbsorb
    BY <1>1, <1>5, Dispatched
       DEF MainAbsorb, Joins, Dispatch, TypeOK, Stage, Working, MainAt
<1>6. ASSUME NEW w \in Item, Leaves(w)  PROVE TypeOK'
    BY <1>1, <1>6, Left DEF MoveTo, TypeOK, Stage, Working
<1>7. ASSUME NEW w \in Item, Decrement(w)  PROVE TypeOK'
    BY <1>0, <1>1, <1>7 DEF Decrement, TypeOK, Stage
<1>8. CASE Quiet
    <2>1. ASSUME NEW t \in Item, Lock(t)  PROVE TypeOK'
        BY <1>1, <2>1 DEF Lock, TypeOK
    <2>2. CASE MainScan \/ MainIdle
        <3>1. /\ current_task' = <<>> /\ thread_counter' = 0
              /\ main' = main \/ main' = "pop"
              /\ UNCHANGED <<work_queue, work_queue_lock, stage>>
            BY <2>2 DEF MainScan, MainIdle
        <3>2. current_task' \in Seq(Item)
            BY <3>1, EmptySeq
        <3>3. main' \in MainAt /\ thread_counter' \in Nat
            BY <1>1, <3>1 DEF TypeOK, MainAt
        <3> QED  BY <1>1, <3>1, <3>2, <3>3 DEF TypeOK
    <2>3. CASE MainLock
        BY <1>1, <2>3 DEF MainLock, TypeOK, MainAt
    <2>4. CASE MainPoll \/ MainDone \/ MainRelease
        BY <1>1, <2>4 DEF MainPoll, MainDone, MainRelease, TypeOK, MainAt
    <2>5. CASE UNCHANGED vars
        BY <1>1, <2>5 DEF vars, TypeOK
    <2> QED  BY <1>8, <2>1, <2>2, <2>3, <2>4, <2>5 DEF Quiet
<1> QED  BY <1>2, <1>3, <1>4, <1>5, <1>6, <1>7, <1>8, Steps

\* Every step keeps main_loop in agreement with what runs and with the lock.
LEMMA MainStep ==
    ASSUME IInv, [Next]_vars
    PROVE  MainInv'
<1> USE DEF MainInv
<1>1. MainInv /\ TypeOK /\ ConstantsAssumption
    BY ConstantsAssumption DEF IInv
<1>2. ASSUME NEW x \in External, Receive(x)  PROVE MainInv'
    <2>1. x \in Item /\ stage[x] = "none"
        BY <1>2 DEF External, Receive
    <2>2. \A y \in Item : stage'[y] = IF y = x THEN "post" ELSE stage[y]
        BY <1>2, <2>1, <1>1 DEF Receive, TypeOK
    <2>3. Live' = Live
        BY <2>1, <2>2 DEF Live, Working
    <2> QED  BY <1>1, <1>2, <2>3 DEF Receive
<1>3. ASSUME NEW t \in Item, AddTask(t)  PROVE MainInv'
    <2>1. Live' = Live /\ work_queue' # <<>>
        BY <1>3, Added
    <2>2. t # Main /\ NoOne # Main
        BY <1>1 DEF ConstantsAssumption
    <2> QED  BY <1>1, <1>3, <2>1, <2>2 DEF AddTask
<1>4. CASE MainPop
    <2>1. /\ main' = "wait" /\ work_queue_lock' = NoOne
          /\ Live = {} /\ current_task = <<>> /\ NoOne # Main
        BY <1>1, <1>4 DEF MainPop, ConstantsAssumption
    <2>2. /\ current_task' # <<>>
          /\ Head(current_task') = Head(work_queue)
          /\ Live' = Live \cup {Head(work_queue)}
        BY <1>4, <2>1, Dispatched DEF MainPop
    <2> QED  BY <2>1, <2>2
<1>5. CASE MainAbsorb
    <2>1. /\ main = "absorb" /\ main' = "absorb"
          /\ work_queue_lock' = work_queue_lock
          /\ current_task # <<>>
          /\ Low(Head(current_task)) /\ Low(Head(work_queue))
        BY <1>1, <1>5 DEF MainAbsorb, Joins
    <2>2. /\ current_task' # <<>>
          /\ Head(current_task') = Head(current_task)
          /\ Live' = Live \cup {Head(work_queue)}
        BY <1>5, <2>1, Dispatched DEF MainAbsorb, Joins
    <2> QED  BY <1>1, <2>1, <2>2
<1>6. ASSUME NEW w \in Item, Leaves(w)  PROVE MainInv'
    <2>1. Live' = Live
        BY <1>6, Left, Moved DEF Working
    <2> QED  BY <1>1, <1>6, <2>1, Left DEF MoveTo
<1>7. ASSUME NEW w \in Item, Decrement(w)  PROVE MainInv'
    <2>1. Live' = Live \ {w}
        BY <1>7, Decremented
    <2> QED  BY <1>1, <1>7, <2>1 DEF Decrement
<1>8. CASE Quiet
    <2>1. work_queue' = work_queue /\ stage' = stage /\ Live' = Live
        BY <1>8, QuietLeaves
    <2>2. ASSUME NEW t \in Item, Lock(t)  PROVE MainInv'
        <3>1. t # Main /\ NoOne # Main
            BY <1>1 DEF ConstantsAssumption
        <3> QED  BY <1>1, <2>1, <2>2, <3>1 DEF Lock
    <2>3. CASE MainScan
        <3>1. /\ main' = "pop" /\ work_queue_lock' = work_queue_lock
              /\ work_queue_lock # Main /\ current_task' = <<>>
              /\ work_queue # <<>> \/ work_queue_lock # NoOne
            BY <1>1, <2>3 DEF MainScan
        <3>2. work_queue_lock # NoOne => work_queue_lock \in Item
            BY <1>1, <3>1 DEF TypeOK
        <3> QED  BY <1>1, <2>1, <2>3, <3>1, <3>2 DEF MainScan
    <2>4. CASE MainIdle
        BY <1>1, <2>1, <2>4 DEF MainIdle
    <2>5. CASE MainLock
        <3>1. NoOne \notin Item
            BY <1>1 DEF ConstantsAssumption
        <3> QED  BY <1>1, <2>1, <2>5, <3>1 DEF MainLock
    <2>6. CASE MainPoll
        BY <1>1, <2>1, <2>6 DEF MainPoll
    <2>7. CASE MainDone
        \* The counter is zero, and it counts the live workers.
        <3>1. Live = {}
            <4>1. IsFiniteSet(Live) /\ Cardinality(Live) <= 0
                BY <2>7 DEF MainDone, IInv, CountInv, CounterMatches
            <4>2. Cardinality(Live) = 0
                BY <4>1, FS_CardinalityType
            <4> QED  BY <4>1, <4>2, FS_EmptySet
        <3> QED  BY <1>1, <2>1, <2>7, <3>1 DEF MainDone
    <2>8. CASE MainRelease
        <3>1. NoOne # Main
            BY <1>1 DEF ConstantsAssumption
        <3> QED  BY <1>1, <2>1, <2>8, <3>1 DEF MainRelease
    <2>9. CASE UNCHANGED vars
        BY <1>1, <2>1, <2>9 DEF vars
    <2> QED  BY <1>8, <2>2, <2>3, <2>4, <2>5, <2>6, <2>7, <2>8, <2>9 DEF Quiet
<1> QED  BY <1>2, <1>3, <1>4, <1>5, <1>6, <1>7, <1>8, Steps

\* How a step changes the stage of an item: the only facts that StageInv,
\* FreshInv and OrderInv need of most steps.
LEMMA StageMoves ==
    ASSUME IInv, [Next]_vars
    PROVE  \/ stage' = stage
           \/ \E x \in External : /\ stage[x] = "none"
                                  /\ stage' = [stage EXCEPT ![x] = "post"]
                                  /\ work_queue_lock' = work_queue_lock
           \/ \E t \in Item : AddTask(t)
           \/ \E x \in Item : /\ stage[x] = "queued"
                              /\ stage' = [stage EXCEPT ![x] = "run"]
                              /\ work_queue_lock' \in {NoOne, Main}
                              /\ \A y \in Item :
                                    stage[y] = "queued" => ~Before(y, x)
                              /\ \A y \in Live : Low(y)
           \/ \E w \in Item, s \in {"end", "add_halt", "add_realloc"} :
                /\ stage[w] = "run"
                /\ stage' = [stage EXCEPT ![w] = s]
                /\ work_queue_lock' = work_queue_lock
                /\ s = "add_halt" => Low(w) /\ w.attempt < MaxAttempt
                /\ s = "add_realloc" => w.type = "halt_req"
                /\ s = "end" => w.type # "halt_req"
           \/ \E w \in Item : /\ stage[w] = "end"
                              /\ stage' = [stage EXCEPT ![w] = "gone"]
                              /\ work_queue_lock' = work_queue_lock
<1>1. ASSUME NEW x \in External, Receive(x)
      PROVE  /\ stage[x] = "none"
             /\ stage' = [stage EXCEPT ![x] = "post"]
             /\ work_queue_lock' = work_queue_lock
    BY <1>1 DEF Receive
<1>2. CASE MainPop
    <2>1. Live = {} /\ work_queue_lock' = NoOne
        BY <1>2 DEF MainPop, IInv, MainInv
    <2>2. /\ Head(work_queue) \in Item
          /\ stage[Head(work_queue)] = "queued"
          /\ stage' = [stage EXCEPT ![Head(work_queue)] = "run"]
          /\ \A y \in Item : stage[y] = "queued" => ~Before(y, Head(work_queue))
        BY <1>2, Dispatched DEF MainPop
    <2> QED  BY <2>1, <2>2
<1>3. CASE MainAbsorb
    <2>1. /\ work_queue_lock' = Main
          /\ \A y \in Live : Low(y)
        BY <1>3 DEF MainAbsorb, Joins, IInv, MainInv
    <2>2. /\ Head(work_queue) \in Item
          /\ stage[Head(work_queue)] = "queued"
          /\ stage' = [stage EXCEPT ![Head(work_queue)] = "run"]
          /\ \A y \in Item : stage[y] = "queued" => ~Before(y, Head(work_queue))
        BY <1>3, Dispatched DEF MainAbsorb, Joins
    <2> QED  BY <2>1, <2>2
<1>4. ASSUME NEW w \in Item, Leaves(w)
      PROVE  \E s \in {"end", "add_halt", "add_realloc"} :
                /\ stage[w] = "run"
                /\ stage' = [stage EXCEPT ![w] = s]
                /\ work_queue_lock' = work_queue_lock
                /\ s = "add_halt" => Low(w) /\ w.attempt < MaxAttempt
                /\ s = "add_realloc" => w.type = "halt_req"
                /\ s = "end" => w.type # "halt_req"
    BY <1>4, Left DEF MoveTo
<1>5. ASSUME NEW w \in Item, Decrement(w)
      PROVE  /\ stage[w] = "end"
             /\ stage' = [stage EXCEPT ![w] = "gone"]
             /\ work_queue_lock' = work_queue_lock
    BY <1>5 DEF Decrement
<1>6. CASE Quiet
    BY <1>6, QuietLeaves
<1> QED  BY <1>1, <1>2, <1>3, <1>4, <1>5, <1>6, Steps

\* Every step keeps the stages to the items they are meant for.
LEMMA StageStep ==
    ASSUME IInv, [Next]_vars
    PROVE  StageInv'
<1> DEFINE Thread(x) ==
        /\ stage[x] = "post" => x \in External
        /\ stage[x] \in {"add_halt", "add_retry"}
            => Low(x) /\ x.attempt < MaxAttempt
        /\ stage[x] = "add_realloc" => x.type = "halt_req"
        /\ stage[x] # "none" /\ x.type = "halt_req" => x.attempt > 0
        /\ stage[x] # "none" /\ (Low(x) \/ x.type = "halt_req")
            => x.deadline = Due[x.req]
<1>1. /\ stage \in [Item -> Stage]
      /\ work_queue_lock \in Item => stage[work_queue_lock] \in Adding
      /\ \A x \in Item : Thread(x)
    BY DEF IInv, TypeOK, StageInv
<1>2. work_queue_lock' \in Item => stage'[work_queue_lock'] \in Adding
    <2>1. CASE stage' = stage
        <3>1. CASE Quiet
            BY <1>1, <2>1, <3>1, ConstantsAssumption
               DEF Quiet, Lock, MainScan, MainIdle, MainLock, MainPoll,
                   MainDone, MainRelease, vars
        <3>2. ASSUME NEW x \in External, Receive(x)
              PROVE  work_queue_lock' = work_queue_lock
            BY <3>2 DEF Receive
        <3>3. ASSUME NEW t \in Item, AddTask(t)
              PROVE  work_queue_lock' = NoOne
            BY <3>3 DEF AddTask
        <3>5. ASSUME NEW w \in Item, Leaves(w) \/ Decrement(w)
              PROVE  work_queue_lock' = work_queue_lock
            BY <3>5, Left DEF MoveTo, Decrement
        <3> HIDE DEF Thread
        <3>6. \/ work_queue_lock' = work_queue_lock
              \/ work_queue_lock' \in {NoOne, Main}
              \/ Quiet
            <4>1. CASE MainPop \/ MainAbsorb
                BY <4>1 DEF MainPop, MainAbsorb, IInv, MainInv
            <4> QED  BY <3>2, <3>3, <3>5, <4>1, Steps
        <3> QED  BY <1>1, <2>1, <3>1, <3>6, ConstantsAssumption
    <2>2. ASSUME NEW t \in Item, AddTask(t)
          PROVE  work_queue_lock' \notin Item
        BY <2>2, ConstantsAssumption DEF AddTask
    <2>3. \A x \in External : x \in Item
        BY DEF External
    <2> HIDE DEF Thread
    <2>4. ASSUME NEW x \in Item, NEW s \in Stage,
                 stage[x] \notin Adding,
                 stage' = [stage EXCEPT ![x] = s],
                 work_queue_lock' = work_queue_lock
          PROVE  work_queue_lock' \in Item => stage'[work_queue_lock'] \in Adding
        <3> HAVE work_queue_lock' \in Item
        <3>1. stage[work_queue_lock] \in Adding /\ work_queue_lock # x
            BY <1>1, <2>4
        <3>2. stage'[work_queue_lock] = stage[work_queue_lock]
            BY <1>1, <2>4, <3>1
        <3> QED  BY <2>4, <3>1, <3>2
    <2>5. "none" \notin Adding /\ "run" \notin Adding /\ "end" \notin Adding
        BY DEF Adding
    <2>6. {"post", "end", "add_halt", "add_realloc", "gone"} \subseteq Stage
        BY DEF Stage, Adding, Working
    <2> QED  BY <2>1, <2>2, <2>3, <2>4, <2>5, <2>6, ConstantsAssumption,
                StageMoves
<1>3. ASSUME NEW y \in Item  PROVE Thread(y)'
    <2>1. CASE stage' = stage
        BY <1>1, <2>1
    <2>2. ASSUME NEW x \in External,
                 stage[x] = "none", stage' = [stage EXCEPT ![x] = "post"]
          PROVE  Thread(y)'
        BY <1>1, <2>2 DEF External
    <2>3. ASSUME NEW t \in Item, AddTask(t)  PROVE Thread(y)'
        <3>1. PICK x \in Item :
                /\ x \in Passes(t) /\ stage[t] \in Adding
                /\ stage' = [stage EXCEPT ![t] = Returns(t), ![x] = "queued"]
                /\ IF stage[t] = "post" THEN x = t
                                        ELSE x # t /\ stage[x] = "none"
            BY <2>3, Added
        <3>2. /\ y = x => stage'[y] = "queued"
              /\ y # x /\ y = t => stage'[y] = Returns(t)
              /\ y # x /\ y # t => stage'[y] = stage[y]
            BY <1>1, <3>1
        <3>3. CASE y # x /\ y = t
            BY <1>1, <3>1, <3>2, <3>3 DEF Returns, Adding
        <3>4. CASE y # x /\ y # t
            BY <1>1, <3>2, <3>4
        <3>5. CASE y = x
            <4>1. CASE stage[t] = "post"
                BY <1>1, <3>1, <3>2, <3>5, <4>1
            <4>2. CASE stage[t] \in {"add_halt", "add_retry"}
                <5>1. /\ Low(t) /\ t.attempt < MaxAttempt
                      /\ t.deadline = Due[t.req] /\ t.attempt \in Nat
                    BY <1>1, <4>2 DEF Item, Low
                <5>2. x = HaltOf(t) \/ x = RetryOf(t)
                    BY <3>1, <4>2 DEF Passes
                <5> QED  BY <3>2, <3>5, <5>1, <5>2 DEF HaltOf, RetryOf, Low
            <4>3. CASE stage[t] = "add_realloc"
                <5>1. \E d \in Deadline : x = ReallocOf(t, d)
                    BY <3>1, <4>3 DEF Passes
                <5> QED  BY <3>2, <3>5, <5>1 DEF ReallocOf, Low
            <4> QED  BY <3>1, <4>1, <4>2, <4>3 DEF Adding
        <3> QED  BY <3>3, <3>4, <3>5
    <2>4. ASSUME NEW x \in Item,
                 stage[x] = "queued", stage' = [stage EXCEPT ![x] = "run"]
          PROVE  Thread(y)'
        BY <1>1, <2>4
    <2>5. ASSUME NEW w \in Item, NEW s \in {"end", "add_halt", "add_realloc"},
                 stage[w] = "run", stage' = [stage EXCEPT ![w] = s],
                 s = "add_halt" => Low(w) /\ w.attempt < MaxAttempt,
                 s = "add_realloc" => w.type = "halt_req"
          PROVE  Thread(y)'
        BY <1>1, <2>5
    <2>6. ASSUME NEW w \in Item,
                 stage[w] = "end", stage' = [stage EXCEPT ![w] = "gone"]
          PROVE  Thread(y)'
        BY <1>1, <2>6
    <2> HIDE DEF Thread
    <2> QED  BY <2>1, <2>2, <2>3, <2>4, <2>5, <2>6, StageMoves
<1> QED  BY <1>2, <1>3 DEF StageInv

\* An item never moves back to where its successors are not yet built, and
\* only a handler or the worker that builds it brings an item into being.
LEMMA Forward ==
    ASSUME IInv, [Next]_vars, NEW y \in Item
    PROVE  /\ \A E \in {{"none", "post", "queued", "run", "add_halt"},
                        {"none", "post", "queued", "run", "add_halt", "add_retry"},
                        {"none", "post", "queued", "run", "add_realloc"}} :
                stage'[y] \in E => stage[y] \in E
           /\ stage[y] \in Accepted => stage'[y] \in Accepted
           /\ stage[y] = "gone" => stage'[y] = "gone"
           /\ stage[y] = "none" =>
                \/ stage'[y] = "none"
                \/ y \in External
                \/ \E t \in Item : /\ stage[t] \in Adding \ {"post"}
                                   /\ y \in Passes(t)
                                   /\ stage'[t] = Returns(t)
                                   /\ stage'[y] = "queued"
           /\ stage[y] = "post" => y \in External
           /\ stage'[y] \in Started =>
                \/ stage[y] \in Started
                \/ /\ stage[y] = "queued"
                   /\ \A z \in Item : stage[z] = "queued" => ~Before(z, y)
                   /\ \A z \in Live : Low(z)
           /\ stage'[y] = "add_retry" =>
                \/ stage[y] = "add_retry"
                \/ stage[y] = "add_halt" /\ stage'[HaltOf(y)] = "queued"
<1> USE DEF Accepted, Started, Working, Adding
<1>1. /\ stage \in [Item -> Stage]
      /\ stage[y] = "post" => y \in External
    BY DEF IInv, TypeOK, StageInv
<1>2. CASE stage' = stage
    BY <1>1, <1>2
<1>3. ASSUME NEW x \in External,
             stage[x] = "none", stage' = [stage EXCEPT ![x] = "post"]
      PROVE  /\ stage'[y] = IF y = x THEN "post" ELSE stage[y]
             /\ y = x => y \in External
    BY <1>1, <1>3 DEF External
<1>4. ASSUME NEW t \in Item, AddTask(t)
      PROVE  \E x \in Item :
                /\ x \in Passes(t) /\ stage[t] \in Adding
                /\ IF stage[t] = "post" THEN x = t
                                        ELSE x # t /\ stage[x] = "none"
                /\ stage'[x] = "queued"
                /\ x # t => stage'[t] = Returns(t)
                /\ y # x /\ y # t => stage'[y] = stage[y]
    <2>1. PICK x \in Item :
            /\ x \in Passes(t) /\ stage[t] \in Adding
            /\ stage' = [stage EXCEPT ![t] = Returns(t), ![x] = "queued"]
            /\ IF stage[t] = "post" THEN x = t ELSE x # t /\ stage[x] = "none"
        BY <1>4, Added
    <2> QED  BY <1>1, <2>1
<1>5. ASSUME NEW x \in Item, NEW s \in Stage,
             stage' = [stage EXCEPT ![x] = s]
      PROVE  stage'[y] = IF y = x THEN s ELSE stage[y]
    BY <1>1, <1>5
<1>6. ASSUME NEW t \in Item, AddTask(t), y = t, stage[y] # "post"
      PROVE  /\ stage'[y] = Returns(y)
             /\ stage[y] \in Adding
             /\ stage[y] = "add_halt" => stage'[HaltOf(y)] = "queued"
    BY <1>4, <1>6 DEF Passes
<1>7. CASE \E t \in Item : AddTask(t)
    <2>1. PICK t \in Item : AddTask(t)
        BY <1>7
    <2>2. CASE y = t /\ stage[y] # "post"
        BY <1>6, <2>1, <2>2 DEF Returns
    <2>3. CASE y = t /\ stage[y] = "post"
        BY <1>1, <1>4, <2>1, <2>3
    <2>4. CASE y # t
        BY <1>1, <1>4, <2>1, <2>4
    <2> QED  BY <2>2, <2>3, <2>4
<1>8. CASE \E x \in External : /\ stage[x] = "none"
                               /\ stage' = [stage EXCEPT ![x] = "post"]
    BY <1>1, <1>3, <1>8
<1>9. CASE \E x \in Item : /\ stage[x] = "queued"
                           /\ stage' = [stage EXCEPT ![x] = "run"]
                           /\ \A z \in Item :
                                 stage[z] = "queued" => ~Before(z, x)
                           /\ \A z \in Live : Low(z)
    <2>1. PICK x \in Item : /\ stage[x] = "queued"
                            /\ stage' = [stage EXCEPT ![x] = "run"]
                            /\ \A z \in Item :
                                 stage[z] = "queued" => ~Before(z, x)
                            /\ \A z \in Live : Low(z)
        BY <1>9
    <2>2. stage'[y] = IF y = x THEN "run" ELSE stage[y]
        BY <1>5, <2>1 DEF Stage
    <2> QED  BY <1>1, <2>1, <2>2
<1>10. CASE \E w \in Item, s \in {"end", "add_halt", "add_realloc"} :
                stage[w] = "run" /\ stage' = [stage EXCEPT ![w] = s]
    <2>1. PICK w \in Item, s \in {"end", "add_halt", "add_realloc"} :
                stage[w] = "run" /\ stage' = [stage EXCEPT ![w] = s]
        BY <1>10
    <2>2. stage'[y] = IF y = w THEN s ELSE stage[y]
        BY <1>5, <2>1 DEF Stage
    <2> QED  BY <1>1, <2>1, <2>2
<1>11. CASE \E w \in Item : /\ stage[w] = "end"
                            /\ stage' = [stage EXCEPT ![w] = "gone"]
    BY <1>1, <1>5, <1>11 DEF Stage
<1> QED  BY <1>2, <1>7, <1>8, <1>9, <1>10, <1>11, StageMoves

\* Every step keeps the items that are still to be built out of the system.
LEMMA FreshStep ==
    ASSUME IInv, [Next]_vars
    PROVE  FreshInv'
<1>1. FreshInv
    BY DEF IInv
\* What an item that comes into being now says of the worker that built it.
<1>2. ASSUME NEW y \in Item, stage[y] = "none", stage'[y] # "none"
      PROVE  \/ y \in External
             \/ \E t \in Item :
                    /\ stage'[t] \in {"add_retry", "end"}
                    /\ \/ /\ Low(t) /\ t.attempt < MaxAttempt
                          /\ \/ y = HaltOf(t)
                             \/ y = RetryOf(t) /\ stage'[t] = "end"
                       \/ /\ t.type = "halt_req" /\ t.attempt > 0
                          /\ t.deadline = Due[t.req] /\ stage'[t] = "end"
                          /\ \E d \in Deadline : y = ReallocOf(t, d)
    <2>1. CASE y \notin External
        <3>1. PICK t \in Item : /\ stage[t] \in Adding \ {"post"}
                               /\ y \in Passes(t)
                               /\ stage'[t] = Returns(t)
            BY <1>2, <2>1, Forward
        <3>2. CASE stage[t] \in {"add_halt", "add_retry"}
            BY <3>1, <3>2 DEF Passes, Returns, IInv, StageInv
        <3>3. CASE stage[t] = "add_realloc"
            BY <3>1, <3>3 DEF Passes, Returns, IInv, StageInv
        <3> QED  BY <3>1, <3>2, <3>3 DEF Adding
    <2> QED  BY <2>1
<1>3. ASSUME NEW t \in Item, Low(t), t.attempt < MaxAttempt,
             stage'[t] \in {"none", "post", "queued", "run", "add_halt"}
      PROVE  stage'[HaltOf(t)] = "none"
    <2>1. stage[HaltOf(t)] = "none" /\ HaltOf(t) \in Item \ External
        BY <1>1, <1>3, Forward, BuiltItems DEF FreshInv
    <2> SUFFICES ASSUME stage'[HaltOf(t)] # "none"  PROVE FALSE
        OBVIOUS
    <2>2. PICK u \in Item :
            /\ stage'[u] \in {"add_retry", "end"}
            /\ \/ Low(u) /\ (HaltOf(t) = HaltOf(u) \/ HaltOf(t) = RetryOf(u))
               \/ \E d \in Deadline : HaltOf(t) = ReallocOf(u, d)
        BY <1>2, <2>1
    <2>3. HaltOf(t) # RetryOf(u) /\ \A d \in Deadline : HaltOf(t) # ReallocOf(u, d)
        BY DEF HaltOf, RetryOf, ReallocOf
    <2> QED  BY <1>3, <2>2, <2>3, BuiltItems
<1>4. ASSUME NEW t \in Item, Low(t), t.attempt < MaxAttempt,
             stage'[t] \in {"none", "post", "queued", "run", "add_halt",
                           "add_retry"}
      PROVE  stage'[RetryOf(t)] = "none"
    <2>1. stage[RetryOf(t)] = "none" /\ RetryOf(t) \in Item \ External
        BY <1>1, <1>4, Forward, BuiltItems DEF FreshInv
    <2> SUFFICES ASSUME stage'[RetryOf(t)] # "none"  PROVE FALSE
        OBVIOUS
    <2>2. PICK u \in Item :
            \/ /\ Low(u)
               /\ \/ RetryOf(t) = HaltOf(u)
                  \/ RetryOf(t) = RetryOf(u) /\ stage'[u] = "end"
            \/ \E d \in Deadline : RetryOf(t) = ReallocOf(u, d)
        BY <1>2, <2>1
    <2>3. RetryOf(t) # HaltOf(u) /\ \A d \in Deadline : RetryOf(t) # ReallocOf(u, d)
        BY DEF HaltOf, RetryOf, ReallocOf
    <2> QED  BY <1>4, <2>2, <2>3, BuiltItems
<1>5. ASSUME NEW t \in Item, NEW d \in Deadline,
             t.type = "halt_req", t.attempt > 0, t.deadline = Due[t.req],
             stage'[t] \in {"none", "post", "queued", "run", "add_realloc"}
      PROVE  stage'[ReallocOf(t, d)] = "none"
    <2>1. stage[ReallocOf(t, d)] = "none"
        BY <1>1, <1>5, Forward DEF FreshInv
    <2>2. ReallocOf(t, d) \in Item \ External
        BY <1>5, BuiltItems DEF ReallocOf, External
    <2> SUFFICES ASSUME stage'[ReallocOf(t, d)] # "none"  PROVE FALSE
        OBVIOUS
    <2>3. PICK u \in Item :
            \/ ReallocOf(t, d) = HaltOf(u) \/ ReallocOf(t, d) = RetryOf(u)
            \/ /\ u.type = "halt_req" /\ u.deadline = Due[u.req]
               /\ stage'[u] = "end"
               /\ \E e \in Deadline : ReallocOf(t, d) = ReallocOf(u, e)
        BY <1>2, <2>1, <2>2
    <2>4. ReallocOf(t, d) # HaltOf(u) /\ ReallocOf(t, d) # RetryOf(u)
        BY DEF HaltOf, RetryOf, ReallocOf
    <2>5. t.req = u.req /\ t.attempt = u.attempt
        BY <2>3, <2>4 DEF ReallocOf
    <2>6. t = u
        BY <1>5, <2>3, <2>4, <2>5 DEF Item
    <2> QED  BY <1>5, <2>3, <2>4, <2>6
<1> QED  BY <1>3, <1>4, <1>5 DEF FreshInv

\* Every step keeps a halt ahead of the retry it makes room for.
LEMMA OrderStep ==
    ASSUME IInv, [Next]_vars
    PROVE  OrderInv'
<1> USE DEF Accepted, Started
<1> SUFFICES ASSUME NEW t \in Item, Low(t), t.attempt < MaxAttempt
             PROVE  /\ stage'[t] = "add_retry" => stage'[HaltOf(t)] \in Accepted
                    /\ stage'[RetryOf(t)] \in Accepted
                        => stage'[HaltOf(t)] \in Accepted
                    /\ stage'[RetryOf(t)] \in Started
                        => stage'[HaltOf(t)] = "gone"
    BY DEF OrderInv
<1> DEFINE h == HaltOf(t)
           r == RetryOf(t)
<1>1. /\ h \in Item /\ r \in Item /\ r \notin External
      /\ stage \in [Item -> Stage]
    BY BuiltItems DEF IInv, TypeOK
<1>2. /\ stage[t] = "add_retry" => stage[h] \in Accepted
      /\ stage[r] \in Accepted => stage[h] \in Accepted
      /\ stage[r] \in Started => stage[h] = "gone"
    BY DEF IInv, OrderInv
<1>3. stage'[t] = "add_retry" => stage'[h] \in Accepted
    BY <1>1, <1>2, Forward
<1>4. stage'[r] \in Accepted => stage'[h] \in Accepted
    <2> HAVE stage'[r] \in Accepted
    <2>1. CASE stage[r] \in Accepted
        BY <1>1, <1>2, <2>1, Forward
    <2>2. CASE stage[r] = "none"
        <3>1. PICK u \in Item : stage[u] \in Adding \ {"post"} /\ r \in Passes(u)
            BY <1>1, <2>2, Forward DEF Working
        <3>2. r # HaltOf(u) /\ \A d \in Deadline : r # ReallocOf(u, d)
            BY DEF HaltOf, RetryOf, ReallocOf
        <3>3. r = RetryOf(u) /\ stage[u] = "add_retry"
            <4>1. stage[u] \in {"add_halt", "add_retry", "add_realloc"}
                BY <3>1 DEF Adding
            <4>2. stage[u] # "add_halt"
                BY <3>1, <3>2 DEF Passes
            <4>3. stage[u] # "add_realloc"
                BY <3>1, <3>2 DEF Passes
            <4> QED  BY <3>1, <4>1, <4>2, <4>3 DEF Passes
        <3>4. u = t
            BY <3>3, BuiltItems DEF IInv, StageInv
        <3> QED  BY <1>1, <1>2, <3>3, <3>4, Forward
    <2>3. CASE stage[r] = "post"
        BY <1>1, <2>3, Forward
    <2> QED  BY <1>1, <2>1, <2>2, <2>3 DEF Stage, Adding, Working
<1>5. stage'[r] \in Started => stage'[h] = "gone"
    <2> HAVE stage'[r] \in Started
    <2>1. CASE stage[r] \in Started
        BY <1>1, <1>2, <2>1, Forward
    <2>2. CASE stage[r] \notin Started
        <3>1. /\ stage[r] = "queued"
              /\ \A z \in Item : stage[z] = "queued" => ~Before(z, r)
              /\ \A z \in Live : Low(z)
            BY <1>1, <2>2, Forward
        <3>2. Before(h, r) /\ ~Low(h)
            BY DEF HaltOf, RetryOf, Before, Priority, Low
        <3>3. stage[h] # "queued" /\ stage[h] \notin Working
            BY <1>1, <3>1, <3>2 DEF Live
        <3>4. stage[h] = "gone"
            BY <1>2, <3>1, <3>3
        <3> QED  BY <1>1, <3>4, Forward
    <2> QED  BY <2>1, <2>2
<1> QED  BY <1>3, <1>4, <1>5

-----------------------------------------------------------------------------
(* The theorems *)

\* A strengthened invariant of the work queue: its initial states satisfy it
\* and no step of a handler, a worker or main_loop leaves it.
THEOREM InductiveInvariant == Spec => []IInv
<1>1. Init => IInv
    <2> SUFFICES ASSUME Init  PROVE IInv
        OBVIOUS
    <2> USE DEF Init
    <2>1. TypeOK
        BY EmptySeq DEF TypeOK, Stage, MainAt
    <2>2. Live = {}
        BY DEF Live, Working
    <2>3. QueueInv
        <3>1. Len(work_queue) = 0 /\ Range(work_queue) = {}
            BY EmptySeq, EmptyRange
        <3> QED  BY <3>1 DEF QueueInv
    <2>4. StageInv
        BY ConstantsAssumption DEF StageInv, Adding
    <2>5. FreshInv
        BY BuiltItems DEF FreshInv
    <2>6. MainInv
        BY <2>2, ConstantsAssumption DEF MainInv
    <2>7. CountInv
        BY <2>2, FS_EmptySet DEF CountInv, CounterMatches
    <2>8. OrderInv
        BY BuiltItems DEF OrderInv, Accepted, Started, Working
    <2> QED  BY <2>1, <2>3, <2>4, <2>5, <2>6, <2>7, <2>8 DEF IInv
<1>2. IInv /\ [Next]_vars => IInv'
    BY TypeStep, QueueStep, StageStep, FreshStep, MainStep, CountStep, OrderStep
       DEF IInv
<1> QED  BY <1>1, <1>2, PTL DEF Spec

\* Type correctness of the work queue.
THEOREM TypeCorrect == Spec => []TypeOK
<1>1. IInv => TypeOK
    BY DEF IInv
<1> QED  BY <1>1, InductiveInvariant, PTL

\* thread_counter always counts the workers that still run.
THEOREM CounterCorrect == Spec => []CounterMatches
<1>1. IInv => CounterMatches
    BY DEF IInv, CountInv
<1> QED  BY <1>1, InductiveInvariant, PTL

\* main_loop never reads the front of an empty queue.
THEOREM FrontSafe == Spec => []FrontExists
<1>1. IInv => FrontExists
    BY DEF IInv, MainInv, FrontExists
<1> QED  BY <1>1, InductiveInvariant, PTL

\* Only low complexity workers ever run next to each other.
THEOREM SerialWorkers == Spec => []Serial
<1>1. IInv => Serial
    <2> SUFFICES ASSUME IInv, NEW v \in Live, NEW w \in Live
                 PROVE  v = w \/ (Low(v) /\ Low(w))
        BY DEF Serial
    <2>1. main \in {"wait", "poll", "absorb"}
        BY DEF IInv, TypeOK, MainInv, MainAt
    <2> QED  BY <2>1 DEF IInv, MainInv
<1> QED  BY <1>1, InductiveInvariant, PTL

\* A retried low complexity request starts only after its halt is finished.
THEOREM HaltsComeFirst == Spec => []HaltBeforeRetry
<1>1. IInv => HaltBeforeRetry
    BY DEF IInv, OrderInv, HaltBeforeRetry, Started
<1> QED  BY <1>1, InductiveInvariant, PTL

\* The work queue implements the task pool.
THEOREM ImplementsPool == Spec => PoolSpec
<1> DEFINE gone == {x \in Item : stage[x] = "gone"}
<1>1. Init => Pool!Init
    <2> SUFFICES ASSUME Init  PROVE Pool!Init
        OBVIOUS
    <2>1. Range(work_queue) = {}
        BY EmptyRange DEF Init
    <2> QED  BY <2>1 DEF Init, Pool!Init, Live, Working
<1>2. IInv /\ IInv' /\ [Next]_vars => [Pool!Next]_Pool!vars
    <2> SUFFICES ASSUME IInv, IInv', [Next]_vars
                 PROVE  Pool!Next \/ UNCHANGED <<Range(work_queue), Live, gone>>
        BY DEF Pool!vars
    <2>1. /\ stage \in [Item -> Stage]
          /\ Range(work_queue) = {x \in Item : stage[x] = "queued"}
          /\ Range(work_queue)' = {x \in Item : stage'[x] = "queued"}
        BY DEF IInv, TypeOK, QueueInv
    <2>2. ASSUME NEW x \in External, Receive(x)
          PROVE  UNCHANGED <<Range(work_queue), Live, gone>>
        <3>1. x \in Item /\ stage[x] = "none"
            BY <2>2 DEF External, Receive
        <3>2. \A y \in Item : stage'[y] = IF y = x THEN "post" ELSE stage[y]
            BY <2>1, <2>2, <3>1 DEF Receive
        <3> QED  BY <2>1, <3>1, <3>2 DEF Live, Working
    <2>3. ASSUME NEW t \in Item, AddTask(t)  PROVE Pool!Next
        <3>1. PICK x \in Item :
                /\ stage[t] \in Adding
                /\ stage' = [stage EXCEPT ![t] = Returns(t), ![x] = "queued"]
                /\ IF stage[t] = "post" THEN x = t
                                        ELSE x # t /\ stage[x] = "none"
                /\ Live' = Live
            BY <2>3, Added
        <3>2. \A y \in Item : stage'[y] = IF y = x THEN "queued"
                                 ELSE IF y = t THEN Returns(t) ELSE stage[y]
            BY <2>1, <3>1
        <3>3. x # t => Returns(t) \in {"add_retry", "end"}
            BY <3>1 DEF Returns
        <3>4. x \notin Range(work_queue) \cup Live \cup gone
            BY <2>1, <3>1 DEF Live, Working, Adding
        <3>5. Range(work_queue)' = Range(work_queue) \cup {x}
            BY <2>1, <3>1, <3>2, <3>3 DEF Adding
        <3>6. gone' = gone
            <4>1. \A y \in Item : stage'[y] = "gone" <=> stage[y] = "gone"
                <5> TAKE y \in Item
                <5>1. CASE y = x
                    <6>1. stage'[y] = "queued"
                        BY <3>2, <5>1
                    <6>2. stage[y] # "gone"
                        BY <3>1, <5>1 DEF Adding
                    <6> QED  BY <6>1, <6>2
                <5>2. CASE y = t /\ y # x
                    <6>1. stage'[y] # "gone"
                        BY <3>2, <3>3, <5>2
                    <6>2. stage[y] # "gone"
                        BY <3>1, <5>2 DEF Adding
                    <6> QED  BY <6>1, <6>2
                <5>3. CASE y # t /\ y # x
                    BY <3>2, <5>3
                <5> QED  BY <5>1, <5>2, <5>3
            <4> QED  BY <4>1
        <3>7. Pool!Submit(x)
            BY <3>1, <3>4, <3>5, <3>6 DEF Pool!Submit
        <3> QED  BY <3>7 DEF Pool!Next
    <2>4. ASSUME Dispatch, work_queue # <<>>,
                 Live # {} => Low(Head(work_queue)) /\ \A y \in Live : Low(y)
          PROVE  Pool!Next
        <3> DEFINE h == Head(work_queue)
        <3>1. /\ h \in Item /\ stage[h] = "queued"
              /\ \A y \in Item : stage[y] = "queued" => ~Before(y, h)
              /\ stage' = [stage EXCEPT ![h] = "run"]
              /\ Live' = Live \cup {h}
            BY <2>4, Dispatched
        <3>2. \A y \in Item : stage'[y] = IF y = h THEN "run" ELSE stage[y]
            BY <2>1, <3>1
        <3>3. Range(work_queue)' = Range(work_queue) \ {h} /\ gone' = gone
            BY <2>1, <3>1, <3>2
        <3>4. Live # {} => Live \cup {h} \subseteq {x \in Item : Low(x)}
            BY <2>4, <3>1 DEF Live
        <3>5. Pool!Start(h)
            BY <2>1, <3>1, <3>3, <3>4 DEF Pool!Start, Pool!MayStart
        <3> QED  BY <3>1, <3>5 DEF Pool!Next
    <2>5. CASE MainPop
        BY <2>4, <2>5 DEF MainPop, IInv, MainInv
    <2>6. CASE MainAbsorb
        BY <2>4, <2>6 DEF MainAbsorb, Joins, IInv, MainInv
    <2>7. ASSUME NEW w \in Item, Leaves(w)
          PROVE  UNCHANGED <<Range(work_queue), Live, gone>>
        <3>1. PICK s \in {"end", "add_halt", "add_realloc"} :
                stage[w] = "run" /\ MoveTo(w, s)
            BY <2>7, Left
        <3>2. \A y \in Item : stage'[y] = IF y = w THEN s ELSE stage[y]
            BY <2>1, <3>1 DEF MoveTo
        <3> QED  BY <2>1, <3>1, <3>2 DEF Live, Working
    <2>8. ASSUME NEW w \in Item, Decrement(w)  PROVE Pool!Next
        <3>1. \A y \in Item : stage'[y] = IF y = w THEN "gone" ELSE stage[y]
            BY <2>1, <2>8 DEF Decrement
        <3>2. w \in Live /\ Live' = Live \ {w}
            BY <2>8, Decremented DEF Decrement, Live, Working
        <3>3. gone' = gone \cup {w} /\ Range(work_queue)' = Range(work_queue)
            BY <2>1, <2>8, <3>1 DEF Decrement
        <3>4. Pool!Finish(w)
            BY <3>2, <3>3 DEF Pool!Finish
        <3> QED  BY <3>4 DEF Pool!Next
    <2>9. CASE Quiet
        BY <2>9, QuietLeaves
    <2> QED  BY <2>2, <2>3, <2>5, <2>6, <2>7, <2>8, <2>9, Steps
<1> QED  BY <1>1, <1>2, InductiveInvariant, PTL DEF Spec, PoolSpec, Pool!Spec
=============================================================================
