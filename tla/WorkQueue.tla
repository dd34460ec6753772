----------------------------- MODULE WorkQueue ------------------------------
(***************************************************************************)
(* The work queue of the controller: REST handlers and workers add items   *)
(* with add_task, the thread of main_loop pops the most urgent item, starts*)
(* a detached worker for it and waits for thread_counter to fall to zero,  *)
(* taking further low complexity items into a running low complexity batch.*)
(*                                                                         *)
(* An item names the thread that handles it: first the REST handler that   *)
(* posts it ("post"), later the worker started for it ("run" .. "end").    *)
(* What a worker computes is left to module Allocation; here it succeeds,  *)
(* or (low complexity) fails and asks for a halt and a retry, or (halt)    *)
(* re-queues the DNN it pruned; module Allocation says when a halt instead *)
(* brings the process down.                                                *)
(***************************************************************************)
EXTENDS Integers, Sequences, FiniteSets, Functions, RequestOrder

CONSTANTS
    Req,            \* the requests devices make, each at most once
    Deadline,       \* the deadlines a work item can carry
    Due,            \* the deadline of each request
    MaxAttempt,     \* bound: how often one low request is retried
    NoOne, Main     \* a free work_queue_lock, and the thread of main_loop

\* attempt is 0 for an item a device asked for and counts the preemptions
\* that led to the item otherwise.
Item == [type : Type, req : Req, attempt : 0 .. MaxAttempt,
         deadline : Deadline]

ASSUME ConstantsAssumption ==
    /\ Deadline \subseteq Nat
    /\ Due \in [Req -> Deadline]
    /\ MaxAttempt \in Nat
    /\ NoOne \notin Item
    /\ Main \notin Item
    /\ NoOne # Main

\* The items a REST handler builds; a halt is only ever built by a worker.
External == {x \in Item : /\ x.type # "halt_req"
                          /\ x.attempt = 0
                          /\ x.deadline = Due[x.req]}

\* The items a worker builds: the halt and the retry of a rejected low
\* request t, and the pruned DNN, of deadline d, that halt t puts back.
HaltOf(t) == [type |-> "halt_req", req |-> t.req,
              attempt |-> t.attempt + 1, deadline |-> t.deadline]
RetryOf(t) == [type |-> "low_complexity", req |-> t.req,
               attempt |-> t.attempt + 1, deadline |-> t.deadline]
ReallocOf(t, d) == [type |-> "high_complexity", req |-> t.req,
                    attempt |-> t.attempt, deadline |-> d]

Adding == {"post", "add_halt", "add_retry", "add_realloc"}
Working == {"run", "add_halt", "add_retry", "add_realloc", "end"}
Stage == {"none", "queued", "gone"} \cup Adding \cup Working

MainAt == {"scan", "pop", "take", "wait", "poll", "absorb"}

VARIABLES
    work_queue,         \* the pending items
    work_queue_lock,    \* NoOne, Main, or the item whose thread holds it
    main,               \* where main_loop is
    thread_counter,     \* the static atomic counter
    current_task,       \* the items main_loop took since its last scan
    stage               \* where each item, and the thread it names, is

vars == <<work_queue, work_queue_lock, main, thread_counter, current_task,
          stage>>

Live == {x \in Item : stage[x] \in Working}

Init ==
    /\ work_queue = <<>>
    /\ work_queue_lock = NoOne
    /\ main = "scan"
    /\ thread_counter = 0
    /\ current_task = <<>>
    /\ stage = [x \in Item |-> "none"]

-----------------------------------------------------------------------------
(* add_task, called by REST handlers and by workers *)

\* A device's request reaches a REST handler, which builds the item.
Receive(x) ==
    /\ \A y \in External : y.req = x.req => stage[y] = "none"
    /\ stage' = [stage EXCEPT ![x] = "post"]
    /\ UNCHANGED <<work_queue, work_queue_lock, main, thread_counter,
                   current_task>>

Lock(t) ==
    /\ stage[t] \in Adding
    /\ work_queue_lock = NoOne
    /\ work_queue_lock' = t
    /\ UNCHANGED <<work_queue, main, thread_counter, current_task, stage>>

\* q with x put at place i.
PutAt(q, i, x) ==
    [j \in 1 .. Len(q) + 1 |->
        IF j < i THEN q[j] ELSE IF j = i THEN x ELSE q[j - 1]]

\* Fault: the new item is pushed back and the queue is not sorted.
Appends(q, x) == {Append(q, x)}

\* push_back and std::sort: q is sorted, so sorting places x. Among items it
\* is tied with it may land anywhere: the comparator is not a strict weak
\* order on halts and state updates, and std::sort is not stable.
Sorts(q, x) ==
    {PutAt(q, i, x) : i \in {k \in 1 .. Len(q) + 1 :
        /\ \A j \in 1 .. k - 1 : ~Before(x, q[j])
        /\ \A j \in k .. Len(q) : ~Before(q[j], x)}}

\* What thread t passes to add_task, and where t is when the call returns.
Passes(t) ==
    CASE stage[t] = "post"      -> {t}
      [] stage[t] = "add_halt"  -> {HaltOf(t)}
      [] stage[t] = "add_retry" -> {RetryOf(t)}
      [] OTHER                  -> {ReallocOf(t, d) : d \in Deadline}

Returns(t) ==
    CASE stage[t] = "post"      -> "queued"
      [] stage[t] = "add_halt"  -> "add_retry"
      [] OTHER                  -> "end"

AddTask(t) ==
    /\ work_queue_lock = t
    /\ \E x \in Passes(t) :
        /\ work_queue' \in Sorts(work_queue, x)
        /\ stage' = [stage EXCEPT ![t] = Returns(t), ![x] = "queued"]
    /\ work_queue_lock' = NoOne
    /\ UNCHANGED <<main, thread_counter, current_task>>

-----------------------------------------------------------------------------
(* main_loop *)

\* Fault: main_loop takes the lock without looking at empty() first.
ScanBlindly ==
    /\ main = "scan"
    /\ main' = "pop"
    /\ thread_counter' = 0
    /\ current_task' = <<>>
    /\ UNCHANGED <<work_queue, work_queue_lock, stage>>

\* current_task and thread_counter are reset and work_queue.empty() is read
\* without the lock: next to an add_task it may see the item or not.
MainScan ==
    /\ main = "scan"
    /\ work_queue # <<>> \/ work_queue_lock # NoOne
    /\ main' = "pop"
    /\ thread_counter' = 0
    /\ current_task' = <<>>
    /\ UNCHANGED <<work_queue, work_queue_lock, stage>>

MainIdle ==
    /\ main = "scan"
    /\ work_queue = <<>>
    /\ thread_counter' = 0
    /\ current_task' = <<>>
    /\ UNCHANGED <<work_queue, work_queue_lock, main, stage>>

\* Counting, popping and starting the worker of the front item.
Dispatch ==
    /\ thread_counter' = thread_counter + 1
    /\ current_task' = Append(current_task, Head(work_queue))
    /\ work_queue' = Tail(work_queue)
    /\ stage' = [stage EXCEPT ![Head(work_queue)] = "run"]

MainLock ==
    /\ main \in {"pop", "poll"}
    /\ work_queue_lock = NoOne
    /\ work_queue_lock' = Main
    /\ main' = IF main = "pop" THEN "take" ELSE "absorb"
    /\ UNCHANGED <<work_queue, thread_counter, current_task, stage>>

\* front() of an empty queue is undefined; FrontExists says it never happens.
MainPop ==
    /\ main = "take"
    /\ work_queue # <<>>
    /\ Dispatch
    /\ work_queue_lock' = NoOne
    /\ main' = "wait"

MainPoll ==
    /\ main = "wait"
    /\ thread_counter > 0
    /\ main' = "poll"
    /\ UNCHANGED <<work_queue, work_queue_lock, thread_counter, current_task,
                   stage>>

\* Fault: main_loop stops waiting while one worker still runs.
DoneEarly ==
    /\ main = "wait"
    /\ thread_counter <= 1
    /\ main' = "scan"
    /\ UNCHANGED <<work_queue, work_queue_lock, thread_counter, current_task,
                   stage>>

MainDone ==
    /\ main = "wait"
    /\ thread_counter <= 0
    /\ main' = "scan"
    /\ UNCHANGED <<work_queue, work_queue_lock, thread_counter, current_task,
                   stage>>

\* Fault: a low batch is joined by whatever is at the front.
JoinsAnything == work_queue # <<>> /\ Low(Head(current_task))

\* One turn of the inner loop that joins low items to a low batch.
Joins ==
    /\ work_queue # <<>>
    /\ Low(Head(current_task))
    /\ Low(Head(work_queue))

\* Fault: an item that joins a batch is not counted.
AbsorbUncounted ==
    /\ main = "absorb"
    /\ Joins
    /\ current_task' = Append(current_task, Head(work_queue))
    /\ work_queue' = Tail(work_queue)
    /\ stage' = [stage EXCEPT ![Head(work_queue)] = "run"]
    /\ UNCHANGED <<work_queue_lock, main, thread_counter>>

MainAbsorb ==
    /\ main = "absorb"
    /\ Joins
    /\ Dispatch
    /\ UNCHANGED <<work_queue_lock, main>>

MainRelease ==
    /\ main = "absorb"
    /\ ~Joins
    /\ work_queue_lock' = NoOne
    /\ main' = "wait"
    /\ UNCHANGED <<work_queue, thread_counter, current_task, stage>>

MainNext ==
    \/ MainScan \/ MainIdle \/ MainLock \/ MainPop
    \/ MainPoll \/ MainDone \/ MainAbsorb \/ MainRelease

-----------------------------------------------------------------------------
(* The workers *)

MoveTo(w, s) ==
    /\ stage' = [stage EXCEPT ![w] = s]
    /\ UNCHANGED <<work_queue, work_queue_lock, main, thread_counter,
                   current_task>>

\* Any worker but a halt may be done without a new item.
Complete(w) == stage[w] = "run" /\ w.type # "halt_req" /\ MoveTo(w, "end")

\* A low complexity task that its host cannot take: preempt and retry.
LowReject(w) ==
    /\ stage[w] = "run"
    /\ Low(w)
    /\ w.attempt < MaxAttempt
    /\ MoveTo(w, "add_halt")

\* A halt always puts the DNN it pruned back into the queue.
HaltWork(w) ==
    stage[w] = "run" /\ w.type = "halt_req" /\ MoveTo(w, "add_realloc")

\* Fault: a worker returns without decrementThreadCounter.
LeaveUncounted(w) == stage[w] = "end" /\ MoveTo(w, "gone")

\* The last thing a worker does: decrementThreadCounter.
Decrement(w) ==
    /\ stage[w] = "end"
    /\ stage' = [stage EXCEPT ![w] = "gone"]
    /\ thread_counter' = thread_counter - 1
    /\ UNCHANGED <<work_queue, work_queue_lock, main, current_task>>

WorkerNext(w) == Complete(w) \/ LowReject(w) \/ HaltWork(w) \/ Decrement(w)

Next ==
    \/ \E x \in External : Receive(x)
    \/ \E t \in Item : Lock(t) \/ AddTask(t) \/ WorkerNext(t)
    \/ MainNext

Spec == Init /\ [][Next]_vars

(***************************************************************************)
(* Every thread keeps running, and of the threads that work for a request  *)
(* the mutex starves none although main_loop, polling, takes it over and   *)
(* over (SF of Lock). Devices need not send anything: Receive is not fair. *)
(***************************************************************************)
Fairness ==
    /\ WF_vars(MainNext)
    /\ WF_vars(\E t \in Item : AddTask(t))
    /\ \A r \in Req :
        /\ SF_vars(\E t \in Item : t.req = r /\ Lock(t))
        /\ WF_vars(\E t \in Item : t.req = r /\ WorkerNext(t))

FairSpec == Spec /\ Fairness

-----------------------------------------------------------------------------
(* Properties *)

\* Types, and the life of an item agrees with where it is kept.
TypeOK ==
    /\ work_queue \in Seq(Item)
    /\ work_queue_lock \in Item \cup {NoOne, Main}
    /\ main \in MainAt
    /\ thread_counter \in Nat
    /\ current_task \in Seq(Item)
    /\ stage \in [Item -> Stage]

\* thread_counter, reset without a lock by main_loop, incremented by it and
\* decremented by the workers, always counts the workers that still run: no
\* reset, late decrement or absorbed item makes main_loop stop waiting early
\* or wait for nobody.
CounterMatches == thread_counter = Cardinality(Live)

\* Two workers run at the same time only when both are low complexity
\* allocations: this, and no lock order, keeps state_update_call and halt_call
\* (offloaded_lock, then network_lock) from meeting high_comp_allocation_call
\* (network_lock, then offloaded_lock).
Serial == \A v, w \in Live : v = w \/ (Low(v) /\ Low(w))

\* When main_loop calls front() and erase(begin()) the queue has an item,
\* although it looked at empty() before it had the lock.
FrontExists == main = "take" => work_queue # <<>>

\* A preempting low task is retried only after the halt it asked for has been
\* carried out: the two go through the same queue, in two add_task calls with
\* other handlers, batches and the poll of main_loop in between.
HaltBeforeRetry ==
    \A t \in Item : /\ Low(t)
                    /\ t.attempt < MaxAttempt
                    /\ stage[RetryOf(t)] \in Working \cup {"gone"}
                    => stage[HaltOf(t)] = "gone"

\* The queue, its threads and its lock implement the task pool: every item is
\* started once, none more urgent is left behind when an item is started, and
\* an item that cannot share starts only when nothing runs.
Pool == INSTANCE TaskPool WITH
    Task <- Item,
    Shareable <- {x \in Item : Low(x)},
    waiting <- Range(work_queue),
    active <- Live,
    served <- {x \in Item : stage[x] = "gone"}

PoolSpec == Pool!Spec

\* Whatever is handed to add_task for a request, by its handler or by the
\* workers of its preemptions, is worked off and main_loop is back at its scan.
Served ==
    \A r \in Req :
        (\E x \in Item : x.req = r /\ stage[x] \notin {"none", "gone"})
            ~> (/\ \A x \in Item : x.req = r => stage[x] \in {"none", "gone"}
                /\ main = "scan")
=============================================================================
