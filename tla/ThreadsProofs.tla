---------------------------- MODULE ThreadsProofs ----------------------------
(***************************************************************************)
(* Proofs about Threads for every number of workers and handlers: the      *)
(* calls give up what they take, no threads wait for each other in a       *)
(* circle, and they race on data in the listed cases only.                 *)
(*                                                                         *)
(* The mutexes a thread has follow from how far it is in which call; with  *)
(* that, all three are facts about pairs of operations, and about which    *)
(* calls main_loop lets run side by side.                                  *)
(***************************************************************************)
EXTENDS Threads, SequenceTheorems, TLAPS

\* The mutexes a call holds when operation p is next, but for the log's.
Carries(c, p) ==
    CASE c = "low_accept" ->
            IF p \in 9 .. 11 THEN {"network_lock"}
            ELSE IF p = 12 THEN {"network_lock", "networkMutex"} ELSE {}
      [] c = "low_reject" -> IF p \in {8, 11} THEN {"work_queue_lock"} ELSE {}
      [] c = "high" ->
            IF p = 3 THEN {"network_lock"}
            ELSE IF p \in {4, 5, 7} THEN {"network_lock", "offloaded_lock"}
            ELSE IF p = 6
            THEN {"network_lock", "offloaded_lock", "networkMutex"} ELSE {}
      [] c = "halt" ->
            IF p = 3 THEN {"offloaded_lock"}
            ELSE IF p = 4 THEN {"network_lock", "offloaded_lock"}
            ELSE IF p = 5
            THEN {"network_lock", "offloaded_lock", "networkMutex"}
            ELSE IF p = 8 THEN {"work_queue_lock"} ELSE {}
      [] c = "update" -> IF p \in {2, 3} THEN {"offloaded_lock"} ELSE {}
      [] c = "low_request" -> IF p = 4 THEN {"work_queue_lock"} ELSE {}
      [] c \in {"high_request", "update_request"} ->
            IF p = 3 THEN {"work_queue_lock"} ELSE {}
      [] c = "register_last" -> IF p = 10 THEN {"networkMutex"} ELSE {}
      [] OTHER -> {}

Plain == Mutex \ {"log_list_lock"}

\* What an operation does to the mutexes of its thread: it takes none it has,
\* gives up what it has or takes, and leaves what the next one carries.
Balanced(c, p, op, last) ==
    /\ Carries(c, p) \subseteq Plain
    /\ op.take \subseteq Mutex
    /\ op.give \subseteq Carries(c, p) \cup op.take
    /\ Carries(c, p) \cap op.take = {}
    /\ ((Carries(c, p) \cup op.take) \ op.give) \ {"log_list_lock"} =
            IF last THEN {} ELSE Carries(c, p + 1)

BigLocks == {"network_lock", "offloaded_lock"}

\* Only workers wait with a mutex in hand, one of the two big ones; and for
\* the other one of these only those that run alone.
Ordered(c, p, op) ==
    op.take \cap Plain # {} /\ Carries(c, p) # {} =>
        /\ c \in WorkerCall
        /\ Carries(c, p) \subseteq BigLocks
        /\ op.take \cap BigLocks # {} => c \notin LowCall

\* The calls that make work items and queue them.
Adders == Request \cup {"low_reject", "halt"}

\* Which operations touch a datum, and what they have then.
Guarded(c, p, op) ==
    LET has == (Carries(c, p) \cup op.take) \ {"log_list_lock"}
        touches == op.reads \cup op.writes
    IN  /\ "off" \in touches => "offloaded_lock" \in has
        /\ "comms" \in touches => "networkMutex" \in has
        /\ "device_list" \in touches => "list_lock" \in has
        /\ "log_list" \in touches => "log_list_lock" \in op.take
        /\ "work_queue" \in touches =>
            \/ c \in Adders /\ "work_queue_lock" \in has
            \/ c = "dispatch"
        /\ "link_ids" \in touches => c \in LowCall \cup {"high"}
        /\ "dnn_ids" \in touches => c \in {"low_accept", "high"}
        /\ "item_ids" \in touches => c \in Adders
        /\ "device_ids" \in touches => c \in Registering
        /\ touches \cap {"DNNS", "network_link"} # {} =>
            /\ c \in WorkerCall
            /\ "network_lock" \in has \/ c = "low_reject"
        /\ op.writes \cap {"DNNS", "network_link"} # {} =>
            c # "low_reject"
        /\ "devices" \in touches => c \in WorkerCall \cup Registering
        /\ "devices" \in op.writes => c \in Registering
        /\ "result" \in touches => c \in WorkerCall \cup {"post_allocation"}
        /\ "result" \in op.writes => c \in {"halt", "update"}
        /\ "bandwidth" \in touches =>
            c \in LowCall \cup {"high", "register_last"}
        /\ "bandwidth" \in op.writes => c = "register_last"
        /\ "hosts" \in touches => c \in {"post_start"} \cup Registering
        /\ "hosts" \in op.writes => c \in Registering

\* All this of a call of n operations.
Fits(c, script, n) ==
    /\ Len(script) = n
    /\ Carries(c, 1) = {}
    /\ \A p \in 1 .. n : /\ Balanced(c, p, script[p], p = n)
                         /\ Ordered(c, p, script[p])
                         /\ Guarded(c, p, script[p])

-----------------------------------------------------------------------------
(* The calls, one by one *)

\* Every call is of this kind, and none is longer than LowReject.
LEMMA CallsFit ==
    \A c \in DOMAIN Script :
        Fits(c, Script[c], Len(Script[c])) /\ Len(Script[c]) \in 1 .. 14
<1> USE DEF Access, Section, Enter, Log, AddLog, Op, Send, AddTask, Fits,
            Balanced, Ordered, Guarded, Carries, Plain, Mutex, BigLocks,
            Adders, Request, LowCall, WorkerCall, Registering, NewItem
<1>1. Fits("low_accept", LowAccept, 12)
    BY DEF LowAccept, LowPlan, NewLink, NewLowResult
<1>2. Fits("low_reject", LowReject, 14)
    BY DEF LowReject, LowPlan, NewLink, WriteNetwork
<1>3. Fits("high", HighAllocate, 7)
    BY DEF HighAllocate
<1>4. Fits("halt", Halt, 8)
    BY DEF Halt
<1>5. Fits("update", StateUpdate, 3)
    BY DEF StateUpdate
<1>6. Fits("low_request", LowRequest, 4)
    BY DEF LowRequest
<1>7. Fits("high_request", HighRequest, 4)
    BY DEF HighRequest
<1>8. Fits("update_request", UpdateRequest, 3)
    BY DEF UpdateRequest
<1>9. Fits("register", Register, 5)
    BY DEF Register
<1>10. Fits("register_last", RegisterLast, 10)
    BY DEF RegisterLast, Register
<1>11. Fits("log_result", LogResult, 1)
    BY DEF LogResult
<1>12. Fits("dispatch", Dispatch, 2)
    BY DEF Dispatch
<1>13. Fits("take", TakeMessage, 1)
    BY DEF TakeMessage
<1>14. Fits("post_allocation", PostAllocation, 2)
    BY DEF PostAllocation, WriteResult
<1>15. Fits("post_halt", PostHalt, 1)
    BY DEF PostHalt
<1>16. Fits("post_start", PostStart, 2)
    BY DEF PostStart
<1> HIDE DEF Access, Section, Enter, Log, AddLog, Op, Send, AddTask, Fits,
             Balanced, Ordered, Guarded, Carries, Plain, Mutex, BigLocks,
             Adders, Request, LowCall, WorkerCall, Registering, NewItem
<1>17. \A c, script : \A n \in 1 .. 14 : Fits(c, script, n) =>
            Fits(c, script, Len(script)) /\ Len(script) \in 1 .. 14
    BY DEF Fits
<1>18. DOMAIN Script =
        {"low_accept", "low_reject", "high", "halt", "update", "low_request",
         "high_request", "update_request", "register", "register_last",
         "log_result", "dispatch", "take", "post_allocation", "post_halt",
         "post_start"}
    BY DEF Script
<1>19. \A c \in DOMAIN Script : \E n \in 1 .. 14 : Fits(c, Script[c], n)
    BY <1>1, <1>2, <1>3, <1>4, <1>5, <1>6, <1>7, <1>8, <1>9, <1>10, <1>11,
       <1>12, <1>13, <1>14, <1>15, <1>16, <1>18
       DEF Script
<1> QED  BY <1>17, <1>19

-----------------------------------------------------------------------------
(* The invariant *)

\* Which threads make which calls.
RoleInv ==
    /\ \A t \in Thread : call[t] \in WorkerCall => t \in Worker
    /\ \A t \in Thread : call[t] = "dispatch" => t = MainLoop
    /\ \A t \in Thread :
        call[t] \in {"take", "post_allocation", "post_halt", "post_start"}
        => t = CommLoop

\* main_loop lets low complexity allocations run side by side, nothing else.
AloneInv ==
    \A v, w \in Worker :
        v # w /\ call[v] # "none" /\ call[w] # "none" =>
            call[v] \in LowCall /\ call[w] \in LowCall

\* A thread is at an operation of its call and has what that one carries.
HoldInv ==
    /\ \A t \in Thread :
        IF call[t] = "none" THEN pc[t] = 1
        ELSE pc[t] \in 1 .. Len(Script[call[t]])
    /\ \A t \in Thread, m \in Plain :
        owner[m] = t <=> m \in Carries(call[t], pc[t])

ThreadsInv == ThreadsTypeOK /\ RoleInv /\ AloneInv /\ HoldInv

\* At first nobody has a mutex.
LEMMA ThreadsBegin == Init => ThreadsInv
<1> SUFFICES ASSUME Init  PROVE ThreadsInv
    OBVIOUS
<1> USE DEF Init
<1>1. Carries("none", 1) = {}
    BY DEF Carries
<1>2. \A t \in Thread : call[t] = "none" /\ pc[t] = 1
    OBVIOUS
<1>3. \A m \in Mutex : owner[m] = NoThread /\ owner[m] \notin Thread
    BY ThreadsAssumption
<1>4. ThreadsTypeOK
    BY <1>3 DEF ThreadsTypeOK
<1>5. RoleInv
    BY <1>2 DEF RoleInv, WorkerCall, LowCall
<1>6. AloneInv
    BY <1>2 DEF AloneInv, Thread
<1>7. HoldInv
    BY <1>1, <1>2, <1>3 DEF HoldInv, Plain
<1> QED  BY <1>4, <1>5, <1>6, <1>7 DEF ThreadsInv

\* The next operation of a thread in a call.
LEMMA AtOperation ==
    ASSUME ThreadsInv, NEW t \in Thread, call[t] # "none"
    PROVE  /\ call[t] \in DOMAIN Script
           /\ pc[t] \in 1 .. Len(Script[call[t]])
           /\ Len(Script[call[t]]) \in 1 .. 14
           /\ Carries(call[t], 1) = {}
           /\ Balanced(call[t], pc[t], NextOp(t),
                       pc[t] = Len(Script[call[t]]))
           /\ Ordered(call[t], pc[t], NextOp(t))
           /\ Guarded(call[t], pc[t], NextOp(t))
BY CallsFit DEF ThreadsInv, ThreadsTypeOK, HoldInv, Fits, NextOp

\* The calls there are.
LEMMA CallsKnown ==
    /\ DOMAIN Script = WorkerCall \cup HandlerCall \cup CommCall \cup {"dispatch"}
    /\ "none" \notin DOMAIN Script
BY DEF Script, WorkerCall, LowCall, HandlerCall, CommCall

\* A thread begins a call: it has no mutex then, nor needs one.
LEMMA StartKeeps ==
    ASSUME ThreadsInv, NEW t \in Thread, Start(t)
    PROVE  ThreadsInv'
<1>1. PICK c \in DOMAIN Script : /\ Starts(t, c)
                                 /\ c \in WorkerCall <=> t \in Worker
                                 /\ c = "dispatch" => t = MainLoop
                                 /\ c \in CommCall => t = CommLoop
                                 /\ c \in WorkerCall =>
                                    \A v \in Live : {c, call[v]} \subseteq LowCall
    <2>1. "dispatch" \notin WorkerCall \cup CommCall
          /\ HandlerCall \cap (WorkerCall \cup CommCall \cup {"dispatch"}) = {}
          /\ CommCall \cap WorkerCall = {}
        BY DEF WorkerCall, LowCall, HandlerCall, CommCall
    <2>2. t \in Worker /\ StartWorker(t) => \E c \in WorkerCall :
            Starts(t, c) /\ \A v \in Live : {c, call[v]} \subseteq LowCall
        BY DEF StartWorker
    <2> QED
        BY <2>1, <2>2, CallsKnown, ThreadsAssumption DEF Start
<1>2. /\ call[t] = "none" /\ call' = [call EXCEPT ![t] = c]
      /\ pc' = pc /\ owner' = owner
    BY <1>1 DEF Starts
<1>3. /\ call'[t] = c /\ c # "none" /\ pc[t] = 1
      /\ \A u \in Thread : u # t => call'[u] = call[u]
      /\ call' \in [Thread -> {"none"} \cup DOMAIN Script]
    BY <1>1, <1>2, CallsKnown DEF ThreadsInv, ThreadsTypeOK, HoldInv
<1>4. Carries(c, 1) = {} /\ 1 \in 1 .. Len(Script[c]) /\ Carries("none", 1) = {}
    BY <1>1, CallsFit DEF Fits, Carries
<1>5. ThreadsTypeOK'
    BY <1>2, <1>3, CallsKnown DEF ThreadsInv, ThreadsTypeOK
<1>6. RoleInv'
    BY <1>1, <1>3 DEF ThreadsInv, RoleInv, CommCall
<1>7. AloneInv'
    <2> SUFFICES ASSUME NEW v \in Worker, NEW w \in Worker, v # w,
                        call'[v] # "none", call'[w] # "none"
                 PROVE  call'[v] \in LowCall /\ call'[w] \in LowCall
        BY DEF AloneInv
    <2>1. v \in Thread /\ w \in Thread
        BY DEF Thread
    <2>2. ASSUME NEW x \in Worker, x # t, call[x] # "none", t \in Worker
          PROVE  c \in LowCall /\ call[x] \in LowCall
        BY <1>1, <2>2 DEF Live
    <2>3. CASE v # t /\ w # t
        BY <1>3, <2>1, <2>3 DEF ThreadsInv, AloneInv
    <2>4. CASE v = t
        BY <1>3, <2>1, <2>2, <2>4
    <2>5. CASE w = t
        BY <1>3, <2>1, <2>2, <2>5
    <2> QED  BY <2>3, <2>4, <2>5
<1>8. HoldInv'
    BY <1>2, <1>3, <1>4 DEF ThreadsInv, HoldInv
<1> QED  BY <1>5, <1>6, <1>7, <1>8 DEF ThreadsInv

\* A thread executes its next operation: whose mutexes they are is as before
\* for all others.
LEMMA StepKeeps ==
    ASSUME ThreadsInv, NEW t \in Thread, Step(t)
    PROVE  ThreadsInv'
<1> DEFINE c == call[t]
           op == NextOp(t)
           last == pc[t] = Len(Script[c])
<1>1. /\ c # "none"
      /\ \A m \in op.take : owner[m] = NoThread
      /\ owner' = [m \in Mutex |-> IF m \in op.give THEN NoThread
                                  ELSE IF m \in op.take THEN t ELSE owner[m]]
      /\ IF last
         THEN /\ call' = [call EXCEPT ![t] = "none"]
              /\ pc' = [pc EXCEPT ![t] = 1]
         ELSE pc' = [pc EXCEPT ![t] = @ + 1] /\ call' = call
    BY DEF Step
<1>2. /\ c \in DOMAIN Script
      /\ pc[t] \in 1 .. Len(Script[c]) /\ Len(Script[c]) \in 1 .. 14
      /\ Balanced(c, pc[t], op, last)
    BY <1>1, AtOperation
<1> HIDE DEF op
<1>3. /\ call \in [Thread -> {"none"} \cup DOMAIN Script]
      /\ pc \in [Thread -> 1 .. 32]
      /\ owner \in [Mutex -> Thread \cup {NoThread}]
    BY DEF ThreadsInv, ThreadsTypeOK
<1>4. /\ call'[t] = IF last THEN "none" ELSE c
      /\ pc'[t] = IF last THEN 1 ELSE pc[t] + 1
      /\ \A u \in Thread : u # t => call'[u] = call[u] /\ pc'[u] = pc[u]
      /\ call' \in [Thread -> {"none"} \cup DOMAIN Script]
      /\ pc' \in [Thread -> 1 .. 32]
    <2>1. CASE last
        <3>1. call' = [call EXCEPT ![t] = "none"] /\ pc' = [pc EXCEPT ![t] = 1]
            BY <1>1, <2>1
        <3> HIDE DEF last
        <3> QED  BY <1>3, <2>1, <3>1
    <2>2. CASE ~last
        <3>1. pc[t] + 1 \in 1 .. 32
            <4> DEFINE n == Len(Script[c])
            <4>1. pc[t] \in 1 .. n /\ n \in 1 .. 14
                BY <1>2
            <4> HIDE DEF n
            <4> QED  BY <4>1
        <3>2. pc' = [pc EXCEPT ![t] = pc[t] + 1] /\ call' = call
            BY <1>1, <2>2
        <3> HIDE DEF last
        <3> QED  BY <1>3, <2>2, <3>1, <3>2
    <2> QED  BY <2>1, <2>2
<1>5. ~last => pc[t] + 1 \in 1 .. Len(Script[c])
    BY <1>2
<1>6. Carries("none", 1) = {}
    BY DEF Carries
<1>7. Carries(call'[t], pc'[t]) =
        ((Carries(c, pc[t]) \cup op.take) \ op.give) \ {"log_list_lock"}
    BY <1>2, <1>4, <1>6 DEF Balanced
<1>8. \A u \in Thread, m \in Plain :
        owner[m] = u <=> m \in Carries(call[u], pc[u])
    BY DEF ThreadsInv, HoldInv
<1>9. \A m \in op.give : owner[m] \in {t, NoThread} \/ m = "log_list_lock"
    <2>1. op.give \subseteq Carries(c, pc[t]) \cup op.take
          /\ Carries(c, pc[t]) \subseteq Plain
        BY <1>2 DEF Balanced
    <2> QED  BY <1>1, <1>8, <2>1
<1> HIDE DEF last
<1>10. \A u \in Thread, m \in Plain :
        owner'[m] = u <=> m \in Carries(call'[u], pc'[u])
    <2> SUFFICES ASSUME NEW u \in Thread, NEW m \in Plain
                 PROVE  owner'[m] = u <=> m \in Carries(call'[u], pc'[u])
        OBVIOUS
    <2>1. m \in Mutex /\ m # "log_list_lock" /\ u # NoThread
        BY ThreadsAssumption DEF Plain
    <2>2. owner'[m] = IF m \in op.give THEN NoThread
                      ELSE IF m \in op.take THEN t ELSE owner[m]
        BY <1>1, <2>1
    <2>3. CASE u = t
        BY <1>7, <1>8, <2>1, <2>2, <2>3
    <2>4. CASE u # t
        <3>1. Carries(call'[u], pc'[u]) = Carries(call[u], pc[u])
            BY <1>4, <2>4
        <3>2. owner[m] = u => m \notin op.give /\ m \notin op.take
            BY <1>1, <1>9, <2>1, <2>4
        <3>3. owner'[m] = u <=> owner[m] = u
            BY <2>1, <2>2, <2>4, <3>2
        <3> QED  BY <1>8, <3>1, <3>3
    <2> QED  BY <2>3, <2>4
<1>11. HoldInv'
    <2>1. \A u \in Thread : IF call'[u] = "none" THEN pc'[u] = 1
                            ELSE pc'[u] \in 1 .. Len(Script[call'[u]])
        <3> TAKE u \in Thread
        <3>1. CASE u = t   BY <1>1, <1>4, <1>5, <3>1
        <3>2. CASE u # t
            BY <1>4, <3>2 DEF ThreadsInv, HoldInv
        <3> QED  BY <3>1, <3>2
    <2> QED  BY <1>10, <2>1 DEF HoldInv
<1>12. ThreadsTypeOK'
    <2>1. owner' \in [Mutex -> Thread \cup {NoThread}]
        BY <1>1, <1>3
    <2>2. \A m \in Mutex \ {"log_list_lock"} :
            owner'[m] # NoThread => call'[owner'[m]] # "none"
        <3> SUFFICES ASSUME NEW m \in Plain, owner'[m] # NoThread
                     PROVE  call'[owner'[m]] # "none"
            BY DEF Plain
        <3> DEFINE u == owner'[m]
        <3>1. u \in Thread /\ m \in Mutex
            BY <2>1 DEF Plain
        <3>2. m \in Carries(call'[u], pc'[u])
            BY <1>10, <3>1
        <3>3. call'[u] # "none"
            BY <3>2 DEF Carries
        <3> QED  BY <3>3
    <2> QED  BY <1>4, <2>1, <2>2 DEF ThreadsTypeOK
<1>13. \A u \in Thread : call'[u] \in {call[u], "none"}
    BY <1>4
<1>14. RoleInv'
    BY <1>13 DEF ThreadsInv, RoleInv, WorkerCall, LowCall
<1>15. AloneInv'
    BY <1>13 DEF ThreadsInv, AloneInv, Thread
<1> QED  BY <1>11, <1>12, <1>14, <1>15 DEF ThreadsInv

\* It is an invariant of the threads.
THEOREM ThreadsInvariant == Spec => []ThreadsInv
<1>1. ASSUME ThreadsInv, [Next]_vars  PROVE ThreadsInv'
    <2>1. CASE UNCHANGED vars
        BY <1>1, <2>1
           DEF vars, ThreadsInv, ThreadsTypeOK, RoleInv, AloneInv, HoldInv
    <2> QED  BY <1>1, <2>1, StartKeeps, StepKeeps DEF Next
<1> QED  BY <1>1, ThreadsBegin, PTL DEF Spec

-----------------------------------------------------------------------------
(* What follows from it *)

\* Types; when its call ends a thread has given up its mutexes.
THEOREM ThreadsTypesOK == Spec => []ThreadsTypeOK
<1>1. ThreadsInv => ThreadsTypeOK
    BY DEF ThreadsInv
<1> QED  BY <1>1, ThreadsInvariant, PTL

\* Two threads in calls of workers are low complexity allocations.
LEMMA WorkersSideBySide ==
    ASSUME ThreadsInv, NEW t \in Thread, NEW u \in Thread, t # u,
           call[t] \in WorkerCall, call[u] \in WorkerCall
    PROVE  call[t] \in LowCall /\ call[u] \in LowCall
<1>1. t \in Worker /\ u \in Worker
    BY DEF ThreadsInv, RoleInv
<1>2. call[t] # "none" /\ call[u] # "none"
    BY DEF WorkerCall, LowCall
<1> QED  BY <1>1, <1>2 DEF ThreadsInv, AloneInv

\* No threads wait for each other in a circle, nor in a chain without an end.
THEOREM NeverACycle == Spec => []NoCycle
<1>1. ASSUME ThreadsInv, NEW S \in SUBSET Thread,
             \A t \in S : \E u \in S : WaitsFor(t, u)
      PROVE  S = {}
    <2> SUFFICES ASSUME NEW a \in S  PROVE FALSE
        OBVIOUS
    <2>1. \A t \in S : /\ call[t] # "none"
                       /\ NextOp(t).take \cap Plain # {}
                       /\ NextOp(t).take \subseteq Mutex
                       /\ Ordered(call[t], pc[t], NextOp(t))
                       /\ Carries(call[t], pc[t]) \cap NextOp(t).take = {}
        <3> TAKE t \in S
        <3>1. call[t] # "none" /\ NextOp(t).take \ {"log_list_lock"} # {}
            BY <1>1 DEF WaitsFor
        <3>2. Balanced(call[t], pc[t], NextOp(t),
                       pc[t] = Len(Script[call[t]]))
              /\ Ordered(call[t], pc[t], NextOp(t))
            BY <1>1, <3>1, AtOperation
        <3> QED  BY <3>1, <3>2 DEF Balanced, Plain
    <2>2. \A t, u \in S : WaitsFor(t, u) =>
            \E m \in NextOp(t).take \cap Plain : m \in Carries(call[u], pc[u])
        BY <1>1, <2>1 DEF WaitsFor, Plain, ThreadsInv, HoldInv
    <2>3. PICK u \in S : WaitsFor(a, u)
        BY <1>1
    <2>4. PICK v \in S : WaitsFor(u, v)
        BY <1>1
    <2>5. PICK m \in NextOp(u).take \cap Plain : m \in Carries(call[v], pc[v])
        BY <2>2, <2>4
    <2>6. /\ Carries(call[u], pc[u]) # {}
        BY <2>2, <2>3
    <2>7. /\ call[u] \in WorkerCall /\ call[v] \in WorkerCall
          /\ m \in BigLocks /\ call[u] \notin LowCall
        BY <2>1, <2>5, <2>6 DEF Ordered
    <2>8. u # v
        BY <2>1, <2>5
    <2> QED  BY <1>1, <2>7, <2>8, WorkersSideBySide
<1>2. ThreadsInv => NoCycle
    BY <1>1 DEF NoCycle
<1> QED  BY <1>2, ThreadsInvariant, PTL

\* What a thread in a call has when it touches a datum.
LEMMA LocksHeld ==
    ASSUME ThreadsInv, NEW t \in Thread, call[t] # "none", NEW x \in Data
    PROVE  /\ Guarded(call[t], pc[t], NextOp(t))
           /\ (Carries(call[t], pc[t]) \cup NextOp(t).take)
                \ {"log_list_lock"} \subseteq Locks(t, x)
           /\ x = "log_list" => NextOp(t).take \subseteq Locks(t, x)
<1>1. /\ Guarded(call[t], pc[t], NextOp(t))
      /\ Carries(call[t], pc[t]) \subseteq Plain
    BY AtOperation DEF Balanced
<1>2. \A m \in Carries(call[t], pc[t]) : owner[m] = t
    BY <1>1 DEF ThreadsInv, HoldInv
<1> QED  BY <1>1, <1>2 DEF Locks, Plain

\* A race is listed once, whichever of the two calls is named first.
LEMMA BetweenCalls ==
    ASSUME NEW x, NEW A, NEW B, NEW c, NEW d,
           (c \in A /\ d \in B) \/ (c \in B /\ d \in A)
    PROVE  <<x, {c, d}>> \in Between(x, A, B)
<1>1. {c, d} = {d, c}
    OBVIOUS
<1>2. CASE c \in A /\ d \in B
    BY <1>2 DEF Between
<1>3. CASE c \in B /\ d \in A
    <2>1. <<x, {d, c}>> \in Between(x, A, B)
        BY <1>3 DEF Between
    <2> QED  BY <1>1, <2>1
<1> QED  BY <1>2, <1>3

\* Whoever touches a datum while another may, does so in one of the listed
\* cases.
THEOREM RacesAreKnown == Spec => []OnlyKnownRaces
<1>1. ASSUME ThreadsInv, NEW t \in Thread, NEW u \in Thread, t # u,
             call[t] # "none", call[u] # "none", NEW x \in Data,
             x \in NextOp(t).writes, x \in Touches(u),
             Locks(t, x) \cap Locks(u, x) = {}
      PROVE  <<x, {call[t], call[u]}>> \in KnownRaces
    <2> DEFINE c == call[t]
               d == call[u]
               ct == (Carries(c, pc[t]) \cup NextOp(t).take)
                        \ {"log_list_lock"}
               du == (Carries(d, pc[u]) \cup NextOp(u).take)
                        \ {"log_list_lock"}
    <2>1. /\ Guarded(c, pc[t], NextOp(t)) /\ Guarded(d, pc[u], NextOp(u))
          /\ ct \subseteq Locks(t, x) /\ du \subseteq Locks(u, x)
          /\ x = "log_list" => /\ NextOp(t).take \subseteq Locks(t, x)
                               /\ NextOp(u).take \subseteq Locks(u, x)
        BY <1>1, LocksHeld
    <2>2. c \in WorkerCall /\ d \in WorkerCall => c \in LowCall /\ d \in LowCall
        BY <1>1, WorkersSideBySide
    <2>3. x \in NextOp(t).reads \cup NextOp(t).writes
          /\ x \in NextOp(u).reads \cup NextOp(u).writes
        BY <1>1 DEF Touches
    <2>4. ~(c = "dispatch" /\ d = "dispatch")
        BY <1>1 DEF ThreadsInv, RoleInv
    <2>5. ct \cap du = {}
        BY <1>1, <2>1
    <2> SUFFICES <<x, {c, d}>> \in KnownRaces
        OBVIOUS
    <2> HIDE DEF c, d
    <2>7. x \notin {"off", "comms", "device_list", "log_list"}
        BY <1>1, <2>1, <2>3, <2>5 DEF Guarded
    <2>8. CASE x = "work_queue"
        <3>1. \/ c \in Adders /\ d = "dispatch"
              \/ c = "dispatch" /\ d \in Adders
            BY <2>1, <2>3, <2>4, <2>5, <2>8 DEF Guarded
        <3>2. <<x, {c, d}>> \in Between("work_queue", {"dispatch"}, Adders)
            BY <2>8, <3>1, BetweenCalls
        <3> QED  BY <3>2 DEF KnownRaces, Adders
    <2>9. CASE x = "link_ids"
        <3>1. c \in LowCall /\ d \in LowCall
            BY <2>1, <2>2, <2>3, <2>9 DEF Guarded, WorkerCall
        <3>2. <<x, {c, d}>> \in Between("link_ids", LowCall, LowCall)
            BY <2>9, <3>1, BetweenCalls
        <3> QED  BY <3>2 DEF KnownRaces
    <2>15. CASE x = "dnn_ids"
        <3>1. c = "low_accept" /\ d = "low_accept"
            BY <2>1, <2>2, <2>3, <2>15 DEF Guarded, WorkerCall, LowCall
        <3>2. <<x, {c, d}>> \in Between("dnn_ids", {"low_accept"}, {"low_accept"})
            BY <2>15, <3>1, BetweenCalls
        <3> QED  BY <3>2 DEF KnownRaces
    <2>16. CASE x = "item_ids"
        <3>1. c \in Adders /\ d \in Adders
            BY <2>1, <2>3, <2>16 DEF Guarded
        <3>2. CASE c \in Request \/ d \in Request
            <4>1. <<x, {c, d}>> \in Between("item_ids", Adders, Request)
                BY <2>16, <3>1, <3>2, BetweenCalls
            <4> QED  BY <4>1 DEF KnownRaces, Adders
        <3>3. CASE c \notin Request /\ d \notin Request
            <4>1. c = "low_reject" /\ d = "low_reject"
                BY <2>2, <3>1, <3>3 DEF Adders, WorkerCall, LowCall
            <4>2. <<x, {c, d}>> \in Between("item_ids", {"low_reject"}, {"low_reject"})
                BY <2>16, <4>1, BetweenCalls
            <4> QED  BY <4>2 DEF KnownRaces
        <3> QED  BY <3>2, <3>3
    <2>17. CASE x = "device_ids"
        <3>1. c \in Registering /\ d \in Registering
            BY <2>1, <2>3, <2>17 DEF Guarded
        <3>2. <<x, {c, d}>> \in Between("device_ids", Registering, Registering)
            BY <2>17, <3>1, BetweenCalls
        <3> QED  BY <3>2 DEF KnownRaces
    <2>10. CASE x \in {"DNNS", "network_link"}
        <3>1. c = "low_accept" /\ d = "low_reject"
            BY <1>1, <2>1, <2>2, <2>3, <2>5, <2>10 DEF Guarded, LowCall
        <3>2. <<x, {c, d}>> \in Between(x, {"low_reject"}, {"low_accept"})
            BY <3>1, BetweenCalls
        <3> QED  BY <2>10, <3>2 DEF KnownRaces
    <2>11. CASE x = "devices"
        <3>1. c \in Registering /\ d \in WorkerCall \cup Registering
            BY <1>1, <2>1, <2>3, <2>11 DEF Guarded
        <3>2. <<x, {c, d}>> \in Between("devices", WorkerCall \cup Registering, Registering)
            BY <2>11, <3>1, BetweenCalls
        <3> QED  BY <3>2 DEF KnownRaces
    <2>12. CASE x = "result"
        <3>1. c \in {"halt", "update"} /\ d = "post_allocation"
            BY <1>1, <2>1, <2>2, <2>3, <2>12 DEF Guarded, WorkerCall, LowCall
        <3>2. <<x, {c, d}>> \in Between("result", {"post_allocation"}, {"halt", "update"})
            BY <2>12, <3>1, BetweenCalls
        <3> QED  BY <3>2 DEF KnownRaces
    <2>13. CASE x = "bandwidth"
        <3>1. c = "register_last"
              /\ d \in LowCall \cup {"high", "register_last"}
            BY <1>1, <2>1, <2>3, <2>13 DEF Guarded
        <3>2. <<x, {c, d}>> \in Between("bandwidth", LowCall \cup {"high", "register_last"},
                            {"register_last"})
            BY <2>13, <3>1, BetweenCalls
        <3> QED  BY <3>2 DEF KnownRaces
    <2>14. CASE x = "hosts"
        <3>1. c \in Registering /\ d \in {"post_start"} \cup Registering
            BY <1>1, <2>1, <2>3, <2>14 DEF Guarded
        <3>2. <<x, {c, d}>> \in Between("hosts", {"post_start"} \cup Registering, Registering)
            BY <2>14, <3>1, BetweenCalls
        <3> QED  BY <3>2 DEF KnownRaces
    <2> QED
        BY <2>7, <2>8, <2>9, <2>10, <2>11, <2>12, <2>13, <2>14, <2>15, <2>16,
           <2>17 DEF Data
<1>2. ASSUME ThreadsInv  PROVE OnlyKnownRaces
    <2> SUFFICES ASSUME NEW t \in Thread, NEW u \in Thread, t # u,
                        call[t] # "none", call[u] # "none", NEW x \in Data,
                        Race(t, u, x)
                 PROVE  <<x, {call[t], call[u]}>> \in KnownRaces
        BY DEF OnlyKnownRaces
    <2>1. /\ x \in Touches(t) \cap Touches(u)
          /\ x \in NextOp(t).writes \/ x \in NextOp(u).writes
          /\ Locks(t, x) \cap Locks(u, x) = {}
        BY DEF Race
    <2>2. CASE x \in NextOp(t).writes
        BY <1>1, <1>2, <2>1, <2>2
    <2>3. CASE x \in NextOp(u).writes
        <3>1. <<x, {call[u], call[t]}>> \in KnownRaces
            <4>1. Locks(u, x) \cap Locks(t, x) = {}
                BY <2>1
            <4> QED  BY <1>1, <1>2, <2>1, <2>3, <4>1
        <3>2. {call[u], call[t]} = {call[t], call[u]}
            OBVIOUS
        <3> QED  BY <3>1, <3>2
    <2> QED  BY <2>1, <2>2, <2>3
<1> QED  BY <1>2, ThreadsInvariant, PTL
=============================================================================
