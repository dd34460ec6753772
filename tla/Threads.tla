------------------------------- MODULE Threads -------------------------------
(***************************************************************************)
(* The locks of the whole program: which call takes which mutex, in which  *)
(* order, and what it reads and writes with and without them.              *)
(*                                                                         *)
(* A call is the sequence of its operations. An operation may take one     *)
(* mutex first and give up some afterwards; what is between needs no other *)
(* mutex, so it is one step. Values are left out: WorkQueue, Allocation    *)
(* and NetworkQueue have them, and take the locks for granted.             *)
(***************************************************************************)
EXTENDS Naturals, Sequences, FiniteSets

CONSTANTS
    Worker,         \* detached threads of main_loop
    Handler,        \* threads of the REST listener
    MainLoop,       \* the thread of WorkQueueManager::main_loop
    CommLoop,       \* the thread of NetworkQueueManager::initNetworkCommLoop
    NoThread        \* the owner of a free mutex

Thread == Worker \cup Handler \cup {MainLoop, CommLoop}

ASSUME ThreadsAssumption ==
    /\ Worker \cap Handler = {}
    /\ MainLoop \notin Worker \cup Handler
    /\ CommLoop \notin Worker \cup Handler \cup {MainLoop}
    /\ NoThread \notin Thread

Mutex == {"work_queue_lock", "network_lock", "offloaded_lock",
          "networkMutex", "list_lock", "log_list_lock"}

\* network->devices, the DNNS of the devices, network_link, the maps off_*,
\* the results these point to, the bandwidth and the jitter; the static
\* counters that give links, DNNs, work items and devices their ids; the rest
\* have their own names.
Data == {"devices", "DNNS", "network_link", "off", "result", "bandwidth",
         "link_ids", "dnn_ids", "item_ids", "device_ids",
         "work_queue", "comms", "hosts", "device_list", "log_list"}

-----------------------------------------------------------------------------
(* Operations *)

Op(take, reads, writes, give) ==
    [take |-> take, reads |-> reads, writes |-> writes, give |-> give]

\* An access without a mutex of its own; a section under one; the first
\* operation of a longer section.
Access(reads, writes) == Op({}, reads, writes, {})
Section(m, reads, writes) == Op({m}, reads, writes, {m})
Enter(m, reads, writes) == Op({m}, reads, writes, {})

\* LogManager::add_log, and what else happens before the next mutex.
Log(reads, writes, give) ==
    Op({"log_list_lock"}, reads, writes \cup {"log_list"},
       give \cup {"log_list_lock"})

AddLog == Log({}, {}, {})

\* Fault: the mutex is not unlocked.
AddTaskKeepsLock ==
    <<Enter("work_queue_lock", {}, {}), Log({}, {"work_queue"}, {})>>

\* WorkQueueManager::add_task logs under its lock.
AddTask ==
    <<Enter("work_queue_lock", {}, {}),
      Log({}, {"work_queue"}, {"work_queue_lock"})>>

\* NetworkQueueManager::addTask too; the caller may give up its own mutexes.
Send(give) ==
    <<Enter("networkMutex", {}, {}),
      Log({}, {"comms"}, {"networkMutex"} \cup give)>>

\* A new LinkAct takes the next id and increments the counter, which has no
\* mutex; so does a LowCompResult, made next to a second link, and a WorkItem.
NewLink == Access({"link_ids"}, {"link_ids"})

NewLowResult == Access({"link_ids", "dnn_ids"}, {"link_ids", "dnn_ids"})

NewItem == Access({"item_ids"}, {"item_ids"})

\* Network::convertToJson, and HighCompResult::convertToJson.
WriteNetwork == Access({"devices", "DNNS", "result", "network_link"}, {})

WriteResult == Access({"result"}, {})

-----------------------------------------------------------------------------
(* Calls of the workers *)

\* low_comp_allocation_call, until it knows whether there is room. It makes
\* a LinkAct with an id of its own between two sections.
LowPlan ==
    <<Section("network_lock", {"network_link"}, {}),
      Access({"bandwidth"}, {}),
      Section("network_lock", {}, {}),
      NewLink,
      Section("network_lock", {"devices", "DNNS", "result"}, {})>>

\* Fault: network_lock is not taken again.
LowAcceptUnlocked ==
    LowPlan
    \o <<NewLowResult,
         Section("offloaded_lock", {}, {"off"}),
         Access({}, {"network_link"}),
         Log({"devices"}, {"DNNS"}, {}),
         AddLog>>
    \o Send({})

\* It books the DNN: the maps, then the link, the device and the message.
LowAccept ==
    LowPlan
    \o <<NewLowResult,
         Section("offloaded_lock", {}, {"off"}),
         Enter("network_lock", {}, {"network_link"}),
         Log({"devices"}, {"DNNS"}, {}),
         AddLog>>
    \o Send({"network_lock"})

\* It queues a halt and the request, and writes the network into the log.
LowReject ==
    LowPlan \o <<NewItem>> \o AddTask \o <<NewItem>> \o AddTask
    \o <<AddLog,
         WriteNetwork,
         AddLog>>

\* high_comp_allocation_call: all under both locks, a log and a message for
\* each DNN.
HighAllocate ==
    <<Access({"bandwidth"}, {}),
      Enter("network_lock", {}, {}),
      Enter("offloaded_lock", {"devices", "link_ids", "dnn_ids"},
            {"off", "DNNS", "network_link", "link_ids", "dnn_ids"}),
      AddLog>>
    \o Send({})
    \o <<Log({}, {}, {"network_lock", "offloaded_lock"})>>

\* halt_call copies the hosts, takes the locks in the other order, and puts
\* the DNN back into the queue without them.
Halt ==
    <<Access({"devices"}, {}),
      Enter("offloaded_lock", {}, {}),
      Enter("network_lock", {"devices"},
            {"off", "DNNS", "network_link", "result"})>>
    \o Send({"network_lock", "offloaded_lock"})
    \o <<NewItem>> \o AddTask

\* state_update_call gives up network_lock before it logs.
StateUpdate ==
    <<Enter("offloaded_lock", {}, {"off"}),
      Section("network_lock", {"devices"}, {"off", "DNNS", "network_link"}),
      Log({}, {"result"}, {"offloaded_lock"})>>

-----------------------------------------------------------------------------
(* Calls of the handlers *)

\* Each makes a work item and queues it; the update logs first.
LowRequest == <<NewItem, AddLog>> \o AddTask

HighRequest == <<NewItem>> \o AddTask \o <<AddLog>>

UpdateRequest == <<Log({"item_ids"}, {"item_ids"}, {})>> \o AddTask

Register ==
    <<Section("list_lock", {}, {"device_list"}),
      Access({"device_ids"}, {"device_ids", "devices"}),
      Access({}, {"hosts"}),
      AddLog,
      Section("list_lock", {"device_list"}, {})>>

\* The last device: the measurement, and the message that starts it all.
RegisterLast ==
    Register
    \o <<Section("list_lock", {"device_list"}, {}),
         Access({"bandwidth"}, {"bandwidth"}),
         AddLog>>
    \o Send({})

\* LogManager::write_log ends its unique_lock with release, not unlock.
LogResult == <<Op({"log_list_lock"}, {"log_list"}, {}, {})>>

-----------------------------------------------------------------------------
(* Calls of the two loops *)

\* main_loop tests the queue without the lock, then takes the front.
Dispatch ==
    <<Access({"work_queue"}, {}),
      Section("work_queue_lock", {}, {"work_queue"})>>

TakeMessage == <<Section("networkMutex", {}, {"comms"})>>

\* highTaskAllocation and lowTaskAllocation write the result as JSON, log,
\* and write it again.
PostAllocation == <<WriteResult, Log({"result"}, {}, {})>>

PostHalt == <<AddLog>>

PostStart == <<AddLog, Access({"hosts"}, {})>>

Script ==
    [low_accept |-> LowAccept, low_reject |-> LowReject,
     high |-> HighAllocate, halt |-> Halt, update |-> StateUpdate,
     low_request |-> LowRequest, high_request |-> HighRequest,
     update_request |-> UpdateRequest, register |-> Register,
     register_last |-> RegisterLast, log_result |-> LogResult,
     dispatch |-> Dispatch, take |-> TakeMessage,
     post_allocation |-> PostAllocation, post_halt |-> PostHalt,
     post_start |-> PostStart]

LowCall == {"low_accept", "low_reject"}
WorkerCall == LowCall \cup {"high", "halt", "update"}
HandlerCall == {"low_request", "high_request", "update_request",
                "register", "register_last", "log_result"}
CommCall == {"take", "post_allocation", "post_halt", "post_start"}

-----------------------------------------------------------------------------

VARIABLES
    call,           \* the call of each thread, "none" between two
    pc,             \* its next operation
    owner           \* the thread that has a mutex

vars == <<call, pc, owner>>

Init ==
    /\ call = [t \in Thread |-> "none"]
    /\ pc = [t \in Thread |-> 1]
    /\ owner = [m \in Mutex |-> NoThread]

Starts(t, c) ==
    /\ call[t] = "none"
    /\ call' = [call EXCEPT ![t] = c]
    /\ UNCHANGED <<pc, owner>>

Live == {w \in Worker : call[w] # "none"}

\* Fault: main_loop waits only when it has as many workers as it may have.
StartAny(w) == \E c \in WorkerCall : Starts(w, c)

\* main_loop lets low workers run side by side, any other alone.
StartWorker(w) ==
    \E c \in WorkerCall :
        /\ \A v \in Live : {c, call[v]} \subseteq LowCall
        /\ Starts(w, c)

Start(t) ==
    \/ t \in Worker /\ StartWorker(t)
    \/ t \in Handler /\ \E c \in HandlerCall : Starts(t, c)
    \/ t = MainLoop /\ Starts(t, "dispatch")
    \/ t = CommLoop /\ \E c \in CommCall : Starts(t, c)

NextOp(t) == Script[call[t]][pc[t]]

\* The next operation, when its mutex is free.
Step(t) ==
    /\ call[t] # "none"
    /\ \A m \in NextOp(t).take : owner[m] = NoThread
    /\ owner' = [m \in Mutex |-> IF m \in NextOp(t).give THEN NoThread
                                ELSE IF m \in NextOp(t).take THEN t
                                ELSE owner[m]]
    /\ IF pc[t] = Len(Script[call[t]])
       THEN /\ call' = [call EXCEPT ![t] = "none"]
            /\ pc' = [pc EXCEPT ![t] = 1]
       ELSE /\ pc' = [pc EXCEPT ![t] = @ + 1]
            /\ UNCHANGED call

Next == \E t \in Thread : Start(t) \/ Step(t)

Spec == Init /\ [][Next]_vars

\* Threads are scheduled, and a mutex that is free again and again does not
\* starve main_loop, which tries in every round.
FairSpec ==
    /\ Spec
    /\ \A t \in Thread : WF_vars(Step(t))
    /\ SF_vars(Step(MainLoop))

-----------------------------------------------------------------------------
(* Properties *)

\* Types; a thread has given up its mutexes when its call ends, but for the
\* log's, which write_log keeps.
ThreadsTypeOK ==
    /\ call \in [Thread -> {"none"} \cup DOMAIN Script]
    /\ pc \in [Thread -> 1 .. 32]
    /\ owner \in [Mutex -> Thread \cup {NoThread}]
    /\ \A m \in Mutex \ {"log_list_lock"} :
           owner[m] # NoThread => call[owner[m]] # "none"

\* Whether t waits for a mutex that u has; the one of the log is never held
\* from one operation to the next, only kept for ever.
WaitsFor(t, u) ==
    /\ call[t] # "none"
    /\ \E m \in NextOp(t).take \ {"log_list_lock"} : owner[m] = u

\* The calls take network_lock and offloaded_lock in both orders, and other
\* mutexes under them; still no threads wait for each other in a circle, for
\* those two never run side by side.
NoCycle ==
    \A S \in SUBSET Thread :
        (\A t \in S : \E u \in S : WaitsFor(t, u)) => S = {}

Touches(t) == NextOp(t).reads \cup NextOp(t).writes

\* What t reads or writes next is protected by the mutexes it will have then;
\* the one of the log protects the log only.
Locks(t, x) ==
    ({m \in Mutex : owner[m] = t} \cup NextOp(t).take)
        \ (IF x = "log_list" THEN {} ELSE {"log_list_lock"})

\* t and u could touch x in the next moment, in any order or at once.
Race(t, u, x) ==
    /\ x \in Touches(t) \cap Touches(u)
    /\ x \in NextOp(t).writes \cup NextOp(u).writes
    /\ Locks(t, x) \cap Locks(u, x) = {}
    /\ \A m \in Locks(t, x) \cup Locks(u, x) : owner[m] \in {NoThread, t, u}
    /\ \A v \in {t, u} : \A m \in NextOp(v).take :
           owner[m] = NoThread \/ m \notin Locks(v, x)

Between(x, C, D) == {<<x, {c, d}>> : c \in C, d \in D}

Registering == {"register", "register_last"}

Request == {"low_request", "high_request", "update_request"}

\* The look at work_queue without its lock; the four counters of ids; the
\* network that is written into the log; the registration next to another one,
\* and to calls that look at the devices, at the measured bandwidth and at the
\* hosts; and the result of an allocation that is posted while its DNN is
\* withdrawn or finishes.
KnownRaces ==
    Between("work_queue", {"dispatch"}, Request \cup {"low_reject", "halt"})
    \cup Between("link_ids", LowCall, LowCall)
    \cup Between("dnn_ids", {"low_accept"}, {"low_accept"})
    \cup Between("item_ids", Request \cup {"low_reject", "halt"}, Request)
    \cup Between("item_ids", {"low_reject"}, {"low_reject"})
    \cup Between("device_ids", Registering, Registering)
    \cup Between("DNNS", {"low_reject"}, {"low_accept"})
    \cup Between("network_link", {"low_reject"}, {"low_accept"})
    \cup Between("devices", WorkerCall \cup Registering, Registering)
    \cup Between("bandwidth", LowCall \cup {"high", "register_last"},
                 {"register_last"})
    \cup Between("hosts", {"post_start"} \cup Registering, Registering)
    \cup Between("result", {"post_allocation"}, {"halt", "update"})

\* Two threads touch one of the data at once, one of them to write it, in
\* these cases and in no other: the mutexes, and the rule which workers run
\* side by side, protect all else that is in Data.
OnlyKnownRaces ==
    \A t, u \in {v \in Thread : call[v] # "none"} :
        t # u => \A x \in Data :
            Race(t, u, x) => <<x, {call[t], call[u]}>> \in KnownRaces

\* main_loop gets at its queue, whatever the others do, until a handler has
\* written the log.
SchedulerRuns ==
    call[MainLoop] # "none" ~>
        call[MainLoop] = "none" \/ owner["log_list_lock"] # NoThread
=============================================================================
