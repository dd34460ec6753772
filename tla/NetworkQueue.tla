---------------------------- MODULE NetworkQueue ----------------------------
(***************************************************************************)
(* The messages to the devices: any thread adds one (addTask), one loop    *)
(* takes them when they are due and sends them (initNetworkCommLoop).      *)
(*                                                                         *)
(* Both touch comms under networkMutex only, so each is one step. The loop *)
(* sends without the mutex: an allocation is posted and forgotten, a halt  *)
(* and the start of the experiment wait for the reply of each device, and  *)
(* a reply can be an error.                                                *)
(***************************************************************************)
EXTENDS Naturals, FiniteSets, SequencesExt

CONSTANTS
    LowDnn,         \* the ids of low complexity DNNs
    HighDnn,        \* and of high complexity ones
    Host,           \* the devices
    MaxTime,        \* bound: the clock stops there, no message is later
    MaxRun,         \* bound: how often a DNN is halted, and how many more
                    \* starts than one the experiment has
    SrcHost,        \* the device that requests a DNN
    AllocatedHost,  \* the device each version of a DNN is to run on: where
                    \* the allocation finds room, so any there is
    NoDnn,          \* the DNN of a message about none
    NoHost          \* the host of a message that is for all of them

Dnn == LowDnn \cup HighDnn

ASSUME NetworkQueueAssumption ==
    /\ LowDnn \cap HighDnn = {}
    /\ NoDnn \notin Dnn
    /\ MaxTime \in Nat \ {0} /\ MaxRun \in Nat
    /\ SrcHost \in [Dnn -> Host]
    /\ AllocatedHost \in [Dnn -> [0 .. MaxRun -> Host]]
    /\ \A d \in LowDnn, r \in 0 .. MaxRun : AllocatedHost[d][r] = SrcHost[d]

\* The messages some call of the program makes, and the host each is posted
\* to; run tells apart the versions of a DNN, and the starts of the experiment.
Message ==
    [type : {"initial_experiment_start", "halt_req",
             "low_complexity_allocation", "high_complexity_task_mapping"},
     dnn : Dnn \cup {NoDnn}, run : 0 .. MaxRun, time : 1 .. MaxTime,
     host : Host \cup {NoHost}]

VARIABLES
    now,            \* the system clock
    comms,          \* the queue, sorted by time
    loop,           \* what the loop does
    item,           \* the message it has taken, if any
    awaited,        \* the hosts it still has to tell the start
    hosts,          \* the hosts that registered
    waiting,        \* the DNNs whose request is in the work queue
    off_total,      \* the DNNs the controller has booked
    halting,        \* the DNN halt_call takes apart, if any
    run,            \* how often a DNN was halted: its version
    starts,         \* how often the start of the experiment was queued
    sent            \* the messages posted so far

books == <<waiting, off_total, halting, run>>
vars == <<now, comms, loop, item, awaited, hosts, books, starts, sent>>

Init ==
    /\ now = 1
    /\ comms = <<>>
    /\ loop = "scan"
    /\ item = <<>>
    /\ awaited = <<>>
    /\ hosts = <<>>
    /\ waiting = Dnn
    /\ off_total = {}
    /\ halting = {}
    /\ run = [d \in Dnn |-> 0]
    /\ starts = 0
    /\ sent = {}

Tick ==
    /\ now < MaxTime
    /\ now' = now + 1
    /\ UNCHANGED <<comms, loop, item, awaited, hosts, books, starts, sent>>

-----------------------------------------------------------------------------
(* addTask *)

IsLow(m) == m.type = "low_complexity_allocation"

\* Fault: the sort is missing.
Appended(queue, m) == {Append(queue, m)}

\* push_back and std::sort by time; messages of one time come in any order.
Sorted(queue, m) ==
    {InsertAt(queue, k, m) : k \in
        {i \in 1 .. Len(queue) + 1 :
            /\ \A j \in 1 .. i - 1 : queue[j].time <= m.time
            /\ \A j \in i .. Len(queue) : m.time <= queue[j].time}}

\* Faults: a halt sweeps all messages, or none.
KeptNone(m) == IF m.type = "halt_req" THEN <<>> ELSE comms

KeptAll(m) == comms

\* Fault: other halts stay in the queue too.
KeptHalts(m) ==
    IF m.type = "halt_req"
    THEN SelectSeq(comms, LAMBDA n : IsLow(n) \/ n.type = "halt_req")
    ELSE comms

\* The loop over the queue that keeps only the allocations of low complexity
\* DNNs.
LowOnly(queue) ==
    LET new_list[i \in 0 .. Len(queue)] ==
            IF i = 0 THEN <<>>
            ELSE IF IsLow(queue[i]) THEN Append(new_list[i - 1], queue[i])
            ELSE new_list[i - 1]
    IN  new_list[Len(queue)]

\* What stays in the queue when m is added: all, or next to a halt only those.
Kept(m) == IF m.type = "halt_req" THEN LowOnly(comms) ELSE comms

AddTask(m) == comms' \in Sorted(Kept(m), m)

\* What tells a device of an allocation goes to the source of the DNN, also
\* when another device is to run it.
Mapping(d, type, time) ==
    [type |-> type, dnn |-> d, run |-> run[d], time |-> time,
     host |-> SrcHost[d]]

\* Fault: the halt goes where the allocation went.
HaltToSource(d) ==
    [type |-> "halt_req", dnn |-> d, run |-> run[d] - 1, time |-> now,
     host |-> SrcHost[d]]

\* A halt goes to the device that was to run the version that ended.
HaltMessage(d) ==
    [type |-> "halt_req", dnn |-> d, run |-> run[d] - 1, time |-> now,
     host |-> AllocatedHost[d][run[d] - 1]]

\* Fault: a DNN that is allocated again is not sent again.
BookQuietly(d, type, time) ==
    /\ halting = {}
    /\ d \in waiting
    /\ IF run[d] = 0 THEN AddTask(Mapping(d, type, time)) ELSE comms' = comms
    /\ waiting' = waiting \ {d}
    /\ off_total' = off_total \cup {d}
    /\ UNCHANGED <<now, loop, item, awaited, hosts, halting, run, starts,
                   sent>>

\* A call that allocates d: it runs while no halt_call does, takes d on the
\* maps and tells its device when the upload starts; the clock may be past
\* that by then.
Book(d, type, time) ==
    /\ halting = {}
    /\ d \in waiting
    /\ AddTask(Mapping(d, type, time))
    /\ waiting' = waiting \ {d}
    /\ off_total' = off_total \cup {d}
    /\ UNCHANGED <<now, loop, item, awaited, hosts, halting, run, starts,
                   sent>>

\* low_comp_allocation_call
BookLow(d, time) ==
    d \in LowDnn /\ Book(d, "low_complexity_allocation", time)

\* high_comp_allocation_call, for the first time or after a halt.
BookHigh(d, time) ==
    d \in HighDnn /\ Book(d, "high_complexity_task_mapping", time)

\* halt_call takes d off the maps and clears its result, the object that
\* messages in the queue and in the hand of the loop still point to. A DNN on
\* its own source would end the process there (Allocation!HaltCrashes).
Blank(d) ==
    /\ halting = {}
    /\ d \in HighDnn \cap off_total
    /\ AllocatedHost[d][run[d]] # SrcHost[d]
    /\ run[d] < MaxRun
    /\ halting' = {d}
    /\ off_total' = off_total \ {d}
    /\ run' = [run EXCEPT ![d] = @ + 1]
    /\ UNCHANGED <<now, comms, loop, item, awaited, hosts, waiting, starts,
                   sent>>

\* Fault: what was not posted yet is not halted.
HaltIfSent(d) ==
    /\ d \in halting
    /\ IF \E m \in sent : m.dnn = d /\ m.run = run[d] - 1
       THEN AddTask(HaltMessage(d))
       ELSE comms' = comms
    /\ halting' = {}
    /\ waiting' = waiting \cup {d}
    /\ UNCHANGED <<now, loop, item, awaited, hosts, off_total, run, starts,
                   sent>>

\* Then it tells the device, naming the version that ended, and puts the
\* request back into the work queue.
Halt(d) ==
    /\ d \in halting
    /\ AddTask(HaltMessage(d))
    /\ halting' = {}
    /\ waiting' = waiting \cup {d}
    /\ UNCHANGED <<now, loop, item, awaited, hosts, off_total, run, starts,
                   sent>>

\* A handler that has registered the last device starts the experiment.
StartExperiment ==
    /\ starts <= MaxRun
    /\ AddTask([type |-> "initial_experiment_start", dnn |-> NoDnn,
                run |-> starts, time |-> now, host |-> NoHost])
    /\ starts' = starts + 1
    /\ UNCHANGED <<now, loop, item, awaited, hosts, books, sent>>

-----------------------------------------------------------------------------
(* initNetworkCommLoop *)

\* The first message, if it is due.
Pop ==
    /\ loop = "scan"
    /\ comms # <<>>
    /\ Head(comms).time <= now
    /\ item' = <<Head(comms)>>
    /\ comms' = Tail(comms)
    /\ loop' = "send"
    /\ UNCHANGED <<now, awaited, hosts, books, starts, sent>>

\* lowTaskAllocation, highTaskAllocation: nobody waits for the reply.
PostAllocation ==
    /\ loop = "send"
    /\ item[1].type \in {"low_complexity_allocation",
                         "high_complexity_task_mapping"}
    /\ sent' = sent \cup {item[1]}
    /\ item' = <<>>
    /\ loop' = "scan"
    /\ UNCHANGED <<now, comms, awaited, hosts, books, starts>>

\* haltReq
PostHalt ==
    /\ loop = "send"
    /\ item[1].type = "halt_req"
    /\ sent' = sent \cup {item[1]}
    /\ loop' = "wait"
    /\ UNCHANGED <<now, comms, item, awaited, hosts, books, starts>>

\* Fault: the wait is not inside a try.
HaltErrorEndsLoop ==
    /\ loop = "wait"
    /\ item[1].type = "halt_req"
    /\ loop' = "ended"
    /\ UNCHANGED <<now, comms, item, awaited, hosts, books, starts, sent>>

\* Fault: the message is kept for another attempt.
HaltKept ==
    /\ loop = "wait"
    /\ item[1].type = "halt_req"
    /\ loop' = "scan"
    /\ UNCHANGED <<now, comms, item, awaited, hosts, books, starts, sent>>

\* The reply or an error: both end the wait.
HaltAnswered ==
    /\ loop = "wait"
    /\ item[1].type = "halt_req"
    /\ item' = <<>>
    /\ loop' = "scan"
    /\ UNCHANGED <<now, comms, awaited, hosts, books, starts, sent>>

\* initialise_experiment tells the hosts registered by now, one after the
\* other; without any it is done.
PostStart ==
    /\ loop = "send"
    /\ item[1].type = "initial_experiment_start"
    /\ sent' = sent \cup {item[1]}
    /\ awaited' = hosts
    /\ item' = IF hosts = <<>> THEN <<>> ELSE item
    /\ loop' = IF hosts = <<>> THEN "scan" ELSE "wait"
    /\ UNCHANGED <<now, comms, hosts, books, starts>>

\* Fault: the loop returns to its queue after the first host.
StartReplyOnce ==
    /\ loop = "wait"
    /\ awaited # <<>>
    /\ awaited' = Tail(awaited)
    /\ item' = <<>>
    /\ loop' = "scan"
    /\ UNCHANGED <<now, comms, hosts, books, starts, sent>>

StartReply ==
    /\ loop = "wait"
    /\ awaited # <<>>
    /\ awaited' = Tail(awaited)
    /\ item' = IF awaited' = <<>> THEN <<>> ELSE item
    /\ loop' = IF awaited' = <<>> THEN "scan" ELSE "wait"
    /\ UNCHANGED <<now, comms, hosts, books, starts, sent>>

\* The wait throws, past the loop to the handler behind it.
StartError ==
    /\ loop = "wait"
    /\ awaited # <<>>
    /\ loop' = "ended"
    /\ UNCHANGED <<now, comms, item, awaited, hosts, books, starts, sent>>

-----------------------------------------------------------------------------

Controller ==
    \/ \E d \in Dnn, time \in 1 .. MaxTime : BookLow(d, time) \/ BookHigh(d, time)
    \/ \E d \in HighDnn : Blank(d) \/ Halt(d)

Loop ==
    \/ Pop
    \/ PostAllocation \/ PostHalt \/ PostStart
    \/ HaltAnswered \/ StartReply \/ StartError

-----------------------------------------------------------------------------
(* Properties *)

Held == ToSet(comms) \cup ToSet(item)

\* Types; the loop has a message in hand exactly while it sends, and tells
\* hosts only about the start of the experiment.
TypeOK ==
    /\ now \in 1 .. MaxTime
    /\ comms \in Seq(Message)
    /\ loop \in {"scan", "send", "wait", "ended"}
    /\ item \in Seq(Message) /\ Len(item) = IF loop = "scan" THEN 0 ELSE 1
    /\ {awaited, hosts} \subseteq Seq(Host)
    /\ awaited # <<>> => /\ loop \in {"wait", "ended"}
                         /\ item[1].type = "initial_experiment_start"
    /\ waiting \cup off_total \subseteq Dnn
    /\ halting \subseteq HighDnn
    /\ run \in [Dnn -> 0 .. MaxRun]
    /\ starts \in 0 .. MaxRun + 1
    /\ sent \subseteq Message

\* No halt, of whichever DNN and however many, costs a low complexity DNN
\* its allocation: it is in the queue, in the hand of the loop, or posted.
LowNeverLost ==
    \A d \in LowDnn \cap off_total :
        \E m \in Held \cup sent : IsLow(m) /\ m.dnn = d

\* Once the halt of a version was posted, the loop posts no allocation of that
\* version any more, although the allocation may be due after the halt and the
\* loop may already have had it in hand when the halt was queued.
HaltIsLast ==
    [][\A m \in sent : m.type = "halt_req" =>
        ~\E n \in sent' \ sent :
            /\ n.type = "high_complexity_task_mapping"
            /\ n.dnn = m.dnn
            /\ n.run = m.run]_vars

\* The queue, the mutex and the loop keep the promise of the outbox: what is
\* due earlier goes first, and only a halt makes messages disappear.
OutboxImplemented == INSTANCE Outbox WITH
    outbox <- ToSet(comms),
    taken <- ToSet(item) \cup sent

OutboxSpec == OutboxImplemented!Spec
=============================================================================
