------------------------------ MODULE Delivery ------------------------------
(***************************************************************************)
(* The outbound queue between the controller and its devices: what the     *)
(* controller books, the messages about it, and what the devices know.     *)
(*                                                                         *)
(* Posted messages arrive late, in any order, or never. An allocation goes *)
(* to the source of the DNN, which forwards it when another device is to   *)
(* run it; the halt goes straight to that one. A device keeps the versions *)
(* of DNNs it was given until it is told to halt one or reports one as     *)
(* finished or late; a report names the DNN but not the version.           *)
(***************************************************************************)
EXTENDS NetworkQueue

VARIABLES
    flight,         \* what was posted or forwarded and has not arrived
    held,           \* the versions the devices have, and where
    reports,        \* the state updates in the work queue, by version
    crashed,        \* whether a state update ended the process
    missed,         \* history: the messages that will never arrive,
    overtaken,      \* the versions whose halt arrived before them
    misread         \* and the DNNs released by a report on another version

network == <<flight, held, reports, crashed, overtaken, misread>>
deliveryVars == <<vars, network, missed>>

\* A version of a DNN, as a message to a host or the host itself has it; a
\* message whose result was cleared while it was written is not whole.
Version == [dnn : Dnn, run : 0 .. MaxRun, whole : BOOLEAN, host : Host]

DeliveryInit ==
    /\ Init
    /\ flight = {}
    /\ held = {}
    /\ reports = {}
    /\ crashed = FALSE
    /\ missed = {}
    /\ overtaken = {}
    /\ misread = {}

-----------------------------------------------------------------------------
(* The controller *)

\* Taking part in the queue without posting anything.
Quiet ==
    /\ Tick \/ Controller \/ Pop \/ HaltAnswered
    /\ UNCHANGED network

\* The loop reads the result without a lock: if halt_call has begun to clear
\* it by now, what is posted may be the old result, the cleared one, or a bit
\* of both.
Wholes(m) ==
    IF m.dnn \in HighDnn /\ run[m.dnn] > m.run THEN BOOLEAN ELSE {TRUE}

Post ==
    /\ PostAllocation \/ PostHalt
    /\ \E whole \in Wholes(item[1]) :
        flight' = flight \cup {[message |-> item[1], whole |-> whole,
                                host |-> item[1].host]}
    /\ UNCHANGED <<held, reports, crashed, overtaken, misread>>

\* state_update_call releases the DNN of that id, whichever version it is;
\* without one it dereferences a null pointer.
StateUpdate(v) ==
    /\ v \in reports
    /\ halting = {}
    /\ reports' = reports \ {v}
    /\ off_total' = off_total \ {v.dnn}
    /\ crashed' = (v.dnn \notin off_total)
    /\ misread' = IF v.dnn \in off_total /\ v.run # run[v.dnn]
                  THEN misread \cup {v.dnn} ELSE misread
    /\ UNCHANGED <<now, comms, loop, item, awaited, hosts, waiting, halting,
                   run, starts, sent, flight, held, overtaken>>

-----------------------------------------------------------------------------
(* The network and the devices *)

VersionOf(p) ==
    [dnn |-> p.message.dnn, run |-> p.message.run, whole |-> p.whole,
     host |-> p.host]

\* Which version a message, or what a device has, is about.
IdOf(x) == [dnn |-> x.dnn, run |-> x.run]

\* The device a packet is meant for; the message tells, if it is whole.
Target(p) == AllocatedHost[p.message.dnn][p.message.run]

\* An allocation reaches the device that is to run it. One that is not whole
\* may not name that device any more, and the source keeps it.
ArriveAllocation(p) ==
    /\ p \in flight
    /\ p.message.type # "halt_req"
    /\ p.host = Target(p) \/ ~p.whole
    /\ flight' = flight \ {p}
    /\ held' = held \cup {VersionOf(p)}
    /\ UNCHANGED <<vars, reports, crashed, overtaken, misread>>

\* An allocation reaches the source of the DNN, which forwards it to the other
\* device it names.
Forward(p) ==
    /\ p \in flight
    /\ p.message.type # "halt_req"
    /\ p.host # Target(p)
    /\ flight' = (flight \ {p}) \cup {[p EXCEPT !.host = Target(p)]}
    /\ UNCHANGED <<vars, held, reports, crashed, overtaken, misread>>

\* The device drops the version the halt names, if it has it; what is not
\* whole may have one version or another. What is still on its way to the
\* source, or from there to the device, is overtaken.
ArriveHalt(p) ==
    /\ p \in flight
    /\ p.message.type = "halt_req"
    /\ flight' = flight \ {p}
    /\ LET named == {v \in held : IdOf(v) = IdOf(p.message) /\ v.host = p.host}
           late == {q \in flight \ {p} : IdOf(q.message) = IdOf(p.message)}
       IN  /\ \E kept \in SUBSET {v \in named : ~v.whole} :
                held' = (held \ named) \cup kept
           /\ overtaken' = overtaken \cup {IdOf(q.message) : q \in late}
    /\ UNCHANGED <<vars, reports, crashed, misread>>

\* A message is lost on its way.
Lose(p) ==
    /\ p \in flight
    /\ flight' = flight \ {p}
    /\ UNCHANGED <<vars, held, reports, crashed, overtaken, misread>>

\* A device reports that a DNN finished or missed its deadline; the handler
\* queues a state update.
Report(v) ==
    /\ v \in held
    /\ held' = held \ {v}
    /\ reports' = reports \cup {v}
    /\ UNCHANGED <<vars, flight, crashed, overtaken, misread>>

-----------------------------------------------------------------------------

\* What a step makes disappear: swept from the queue by a halt, or lost.
Swept ==
    {m \in ToSet(comms) : ~IsLow(m) /\ m \notin ToSet(comms') \cup ToSet(item')}

DeliveryNext ==
    /\ ~crashed
    /\ \/ /\ Quiet \/ Post \/ \E v \in reports : StateUpdate(v)
          /\ missed' = missed \cup Swept
       \/ /\ \/ \E p \in flight :
                    ArriveAllocation(p) \/ Forward(p) \/ ArriveHalt(p)
             \/ \E v \in held : Report(v)
          /\ UNCHANGED missed
       \/ \E p \in flight : Lose(p) /\ missed' = missed \cup {p.message}

DeliverySpec == DeliveryInit /\ [][DeliveryNext]_deliveryVars

-----------------------------------------------------------------------------
(* Properties *)

\* Types, those of the queue included; what travels was posted, and a device
\* only ever has versions that were posted to it.
DeliveryTypeOK ==
    /\ TypeOK
    /\ flight \subseteq [message : sent, whole : BOOLEAN, host : Host]
    /\ held \cup reports \subseteq Version
    /\ overtaken \subseteq [dnn : Dnn, run : 0 .. MaxRun]
    /\ crashed \in BOOLEAN
    /\ missed \subseteq Message
    /\ misread \subseteq Dnn

HaltOf(m, v) == m.type = "halt_req" /\ m.dnn = v.dnn /\ m.run = v.run

Settled ==
    /\ ~crashed
    /\ Held = {} /\ flight = {} /\ halting = {} /\ reports = {}

\* When all messages have arrived, the devices compute nothing the
\* controller has not booked, unless a halt was lost or swept away by the
\* next one, arrived at its device before the allocation that went there by
\* way of the source, or missed a version that was not whole, or a report on
\* an earlier version released the DNN.
NoOrphans ==
    Settled => \A v \in held :
        \/ v.dnn \in off_total /\ v.run = run[v.dnn]
        \/ \E m \in missed : HaltOf(m, v)
        \/ IdOf(v) \in overtaken
        \/ ~v.whole
        \/ v.dnn \in misread

\* And all the controller has booked is on the device it was booked for,
\* unless the allocation was lost, or swept away by the halt of another DNN.
\* A booked low complexity DNN cannot be swept away.
BookedIsHeld ==
    Settled => \A d \in off_total :
        \/ [dnn |-> d, run |-> run[d], whole |-> TRUE,
            host |-> AllocatedHost[d][run[d]]] \in held
        \/ \E m \in missed : m.dnn = d /\ m.run = run[d] /\ m.type # "halt_req"

\* A version that reaches its device in pieces is one that is being halted:
\* the halt for it follows, unless it is swept away or lost.
SpoiltIsHalted ==
    \A v \in held \cup {VersionOf(p) : p \in flight} :
        ~v.whole => \/ v.dnn \in halting /\ run[v.dnn] = v.run + 1
                    \/ \E m \in Held \cup sent \cup missed : HaltOf(m, v)
=============================================================================
