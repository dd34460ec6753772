------------------------------- MODULE Startup -------------------------------
(***************************************************************************)
(* Devices register, each with a request of its own and its own handler;   *)
(* the handlers run side by side. One that finds CLIENT_COUNT devices on   *)
(* the list measures the link and queues the start of the experiment,      *)
(* which the outbound loop posts to the hosts. A device that was told      *)
(* starts to send requests.                                                *)
(*                                                                         *)
(* Only the list of devices has a lock. The push to hosts reads the vector *)
(* and writes it back: two pushes that overlap keep one of both hosts.     *)
(***************************************************************************)
EXTENDS NetworkQueue

CONSTANTS
    Registration,   \* the registration requests
    From,           \* the device each comes from
    ClientCount     \* CLIENT_COUNT

ASSUME StartupAssumption ==
    /\ From \in [Registration -> Host]
    /\ ClientCount \in Nat \ {0}

VARIABLES
    device_list,    \* RegisterDevices: the devices, as often as they register
    devices,        \* the keys of network->devices
    at,             \* how far the handler of a registration is
    seen,           \* the hosts it has read, about to push
    average,        \* whose measurement gave the bandwidth,
    jitter,         \* and whose the jitter, if any
    told,           \* the devices the start was posted to
    exited          \* whether a measurement failed and ended the process

registry == <<device_list, devices, at, seen, average, jitter, exited>>
startupVars == <<vars, registry, told>>

StartupInit ==
    /\ Init
    /\ device_list = <<>>
    /\ devices = {}
    /\ at = [r \in Registration |-> "idle"]
    /\ seen = [r \in Registration |-> <<>>]
    /\ average = {} /\ jitter = {}
    /\ told = {}
    /\ exited = FALSE

-----------------------------------------------------------------------------
(* handle_post, for DEVICE_REGISTER_REQUEST *)

Goes(r, from, to) == at[r] = from /\ at' = [at EXCEPT ![r] = to]

\* register_device: a push under the lock of the list.
RegisterDevice(r) ==
    /\ Goes(r, "idle", "listed")
    /\ device_list' = Append(device_list, From[r])
    /\ UNCHANGED <<vars, devices, seen, average, jitter, exited>>

\* A new ComputationDevice, in place of an older one if there is any.
AddDevice(r) ==
    /\ Goes(r, "listed", "known")
    /\ devices' = devices \cup {From[r]}
    /\ UNCHANGED <<vars, device_list, seen, average, jitter, exited>>

\* hosts.push_back, without a lock.
ReadHosts(r) ==
    /\ Goes(r, "known", "pushing")
    /\ seen' = [seen EXCEPT ![r] = hosts]
    /\ UNCHANGED <<vars, device_list, devices, average, jitter, exited>>

\* A push next to another one, or under the eyes of the loop, may move the
\* vector away while it is used.
Racy(r) ==
    awaited # <<>> \/ \E s \in Registration \ {r} : at[s] = "pushing"

PushHost(r) ==
    /\ Goes(r, "pushing", "pushed")
    /\ hosts' = Append(seen[r], From[r])
    /\ seen' = [seen EXCEPT ![r] = <<>>]
    /\ exited' \in IF Racy(r) THEN BOOLEAN ELSE {FALSE}
    /\ UNCHANGED <<now, comms, loop, item, awaited, books, starts, sent,
                   device_list, devices, average, jitter>>

\* Fault: the experiment is started without a measurement.
StartUnmeasured(r) ==
    /\ Goes(r, "pushed",
            IF Len(device_list) = ClientCount THEN "ready" ELSE "done")
    /\ UNCHANGED <<vars, device_list, devices, seen, average, jitter, exited>>

\* Fault: the size is taken without the device that registers.
TestSizeBefore(r) ==
    /\ Goes(r, "pushed",
            IF Len(device_list) - 1 = ClientCount THEN "measuring" ELSE "done")
    /\ UNCHANGED <<vars, device_list, devices, seen, average, jitter, exited>>

\* The device gets its reply; then the size is tested.
TestSize(r) ==
    /\ Goes(r, "pushed",
            IF Len(device_list) = ClientCount THEN "measuring" ELSE "done")
    /\ UNCHANGED <<vars, device_list, devices, seen, average, jitter, exited>>

\* iPerfTest, for one device after the other; the first it cannot reach
\* ends the process. Then setAverageBitsPerSecond.
SetAverage(r) ==
    /\ Goes(r, "measuring", "measured")
    /\ average' = {r}
    /\ UNCHANGED <<vars, device_list, devices, seen, jitter, exited>>

MeasureExits(r) ==
    /\ at[r] = "measuring"
    /\ exited' = TRUE
    /\ UNCHANGED <<vars, device_list, devices, at, seen, average, jitter>>

SetJitter(r) ==
    /\ Goes(r, "measured", "ready")
    /\ jitter' = {r}
    /\ UNCHANGED <<vars, device_list, devices, seen, average, exited>>

QueueStart(r) ==
    /\ Goes(r, "ready", "done")
    /\ StartExperiment
    /\ UNCHANGED <<device_list, devices, seen, average, jitter, exited>>

Handle(r) ==
    \/ AddDevice(r) \/ ReadHosts(r) \/ PushHost(r) \/ TestSize(r)
    \/ SetAverage(r) \/ MeasureExits(r) \/ SetJitter(r) \/ QueueStart(r)

-----------------------------------------------------------------------------

Handler(r) ==
    /\ ~exited
    /\ RegisterDevice(r) \/ Handle(r)
    /\ UNCHANGED told

\* The workers have requests to serve once a device was told to start.
Work ==
    /\ ~exited
    /\ Tick \/ (told # {} /\ Controller)
    /\ UNCHANGED <<registry, told>>

\* The host in front of awaited is posted to while the loop awaits it.
Sender ==
    /\ ~exited
    /\ Loop
    /\ told' = told \cup (IF awaited' = <<>> THEN {} ELSE {Head(awaited')})
    /\ UNCHANGED registry

StartupNext == (\E r \in Registration : Handler(r)) \/ Work \/ Sender

StartupSpec == StartupInit /\ [][StartupNext]_startupVars

\* A handler, once its device has registered, the clock and the thread of the
\* loop go on; a request ends with a reply or an error.
StartupFairSpec ==
    /\ StartupSpec
    /\ WF_startupVars(Work /\ Tick)
    /\ WF_startupVars(Sender)
    /\ \A r \in Registration : WF_startupVars(at[r] # "idle" /\ Handler(r))

-----------------------------------------------------------------------------
(* Properties *)

\* Types, those of the queue included; a handler has a snapshot of hosts only
\* while it pushes.
StartupTypeOK ==
    /\ TypeOK
    /\ device_list \in Seq(Host)
    /\ devices \cup told \subseteq Host
    /\ at \in [Registration -> {"idle", "listed", "known", "pushing", "pushed",
                                "measuring", "measured", "ready", "done"}]
    /\ seen \in [Registration -> Seq(Host)]
    /\ average \cup jitter \subseteq Registration
    /\ exited \in BOOLEAN

\* A device that may send requests has a ComputationDevice to book them on,
\* and the durations of its transfers come from a measurement: whatever the
\* order of the handlers, and however many measure.
ReadyWhenTold == told # {} => told \subseteq devices /\ average # {} /\ jitter # {}

\* The vector of hosts lacks a host whose push is done: two pushes overlapped.
HostLost ==
    \E r \in Registration :
        /\ at[r] \in {"pushed", "measuring", "measured", "ready", "done"}
        /\ From[r] \notin ToSet(hosts)

\* A start that is not in the queue any more and was not posted.
StartSwept ==
    \E k \in 0 .. starts - 1 :
        \A m \in Held \cup sent :
            m.type # "initial_experiment_start" \/ m.run # k

\* If as many devices register as the controller waits for, it tells each
\* of them the start: the handler that is last to push sees them all, or a
\* later one does. What can prevent it is a lost push, a device that cannot
\* be measured or does not answer the start, or a halt that sweeps the start
\* out of the queue.
AllTold ==
    <>[](Len(device_list) = ClientCount)
        => <>[](\/ ToSet(device_list) \subseteq told
                \/ HostLost
                \/ exited
                \/ loop = "ended"
                \/ StartSwept)

\* The device of every low complexity DNN is told of it in the end, unless a
\* device failed to answer the start of the experiment, or the process ended.
LowDelivered ==
    \A d \in LowDnn :
        d \in off_total ~>
            \/ \E m \in sent : IsLow(m) /\ m.dnn = d
            \/ loop = "ended" /\ item[1].type = "initial_experiment_start"
            \/ exited

\* The loop never returns.
LoopRuns == loop # "ended"
=============================================================================
