---------------------------- MODULE StartupProofs ----------------------------
(***************************************************************************)
(* Proofs about Startup for every number of registrations, devices and     *)
(* handlers that run side by side, every CLIENT_COUNT and every bound.     *)
(*                                                                         *)
(* That a device which was told has its ComputationDevice, and that a      *)
(* measurement came first, hold because of what each handler did before:   *)
(* the invariant says what every stage of a handler leaves behind, for     *)
(* hosts, the snapshots of it and the hosts the loop awaits alike. The     *)
(* race on hosts loses hosts; it never brings in a device not yet known.   *)
(***************************************************************************)
EXTENDS Startup, NetworkQueueProofs

\* Every host the program still has, somewhere, is of a known device.
KnownHosts ==
    /\ ToSet(hosts) \cup ToSet(awaited) \subseteq devices
    /\ \A r \in Registration : ToSet(seen[r]) \subseteq devices
    /\ told \subseteq devices

\* What a handler has done when it is past a stage.
StageInv ==
    \A r \in Registration :
        /\ at[r] \notin {"idle", "listed"} => From[r] \in devices
        /\ at[r] \in {"measured", "ready"} => average # {}
        /\ at[r] = "ready" => jitter # {}

\* No start is queued, and so none is told, before a measurement.
MeasuredInv ==
    /\ starts > 0 => average # {} /\ jitter # {}
    /\ told # {} => starts > 0

StartupInv ==
    /\ StartupTypeOK /\ QueueInv
    /\ KnownHosts /\ StageInv /\ MeasuredInv
    /\ LowNeverLost

-----------------------------------------------------------------------------
(* Sequences of hosts *)

\* What a push and a pop do to the hosts of a sequence.
LEMMA PushedHost ==
    ASSUME NEW s \in Seq(Host), NEW h \in Host
    PROVE  /\ Append(s, h) \in Seq(Host)
           /\ ToSet(Append(s, h)) = ToSet(s) \cup {h}
<1> DEFINE t == Append(s, h)
<1>1. /\ t \in Seq(Host) /\ Len(t) = Len(s) + 1 /\ Len(s) \in Nat
      /\ \A i \in 1 .. Len(s) : t[i] = s[i]
      /\ t[Len(s) + 1] = h
    BY AppendProperties, LenProperties
<1>2. DOMAIN s = 1 .. Len(s) /\ DOMAIN t = 1 .. Len(s) + 1
    BY <1>1, LenProperties
<1> HIDE DEF t
<1>3. ToSet(t) \subseteq ToSet(s) \cup {h}
    <2> SUFFICES ASSUME NEW i \in 1 .. Len(s) + 1
                 PROVE  t[i] \in ToSet(s) \cup {h}
        BY <1>2 DEF ToSet
    <2> QED  BY <1>1, <1>2 DEF ToSet
<1>4. ToSet(s) \cup {h} \subseteq ToSet(t)
    <2>1. \A i \in 1 .. Len(s) : i \in 1 .. Len(s) + 1 /\ t[i] = s[i]
        BY <1>1
    <2>2. ToSet(s) \subseteq ToSet(t)
        BY <1>2, <2>1 DEF ToSet
    <2>3. Len(s) + 1 \in 1 .. Len(s) + 1
        BY <1>1
    <2> QED  BY <1>1, <1>2, <2>2, <2>3 DEF ToSet
<1> QED  BY <1>1, <1>3, <1>4 DEF t

\* The copy of the hosts loses its first one.
LEMMA PoppedHost ==
    ASSUME NEW s \in Seq(Host), s # <<>>
    PROVE  /\ Head(s) \in ToSet(s)
           /\ Tail(s) \in Seq(Host)
           /\ ToSet(Tail(s)) \subseteq ToSet(s)
<1> DEFINE t == Tail(s)
<1>1. /\ t \in Seq(Host) /\ Len(t) = Len(s) - 1
      /\ \A i \in 1 .. Len(s) - 1 : t[i] = s[i + 1]
      /\ Len(s) \in Nat /\ Len(s) > 0 /\ Head(s) = s[1]
      /\ DOMAIN s = 1 .. Len(s)
    BY HeadTailProperties, LenProperties, EmptySeq
<1>2. DOMAIN t = 1 .. Len(s) - 1
    BY <1>1, LenProperties
<1> HIDE DEF t
<1>3. \A i \in 1 .. Len(s) - 1 : i + 1 \in 1 .. Len(s)
    BY <1>1
<1> QED  BY <1>1, <1>2, <1>3 DEF ToSet, t

-----------------------------------------------------------------------------
(* The invariant *)

LEMMA StartupBegins == StartupInit => StartupInv
<1> SUFFICES ASSUME StartupInit  PROVE StartupInv
    OBVIOUS
<1>1. QueueInv
    BY QueueInit DEF StartupInit
<1>2. <<>> \in Seq(Host) /\ ToSet(<<>>) = {}
    BY EmptySeq DEF ToSet
<1>3. /\ off_total = {} /\ hosts = <<>> /\ awaited = <<>> /\ starts = 0
      /\ told = {} /\ seen = [r \in Registration |-> <<>>]
      /\ at = [r \in Registration |-> "idle"]
      /\ device_list = <<>> /\ devices = {} /\ average = {} /\ jitter = {}
      /\ exited = FALSE
    BY DEF StartupInit, Init
<1>4. StartupTypeOK
    BY <1>1, <1>2, <1>3 DEF StartupTypeOK, QueueInv
<1>5. KnownHosts /\ StageInv /\ MeasuredInv /\ LowNeverLost
    BY <1>2, <1>3 DEF KnownHosts, StageInv, MeasuredInv, LowNeverLost
<1> QED  BY <1>1, <1>4, <1>5 DEF StartupInv

\* The queue does not depend on hosts.
LEMMA HandlerKeepsQueue ==
    ASSUME StartupInv, hosts' \in Seq(Host),
           UNCHANGED <<now, comms, loop, item, awaited, books, starts, sent>>
    PROVE  QueueInv' /\ TypeOK' /\ LowNeverLost'
<1> USE DEF StartupInv, books
<1>1. QueueParts'
    BY SameQueue
<1>2. TypeOK'
    BY DEF QueueInv, TypeOK
<1>3. LowNeverLost'
    BY DEF LowNeverLost, Held, ToSet, IsLow
<1> QED  BY <1>1, <1>2, <1>3 DEF QueueInv, QueueParts

\* A stage of a handler that leaves the queue and hosts alone.
LEMMA StageKeeps ==
    ASSUME StartupInv, NEW r \in Registration, NEW from, NEW to,
           Goes(r, from, to),
           to \in {"listed", "known", "pushing", "pushed", "measuring",
                   "measured", "ready", "done"},
           to # "listed" => From[r] \in devices',
           to \in {"measured", "ready"} => average' # {},
           to = "ready" => jitter' # {},
           device_list' \in Seq(Host),
           devices \subseteq devices', devices' \subseteq Host,
           average # {} => average' # {}, average' \subseteq Registration,
           jitter # {} => jitter' # {}, jitter' \subseteq Registration,
           seen' \in [Registration -> Seq(Host)],
           \A s \in Registration : ToSet(seen'[s]) \subseteq devices',
           hosts' \in Seq(Host), ToSet(hosts') \subseteq devices',
           exited' \in BOOLEAN,
           UNCHANGED <<now, comms, loop, item, awaited, books, starts, sent,
                       told>>
    PROVE  StartupInv'
<1> USE DEF StartupInv
<1>1. QueueInv' /\ TypeOK' /\ LowNeverLost'
    BY HandlerKeepsQueue
<1>2. /\ at' \in [Registration -> {"idle", "listed", "known", "pushing",
                    "pushed", "measuring", "measured", "ready", "done"}]
      /\ at'[r] = to
      /\ \A s \in Registration : s # r => at'[s] = at[s]
    BY DEF Goes, StartupTypeOK
<1>3. StartupTypeOK'
    BY <1>1, <1>2 DEF StartupTypeOK
<1>4. KnownHosts'
    BY DEF KnownHosts, ToSet
<1>5. StageInv'
    <2> SUFFICES ASSUME NEW s \in Registration
                 PROVE  /\ at'[s] \notin {"idle", "listed"} =>
                            From[s] \in devices'
                        /\ at'[s] \in {"measured", "ready"} => average' # {}
                        /\ at'[s] = "ready" => jitter' # {}
        BY DEF StageInv
    <2>1. CASE s = r   BY <1>2, <2>1
    <2>2. CASE s # r   BY <1>2, <2>2 DEF StageInv
    <2> QED  BY <2>1, <2>2
<1>6. MeasuredInv'
    BY DEF MeasuredInv
<1> QED  BY <1>1, <1>3, <1>4, <1>5, <1>6

\* Every stage of a handler keeps the invariant.
LEMMA HandlerKeeps ==
    ASSUME StartupInv, NEW r \in Registration, Handler(r)
    PROVE  StartupInv'
<1>1. /\ From[r] \in Host
      /\ hosts \in Seq(Host) /\ device_list \in Seq(Host)
      /\ seen \in [Registration -> Seq(Host)]
      /\ devices \subseteq Host /\ exited \in BOOLEAN
      /\ average \subseteq Registration /\ jitter \subseteq Registration
      /\ ToSet(hosts) \subseteq devices
      /\ \A s \in Registration : ToSet(seen[s]) \subseteq devices
    BY StartupAssumption DEF StartupInv, StartupTypeOK, TypeOK, KnownHosts
<1>2. UNCHANGED told
    BY DEF Handler
<1>3. /\ at[r] \notin {"idle", "listed"} => From[r] \in devices
      /\ at[r] \in {"measured", "ready"} => average # {}
      /\ at[r] = "ready" => jitter # {}
    BY DEF StartupInv, StageInv
<1>4. CASE RegisterDevice(r)
    <2>1. device_list' \in Seq(Host)
        BY <1>1, <1>4, PushedHost DEF RegisterDevice
    <2> QED
        BY <1>1, <1>2, <1>4, <2>1, StageKeeps DEF RegisterDevice, vars
<1>5. CASE AddDevice(r)
    <2>1. devices' = devices \cup {From[r]}
        BY <1>5 DEF AddDevice
    <2> QED  BY <1>1, <1>2, <1>5, <2>1, StageKeeps DEF AddDevice, vars
<1>6. CASE ReadHosts(r)
    <2>1. /\ seen' = [seen EXCEPT ![r] = hosts]
          /\ UNCHANGED <<vars, device_list, devices, average, jitter, exited>>
        BY <1>6 DEF ReadHosts
    <2>2. \A s \in Registration : seen'[s] = IF s = r THEN hosts ELSE seen[s]
        BY <1>1, <2>1
    <2>3. /\ seen' \in [Registration -> Seq(Host)]
          /\ \A s \in Registration : ToSet(seen'[s]) \subseteq devices
        BY <1>1, <2>1, <2>2
    <2>4. Goes(r, "known", "pushing") /\ From[r] \in devices
        BY <1>3, <1>6 DEF ReadHosts, Goes
    <2> QED  BY <1>1, <1>2, <2>1, <2>3, <2>4, StageKeeps DEF vars
<1>7. CASE PushHost(r)
    <2>1. /\ Goes(r, "pushing", "pushed")
          /\ hosts' = Append(seen[r], From[r])
          /\ seen' = [seen EXCEPT ![r] = <<>>]
          /\ exited' \in BOOLEAN
          /\ UNCHANGED <<now, comms, loop, item, awaited, books, starts, sent,
                         device_list, devices, average, jitter>>
        BY <1>7 DEF PushHost
    <2>2. From[r] \in devices
        BY <1>3, <2>1 DEF Goes
    <2>3. hosts' \in Seq(Host) /\ ToSet(hosts') \subseteq devices
        BY <1>1, <2>1, <2>2, PushedHost
    <2>4. <<>> \in Seq(Host) /\ ToSet(<<>>) = {}
        BY EmptySeq DEF ToSet
    <2>5. \A s \in Registration : seen'[s] = IF s = r THEN <<>> ELSE seen[s]
        BY <1>1, <2>1
    <2>6. /\ seen' \in [Registration -> Seq(Host)]
          /\ \A s \in Registration : ToSet(seen'[s]) \subseteq devices
        BY <1>1, <2>1, <2>4, <2>5
    <2> QED  BY <1>1, <1>2, <2>1, <2>2, <2>3, <2>6, StageKeeps
<1>8. CASE TestSize(r)
    <2>1. From[r] \in devices
        BY <1>3, <1>8 DEF TestSize, Goes
    <2>2. CASE Len(device_list) = ClientCount
        BY <1>1, <1>2, <1>8, <2>1, <2>2, StageKeeps DEF TestSize, vars
    <2>3. CASE Len(device_list) # ClientCount
        BY <1>1, <1>2, <1>8, <2>1, <2>3, StageKeeps DEF TestSize, vars
    <2> QED  BY <2>2, <2>3
<1>9. CASE SetAverage(r)
    <2>1. From[r] \in devices /\ average' = {r}
        BY <1>3, <1>9 DEF SetAverage, Goes
    <2> QED  BY <1>1, <1>2, <1>9, <2>1, StageKeeps DEF SetAverage, vars
<1>10. CASE MeasureExits(r)
    <2>1. /\ exited' = TRUE
          /\ UNCHANGED <<vars, device_list, devices, at, seen, average, jitter>>
        BY <1>10 DEF MeasureExits
    <2>2. QueueInv' /\ TypeOK' /\ LowNeverLost'
        BY <1>1, <2>1, HandlerKeepsQueue DEF vars
    <2> QED
        BY <1>2, <2>1, <2>2
           DEF StartupInv, StartupTypeOK, KnownHosts, StageInv, MeasuredInv,
               vars, ToSet
<1>11. CASE SetJitter(r)
    <2>1. From[r] \in devices /\ average # {} /\ jitter' = {r}
        BY <1>3, <1>11 DEF SetJitter, Goes
    <2> QED  BY <1>1, <1>2, <1>11, <2>1, StageKeeps DEF SetJitter, vars
<1>12. CASE QueueStart(r)
    <2>1. /\ at[r] = "ready" /\ at' = [at EXCEPT ![r] = "done"]
          /\ StartExperiment /\ starts' = starts + 1
          /\ UNCHANGED <<awaited, hosts>>
          /\ UNCHANGED <<device_list, devices, seen, average, jitter, exited>>
        BY <1>12 DEF QueueStart, Goes, StartExperiment
    <2>2. QueueInv' /\ TypeOK' /\ LowNeverLost'
        BY <2>1, StartKeeps, LowKept DEF StartupInv, QueueInv
    <2>3. starts \in Nat
        BY NetworkQueueAssumption DEF StartupInv, QueueInv, TypeOK
    <2>4. MeasuredInv'
        BY <1>2, <1>3, <2>1, <2>3 DEF MeasuredInv, StartupInv
    <2>5. StartupTypeOK'
        BY <1>2, <2>1, <2>2 DEF StartupInv, StartupTypeOK
    <2>6. KnownHosts'
        BY <1>2, <2>1 DEF StartupInv, KnownHosts, ToSet
    <2>7. StageInv'
        BY <1>3, <2>1 DEF StartupInv, StartupTypeOK, StageInv
    <2> QED  BY <2>2, <2>4, <2>5, <2>6, <2>7 DEF StartupInv
<1> QED
    BY <1>4, <1>5, <1>6, <1>7, <1>8, <1>9, <1>10, <1>11, <1>12
       DEF Handler, Handle

\* The clock and the calls of the workers.
LEMMA WorkKeeps == ASSUME StartupInv, Work  PROVE StartupInv'
<1>1. QueueInv' /\ LowNeverLost'
    BY TickKeeps, ControllerKeeps, LowKept DEF Work, StartupInv
<1>2. UNCHANGED <<hosts, awaited, starts>>
    BY DEF Work, Tick, Controller, BookLow, BookHigh, Book, Blank, Halt
<1>3. UNCHANGED <<device_list, devices, at, seen, average, jitter, exited, told>>
    BY DEF Work, registry
<1> QED
    BY <1>1, <1>2, <1>3
       DEF StartupInv, StartupTypeOK, QueueInv, KnownHosts, StageInv,
           MeasuredInv, ToSet

\* The loop tells hosts that are of known devices, after a start was queued.
LEMMA SenderKeeps == ASSUME StartupInv, Sender  PROVE StartupInv'
<1>1. QueueInv' /\ LowNeverLost'
    BY LoopKeeps, LowKept DEF Sender, StartupInv
<1>2. UNCHANGED <<device_list, devices, at, seen, average, jitter, exited>>
    BY DEF Sender, registry
<1>3. /\ awaited \in Seq(Host) /\ hosts \in Seq(Host)
      /\ awaited' \in Seq(Host) /\ starts \in Nat
    BY <1>1, NetworkQueueAssumption DEF StartupInv, QueueInv, TypeOK
<1>4. UNCHANGED <<hosts, starts>>
      /\ \/ UNCHANGED awaited
         \/ awaited' = hosts
         \/ awaited # <<>> /\ awaited' = Tail(awaited)
    BY DEF Sender, Loop, Pop, PostAllocation, PostHalt, PostStart,
           HaltAnswered, StartReply, StartError
<1>5. ToSet(awaited') \subseteq devices
    BY <1>3, <1>4, PoppedHost DEF StartupInv, KnownHosts
<1>6. awaited' # <<>> => Head(awaited') \in devices /\ starts > 0
    <2> SUFFICES ASSUME awaited' # <<>>
                 PROVE  Head(awaited') \in devices /\ starts > 0
        OBVIOUS
    <2>1. Head(awaited') \in devices
        BY <1>3, <1>5, PoppedHost
    <2>2. /\ loop' \in {"wait", "ended"} /\ IsStart(item'[1])
          /\ item'[1] \in sent'
        BY <1>1 DEF QueueInv, TypeOK, LoopInv, IsStart
    <2>3. item'[1] \in Messages'
        BY <2>2 DEF Messages
    <2>4. item'[1].run < starts'
        BY <1>1, <2>2, <2>3 DEF QueueInv, MessageInv, IsStart
    <2>5. item'[1].run \in Nat
        <3>1. item'[1] \in Message
            BY <1>1, <2>2 DEF QueueInv, TypeOK
        <3> QED  BY <3>1, NetworkQueueAssumption DEF Message
    <2> QED  BY <1>3, <1>4, <2>1, <2>4, <2>5
<1>7. told' = told \cup (IF awaited' = <<>> THEN {} ELSE {Head(awaited')})
    BY DEF Sender
<1>8. told' \subseteq devices /\ (told' # {} => starts > 0)
    BY <1>6, <1>7 DEF StartupInv, KnownHosts, MeasuredInv
<1>9. KnownHosts'
    BY <1>2, <1>4, <1>5, <1>8 DEF StartupInv, KnownHosts, ToSet
<1>10. StageInv' /\ MeasuredInv'
    BY <1>2, <1>4, <1>8 DEF StartupInv, StageInv, MeasuredInv
<1>11. StartupTypeOK'
    BY <1>1, <1>2, <1>8 DEF StartupInv, StartupTypeOK, QueueInv
<1> QED  BY <1>1, <1>9, <1>10, <1>11 DEF StartupInv

\* Each step of handlers, workers, loop and devices keeps the invariant.
LEMMA StartupStep ==
    ASSUME StartupInv, [StartupNext]_startupVars  PROVE StartupInv'
<1>1. CASE UNCHANGED startupVars
    <2>1. UNCHANGED vars /\ UNCHANGED registry /\ UNCHANGED told
        BY <1>1 DEF startupVars
    <2>2. hosts \in Seq(Host)
        BY DEF StartupInv, QueueInv, TypeOK
    <2>3. QueueInv' /\ TypeOK' /\ LowNeverLost'
        BY <2>1, <2>2, HandlerKeepsQueue DEF vars
    <2> QED
        BY <2>1, <2>3
           DEF StartupInv, StartupTypeOK, KnownHosts, StageInv, MeasuredInv,
               vars, registry, ToSet
<1> QED
    BY <1>1, HandlerKeeps, WorkKeeps, SenderKeeps DEF StartupNext

\* It is an invariant of the composition.
THEOREM StartupInvariant == StartupSpec => []StartupInv
BY StartupBegins, StartupStep, PTL DEF StartupSpec

-----------------------------------------------------------------------------
(* What follows from it *)

\* Types of the registry, the handlers and the queue.
THEOREM StartupTypesOK == StartupSpec => []StartupTypeOK
<1>1. StartupInv => StartupTypeOK
    BY DEF StartupInv
<1> QED  BY <1>1, StartupInvariant, PTL

\* A device that was told has its ComputationDevice, and the link was measured.
THEOREM DevicesAreReady == StartupSpec => []ReadyWhenTold
<1>1. StartupInv => ReadyWhenTold
    BY DEF StartupInv, KnownHosts, MeasuredInv, ReadyWhenTold
<1> QED  BY <1>1, StartupInvariant, PTL

\* A start of the experiment, too, leaves low complexity allocations alone.
THEOREM StartupLosesNoLow == StartupSpec => []LowNeverLost
<1>1. StartupInv => LowNeverLost
    BY DEF StartupInv
<1> QED  BY <1>1, StartupInvariant, PTL

\* What the steps of the composition are to the queue.
LEMMA StartupSteps ==
    ASSUME StartupInv, [StartupNext]_startupVars
    PROVE  \/ Tick \/ Controller \/ StartExperiment \/ Loop
           \/ UNCHANGED <<now, comms, item, sent>>
<1>1. CASE UNCHANGED startupVars
    BY <1>1 DEF startupVars, vars
<1>2. CASE \E r \in Registration : Handler(r)
    BY <1>2
       DEF Handler, Handle, RegisterDevice, AddDevice, ReadHosts, PushHost,
           TestSize, SetAverage, MeasureExits, SetJitter, QueueStart, vars
<1>3. CASE Work \/ Sender
    BY <1>3 DEF Work, Sender
<1> QED  BY <1>1, <1>2, <1>3 DEF StartupNext

\* After the halt of a version its allocation is not posted, however the
\* start of the experiment comes between.
THEOREM StartupKeepsHaltLast == StartupSpec => HaltIsLast
<1>1. ASSUME StartupInv, [StartupNext]_startupVars
      PROVE  LastStep
    <2>1. CASE UNCHANGED sent
        BY <2>1 DEF LastStep
    <2>2. CASE Tick \/ Controller \/ StartExperiment \/ Loop
        BY <1>1, <2>2, HaltKeptLast DEF StartupInv
    <2> QED  BY <1>1, <2>1, <2>2, StartupSteps
<1> QED
    BY <1>1, StartupInvariant, PTL DEF StartupSpec, HaltIsLast, LastStep

\* The queue and its loop implement the outbox, the start included.
THEOREM StartupImplementsOutbox == StartupSpec => OutboxSpec
<1>1. StartupInit => OutboxImplemented!Init
    BY OutboxInit DEF StartupInit
<1>2. ASSUME StartupInv, [StartupNext]_startupVars
      PROVE  [OutboxImplemented!Next]_(OutboxImplemented!vars)
    <2>1. CASE UNCHANGED <<now, comms, item, sent>>
        <3>1. ToSet(item)' \cup sent' = ToSet(item) \cup sent
            BY <2>1 DEF ToSet
        <3> QED  BY <2>1, <3>1, OutboxStutter
    <2>2. CASE Tick \/ Controller \/ StartExperiment \/ Loop
        BY <1>2, <2>2, OutboxTick, OutboxAdding, OutboxLoop DEF StartupInv
    <2> QED  BY <1>2, <2>1, <2>2, StartupSteps
<1> QED
    BY <1>1, <1>2, StartupInvariant, PTL
       DEF StartupSpec, OutboxSpec, OutboxImplemented!Spec
=============================================================================
