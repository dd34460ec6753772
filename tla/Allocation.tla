----------------------------- MODULE Allocation -----------------------------
(***************************************************************************)
(* What the workers of the controller compute: they reserve cores on the   *)
(* devices and time on the shared link for each DNN, preempt and release.  *)
(*                                                                         *)
(* Workers start as TaskPool promises. state_update_call, halt_call and    *)
(* high_comp_allocation_call run alone and hold offloaded_lock and         *)
(* network_lock, so each is one step; low_comp_allocation_call runs next   *)
(* to others of its kind and drops network_lock between its steps.         *)
(*                                                                         *)
(* Times are absolute and in units of a few seconds, not milliseconds; the *)
(* + 1 the code adds to keep phases apart stays.                           *)
(***************************************************************************)
EXTENDS LinkSlot, RequestOrder, FiniteSets, SequencesExt

CONSTANTS
    Host,           \* the registered devices; std::map keeps them in order
    Dnn,            \* the ids of DNN tasks
    Offers,         \* the requests devices can make
    Cores,          \* PER_DEVICE_CORES
    LowTime,        \* LOW_COMPLEXITY_PROCESSING_TIME
    FtpLowCore, FtpLowTime,     \* the slow configuration of a high DNN
    FtpHighCore, FtpHighTime,   \* the fast one
    Duration,       \* how long each kind of transfer takes on the link
    MaxNow,         \* bound: the clock stops there
    NoHost          \* the allocated host of a DNN that has none

Uses == {"upload", "transfer", "update"}

\* network_link: LinkAct, named by its DNN, what it is for and the run of
\* the DNN it belongs to (ids are taken to be unique).
Link == [dnn : Dnn, use : Uses, run : Nat, start : Nat, fin : Nat]

\* LowCompResult and HighCompResult.
Result == [low : BOOLEAN, src : Host \cup {NoHost}, host : Host \cup {NoHost},
           start : Nat, fin : Nat, cores : Nat, deadline : Nat, run : Nat]

Item == [type : Type, dnns : Seq(Dnn), host : Host \cup {NoHost},
         deadline : Nat, start : Nat, fin : Nat]

ASSUME AllocationAssumption ==
    /\ Host \subseteq Nat /\ IsFiniteSet(Host) /\ NoHost \notin Host
    /\ \A x \in Offers :
        /\ x \in Item /\ x.host \in Host
        /\ x.type \in {"low_complexity", "high_complexity"}
        /\ Low(x) => Len(x.dnns) = 1
        /\ \A i, j \in DOMAIN x.dnns : i < j => x.dnns[i] # x.dnns[j]
    /\ {Cores, FtpLowCore, FtpHighCore} \subseteq Nat
    /\ {LowTime, FtpLowTime, FtpHighTime} \subseteq Nat
    /\ MaxNow \in Nat \ {0}
    /\ \A k \in {"low_upload", "low_update",
                 "high_upload", "transfer", "high_update"} :
            Duration[k] \in Nat \ {0}

VARIABLES
    now,            \* the system clock
    waiting,        \* the work queue
    active,         \* the low items whose workers run
    at,             \* how far the low worker of a DNN is
    plan,           \* the links that worker has found, not yet booked
    DNNS,           \* of each device: the DNNs placed on it, in order
    result,         \* the last BaseCompResult of each DNN
    off_low, off_high, off_total,   \* the ids the maps hold
    network_link,   \* the ledger of the link
    told,           \* the DNNs a device holds and has not reported on
    outcome,        \* what the log says of each DNN
    crashed         \* which call has dereferenced a null pointer, if any

resources == <<DNNS, result, off_low, off_high, off_total, network_link>>
vars == <<now, waiting, active, at, plan, resources, told, outcome, crashed>>

Blank == [low |-> FALSE, src |-> NoHost, host |-> NoHost, start |-> 0,
          fin |-> 0, cores |-> 0, deadline |-> 0, run |-> 0]

Init ==
    /\ now = 1
    /\ waiting = {}
    /\ active = {}
    /\ at = [d \in Dnn |-> "idle"]
    /\ plan = [d \in Dnn |-> <<>>]
    /\ DNNS = [h \in Host |-> <<>>]
    /\ result = [d \in Dnn |-> Blank]
    /\ off_low = {} /\ off_high = {} /\ off_total = {}
    /\ network_link = <<>>
    /\ told = {}
    /\ outcome = [d \in Dnn |-> "none"]
    /\ crashed = "no"

\* WorkQueue implements this pool; which items were served is not kept here.
Pool == INSTANCE TaskPool WITH
    Task <- Item,
    Shareable <- {x \in Item : Low(x)},
    served <- {}

-----------------------------------------------------------------------------
(* Cores and links *)

\* max(start, start') - min(fin, fin') <= 0: touching counts as overlap.
Overlap(start, fin, r) == start <= r.fin /\ r.start <= fin

\* The cores a DNN with result r holds at some time from start to fin.
Held(r, start, fin) == IF Overlap(start, fin, r) THEN r.cores ELSE 0

\* The cores that the DNNs of dnns, but for those of ignored, hold then.
CoreUsage(dnns, res, start, fin, ignored) ==
    LET sum[i \in 0 .. Len(dnns)] ==
            IF i = 0 THEN 0
            ELSE sum[i - 1] + IF dnns[i] \in ignored THEN 0
                              ELSE Held(res[dnns[i]], start, fin)
    IN  sum[Len(dnns)]

\* isValidNode, with the one core of a low complexity DNN.
IsValidNode(start, fin, h) ==
    CoreUsage(DNNS[h], result, start, fin, {}) + 1 <= Cores

Transfer(d, use, run, slot) ==
    [dnn |-> d, use |-> use, run |-> run,
     start |-> slot.start, fin |-> slot.fin]

\* The elements of s that are in S, in their order: what a loop over s leaves
\* that erases or skips the others.
Keep(s, S) ==
    LET kept[i \in 0 .. Len(s)] ==
            IF i = 0 THEN <<>>
            ELSE IF s[i] \in S THEN Append(kept[i - 1], s[i])
            ELSE kept[i - 1]
    IN  kept[Len(s)]

\* The ledger without the links of the given uses of this run of d.
Prune(link, d, run, uses) ==
    Keep(link, {l \in ToSet(link) :
                    ~(l.dnn = d /\ l.run = run /\ l.use \in uses)})

Without(dnns, d) == Keep(dnns, Dnn \ {d})

\* std::sort by finish time: each element goes behind those that do not end
\* later.
Inserted(s, e) ==
    LET n == Cardinality({i \in DOMAIN s : s[i].fin <= e.fin})
    IN  SubSeq(s, 1, n) \o <<e>> \o SubSeq(s, n + 1, Len(s))

SortedByFin(s) ==
    LET sorted[i \in 0 .. Len(s)] ==
            IF i = 0 THEN <<>> ELSE Inserted(sorted[i - 1], s[i])
    IN  sorted[Len(s)]

-----------------------------------------------------------------------------
(* The outside: REST handlers, devices and the clock *)

Tick ==
    /\ now < MaxNow
    /\ now' = now + 1
    /\ UNCHANGED <<waiting, active, at, plan, resources, told, outcome,
                   crashed>>

\* A device requests the allocation of DNNs it has not asked for before.
Receive(x) ==
    /\ \A d \in ToSet(x.dnns) : outcome[d] = "none"
    /\ waiting' = waiting \cup {x}
    /\ outcome' = [d \in Dnn |->
                    IF d \in ToSet(x.dnns) THEN "asked" ELSE outcome[d]]
    /\ UNCHANGED <<now, active, at, plan, resources, told, crashed>>

UpdateOf(d) == [type |-> "state_update", dnns |-> <<d>>,
                host |-> NoHost, deadline |-> 0, start |-> 0, fin |-> 0]

\* A device reports that a DNN finished or missed its deadline.
Report(d) ==
    /\ d \in told
    /\ told' = told \ {d}
    /\ waiting' = waiting \cup {UpdateOf(d)}
    /\ UNCHANGED <<now, active, at, plan, resources, outcome, crashed>>

\* The halt reaches the device, which stops the DNN and will not report it.
DeviceHalts(d) ==
    /\ d \in told \ off_total
    /\ told' = told \ {d}
    /\ UNCHANGED <<now, waiting, active, at, plan, resources, outcome,
                   crashed>>

-----------------------------------------------------------------------------
(* low_comp_allocation_call *)

\* Fault: whatever comes next joins the running low workers.
StartAny(x) ==
    /\ Pool!MayStart(x) \/ active # {}
    /\ waiting' = waiting \ {x}
    /\ active' = active \cup {x}
    /\ at' = [at EXCEPT ![Head(x.dnns)] = "called"]
    /\ UNCHANGED <<now, plan, resources, told, outcome, crashed>>

\* main_loop starts the worker, next to other low ones if any run.
LowStart(x) ==
    /\ Low(x)
    /\ Pool!MayStart(x)
    /\ waiting' = waiting \ {x}
    /\ active' = active \cup {x}
    /\ at' = [at EXCEPT ![Head(x.dnns)] = "called"]
    /\ UNCHANGED <<now, plan, resources, told, outcome, crashed>>

\* The worker copies the ledger, reads the clock and finds both its links in
\* the copy: the upload in the order of the ledger, the state update after
\* the upload was pushed and the copy sorted.
LowPlan(x) ==
    LET d == Head(x.dnns)
        upload == Transfer(d, "upload", result[d].run,
                    FindLinkSlot(now, Duration["low_upload"], network_link))
        copy == SortedByFin(Append(network_link, upload))
        update == Transfer(d, "update", result[d].run,
                    FindLinkSlot(upload.fin + LowTime + 1,
                                 Duration["low_update"], copy))
    IN  /\ x \in active
        /\ at[d] = "called"
        /\ plan' = [plan EXCEPT ![d] = <<upload, update>>]
        /\ at' = [at EXCEPT ![d] = "planned"]
        /\ UNCHANGED <<now, waiting, active, resources, told, outcome,
                       crashed>>

\* allocate_task: the DNN runs on its device right after the upload.
Window(x) == [start |-> plan[Head(x.dnns)][1].fin,
              fin |-> plan[Head(x.dnns)][1].fin + LowTime]

HasRoom(x) == IsValidNode(Window(x).start, Window(x).fin, x.host)

LowPlace(x) ==
    /\ x \in active
    /\ at[Head(x.dnns)] = "planned"
    /\ HasRoom(x)
    /\ at' = [at EXCEPT ![Head(x.dnns)] = "placed"]
    /\ UNCHANGED <<now, waiting, active, plan, resources, told, outcome,
                   crashed>>

\* The LowCompResult: one core of the device that asked.
LowResult(x, run) ==
    [low |-> TRUE, src |-> x.host, host |-> x.host, cores |-> 1,
     start |-> Window(x).start, fin |-> Window(x).fin,
     deadline |-> x.deadline, run |-> run]

\* The worker books its cores and links and sends the allocation. The maps
\* change under offloaded_lock just before the rest does under network_lock;
\* nobody who runs next to a low worker reads them.
LowCommit(x) ==
    LET d == Head(x.dnns)
    IN  /\ x \in active
        /\ at[d] = "placed"
        /\ result' = [result EXCEPT ![d] = LowResult(x, @.run)]
        /\ off_low' = off_low \cup {d}
        /\ off_total' = off_total \cup {d}
        /\ network_link' = network_link \o plan[d]
        /\ DNNS' = [DNNS EXCEPT ![x.host] = Append(@, d)]
        /\ told' = told \cup {d}
        /\ at' = [at EXCEPT ![d] = "idle"]
        /\ plan' = [plan EXCEPT ![d] = <<>>]
        /\ active' = active \ {x}
        /\ UNCHANGED <<now, waiting, off_high, outcome, crashed>>

HaltFor(x) == [type |-> "halt_req", dnns |-> x.dnns, host |-> x.host,
               deadline |-> 0, start |-> Window(x).start,
               fin |-> Window(x).fin]

\* Fault: the request is dropped with the halt it asks for.
AsksToHalt(x) == {HaltFor(x)}

\* What a worker that finds no room queues: the halt, and the request again.
Asks(x) == {HaltFor(x), x}

LowReject(x) ==
    LET d == Head(x.dnns)
    IN  /\ x \in active
        /\ at[d] = "planned"
        /\ ~HasRoom(x)
        /\ waiting' = waiting \cup Asks(x)
        /\ at' = [at EXCEPT ![d] = "idle"]
        /\ plan' = [plan EXCEPT ![d] = <<>>]
        /\ active' = active \ {x}
        /\ UNCHANGED <<now, resources, told, outcome, crashed>>

-----------------------------------------------------------------------------
(* high_comp_allocation_call: its local state v goes through rounds, one for
   each time from which the allocation is tried. *)

\* What ends before the deadline and after the current time, and that time.
FinishTimes(x) ==
    LET soon == SetToSeq({d \in off_total : /\ result[d].fin < x.deadline
                                            /\ result[d].fin > now})
        times == [i \in DOMAIN soon |-> [fin |-> result[soon[i]].fin]]
    IN  SortedByFin(Append(times, [fin |-> now]))

Usage(v, h, start, fin, d) == CoreUsage(v.DNNS[h], v.result, start, fin, {d})

\* findNode: the source if it has room, else of the other devices with room
\* the one this round gave the fewest DNNs.
FindNode(v, upload, transfer, src, d) ==
    LET Room(h, link) ==
            Usage(v, h, link.fin, link.fin + 1 + FtpLowTime, d) + FtpLowCore
                <= Cores
        remote == {h \in Host \ {src} : Room(h, transfer)}
    IN  IF Room(src, upload) THEN src
        ELSE IF remote = {} THEN NoHost
        ELSE CHOOSE h \in remote : \A g \in remote :
                \/ v.taken[h] < v.taken[g]
                \/ v.taken[h] = v.taken[g] /\ h <= g

\* A new HighCompResult, in the slow configuration.
HighResult(x, host, start, run) ==
    [low |-> FALSE, src |-> x.host, host |-> host, cores |-> FtpLowCore,
     start |-> start, fin |-> start + FtpLowTime,
     deadline |-> x.deadline, run |-> run]

\* A DNN gets the slow configuration on some device, if one has room. Its
\* upload and its transfer are searched before either is on the ledger.
Try(v, d, x, base) ==
    LET upload == Transfer(d, "upload", v.result[d].run,
                    FindLinkSlot(base, Duration["high_upload"], v.link))
        transfer == Transfer(d, "transfer", v.result[d].run,
                    FindLinkSlot(upload.fin + 1, Duration["transfer"], v.link))
        host == FindNode(v, upload, transfer, x.host, d)
        start == 1 + IF host = x.host THEN upload.fin ELSE transfer.fin
    IN  IF host = NoHost THEN v
        ELSE [v EXCEPT
                !.link = @ \o IF host = x.host THEN <<upload>>
                              ELSE <<transfer, upload>>,
                !.DNNS[host] = Append(@, d),
                !.result[d] = HighResult(x, host, start, @.run),
                !.taken[host] = @ + 1,
                !.tried = Append(@, d)]

\* Fault: a DNN is sped up whenever its device has enough cores at all.
AlwaysSpeedsUp(v, d) ==
    IF FtpHighCore <= Cores
    THEN [v EXCEPT !.result[d].cores = FtpHighCore,
                   !.result[d].fin = v.result[d].start + FtpHighTime]
    ELSE v

\* The fast configuration, if its device has the cores for it.
SpeedUp(v, d) ==
    LET r == v.result[d]
        fin == r.start + FtpHighTime
    IN  IF Usage(v, r.host, r.start, fin, d) + FtpHighCore <= Cores
        THEN [v EXCEPT !.result[d].cores = FtpHighCore, !.result[d].fin = fin]
        ELSE v

\* Fault: a DNN that misses its deadline stays on its device.
WithdrawLinks(v, d) ==
    LET r == v.result[d]
    IN  [v EXCEPT !.link = Prune(@, d, r.run,
                    IF r.host # r.src THEN {"upload", "transfer"}
                    ELSE {"upload"})]

\* Fault: a DNN that misses its deadline keeps its transfer booked.
TriedUpload(r) == {"upload"}

\* The links booked for a DNN while it is tried.
TriedLinks(r) == IF r.host # r.src THEN {"upload", "transfer"} ELSE {"upload"}

\* The DNN would miss its deadline: its links and its device are free again.
Withdraw(v, d) ==
    LET r == v.result[d]
    IN  [v EXCEPT !.link = Prune(@, d, r.run, TriedLinks(r)),
                  !.DNNS[r.host] = Without(@, d)]

\* The DNN is allocated: the link for its state update is booked too.
Confirm(v, d) ==
    LET update == Transfer(d, "update", v.result[d].run,
                    FindLinkSlot(v.result[d].fin + 1, Duration["high_update"],
                                 v.link))
    IN  [v EXCEPT !.link = Append(@, update),
                  !.allocated = @ \cup {d}]

\* Fault: nobody looks at the deadline.
SettleAnyway(v, d, x) == Confirm(SpeedUp(v, d), d)

Settle(v, d, x) ==
    LET w == SpeedUp(v, d)
    IN  IF w.result[d].fin > x.deadline THEN Withdraw(w, d)
        ELSE Confirm(w, d)

\* generateAllocationMap: how many DNNs each device got in a round.
NoneTaken == [h \in Host |-> 0]

\* is_allocated sorts out the DNNs that have their place.
Todo(v, x) == Keep(x.dnns, Dnn \ v.allocated)

\* The first loop of a round, over the DNNs not allocated so far.
TryAll(v, x, base) ==
    LET todo == Todo(v, x)
        after[i \in 0 .. Len(todo)] ==
            IF i = 0 THEN [v EXCEPT !.taken = NoneTaken, !.tried = <<>>]
            ELSE Try(after[i - 1], todo[i], x, base)
    IN  after[Len(todo)]

\* The second one, over those that got a place in the first.
SettleAll(v, x) ==
    LET after[i \in 0 .. Len(v.tried)] ==
            IF i = 0 THEN v ELSE Settle(after[i - 1], v.tried[i], x)
    IN  after[Len(v.tried)]

Round(v, x, base) == SettleAll(TryAll(v, x, base), x)

\* What the call starts from: the books as they are.
Unchanged ==
    [link |-> network_link, DNNS |-> DNNS, result |-> result,
     taken |-> NoneTaken, tried |-> <<>>, allocated |-> {}]

HighAllocation(x) ==
    LET times == FinishTimes(x)
        after[i \in 0 .. Len(times)] ==
            IF i = 0 THEN Unchanged
            ELSE Round(after[i - 1], x, times[i].fin)
    IN  after[Len(times)]

\* Fault: the DNNs of the last round are sent whether they are kept or not.
SentWhenTried(v) == v.allocated \cup ToSet(v.tried)

\* The DNNs whose devices are told, by way of the network queue.
Sent(v) == v.allocated

HighAllocate(x) ==
    LET v == HighAllocation(x)
    IN  /\ x.type = "high_complexity"
        /\ Pool!MayStart(x)
        /\ waiting' = waiting \ {x}
        /\ network_link' = v.link
        /\ DNNS' = v.DNNS
        /\ result' = v.result
        /\ off_high' = off_high \cup v.allocated
        /\ off_total' = off_total \cup v.allocated
        /\ told' = told \cup Sent(v)
        /\ outcome' = [d \in Dnn |->
                        IF d \in ToSet(x.dnns) \ v.allocated THEN "failed"
                        ELSE outcome[d]]
        /\ UNCHANGED <<now, active, at, plan, off_low, crashed>>

-----------------------------------------------------------------------------
(* halt_call and state_update_call *)

Candidates(x) ==
    Keep(DNNS[x.host], {d \in Dnn : Overlap(x.start, x.fin, result[d])})

\* Of the candidates the first of those with the latest deadline.
DnnToPrune(x) ==
    LET c == Candidates(x)
        i == CHOOSE k \in DOMAIN c : \A j \in DOMAIN c :
                \/ result[c[j]].deadline < result[c[k]].deadline
                \/ result[c[j]].deadline = result[c[k]].deadline /\ k <= j
    IN  c[i]

\* A DNN to make room with that halt_call gets through.
Prunable(x) ==
    /\ Candidates(x) # <<>>
    /\ result[DnnToPrune(x)].src # result[DnnToPrune(x)].host

\* Nothing overlaps the window any more, or the transfer link of a DNN that
\* was allocated at its source is asked for: a null pointer (for a low DNN
\* there is not even a field). What is half done then is not looked at.
HaltCrashes(x) ==
    /\ x.type = "halt_req"
    /\ Pool!MayStart(x)
    /\ ~Prunable(x)
    /\ crashed' = "halt"
    /\ UNCHANGED <<now, waiting, active, at, plan, resources, told, outcome>>

\* Fault: the DNN that made room is not put back into the queue.
PutsNothingBack(d) == {}

\* The DNN that made room is requested again, from its source.
PutBack(d) ==
    {[type |-> "high_complexity", dnns |-> <<d>>, host |-> result[d].src,
      deadline |-> result[d].deadline, start |-> 0, fin |-> 0]}

\* The DNN gives up its device, its upload and its state update, and is put
\* back into the queue. Its transfer stays on the ledger: the test for it is
\* the wrong way round.
Halt(x) ==
    LET d == DnnToPrune(x)
        r == result[d]
    IN  /\ x.type = "halt_req"
        /\ Pool!MayStart(x)
        /\ Prunable(x)
        /\ waiting' = (waiting \ {x}) \cup PutBack(d)
        /\ DNNS' = [DNNS EXCEPT ![r.host] = Without(@, d)]
        /\ network_link' = Prune(network_link, d, r.run, {"upload", "update"})
        /\ result' = [result EXCEPT ![d].host = NoHost, ![d].cores = 0,
                                    ![d].start = 0, ![d].fin = 0,
                                    ![d].run = @ + 1]
        /\ off_total' = off_total \ {d}
        /\ off_high' = off_high \ {d}
        /\ UNCHANGED <<now, active, at, plan, off_low, told, outcome, crashed>>

\* off_total[id] of an unknown id is a null pointer.
StateUpdateCrashes(x) ==
    /\ x.type = "state_update"
    /\ Pool!MayStart(x)
    /\ Head(x.dnns) \notin off_total
    /\ crashed' = "update"
    /\ UNCHANGED <<now, waiting, active, at, plan, resources, told, outcome>>

\* The DNN leaves its device, the link and the maps.
StateUpdate(x) ==
    LET d == Head(x.dnns)
        r == result[d]
        transfer == IF ~r.low /\ r.src # r.host THEN {"transfer"} ELSE {}
    IN  /\ x.type = "state_update"
        /\ Pool!MayStart(x)
        /\ d \in off_total
        /\ waiting' = waiting \ {x}
        /\ DNNS' = [DNNS EXCEPT ![r.host] = Without(@, d)]
        /\ network_link' =
            Prune(network_link, d, r.run, {"upload", "update"} \cup transfer)
        /\ off_total' = off_total \ {d}
        /\ off_high' = IF r.low THEN off_high ELSE off_high \ {d}
        /\ off_low' = IF r.low THEN off_low \ {d} ELSE off_low
        /\ outcome' = [outcome EXCEPT ![d] = "finished"]
        /\ UNCHANGED <<now, active, at, plan, result, told, crashed>>

-----------------------------------------------------------------------------

Environment ==
    \/ Tick
    \/ \E x \in Offers : Receive(x)
    \/ \E d \in Dnn : Report(d) \/ DeviceHalts(d)

LowWorker(x) == LowPlan(x) \/ LowPlace(x) \/ LowCommit(x) \/ LowReject(x)

Serve(x) ==
    \/ LowStart(x) \/ HighAllocate(x)
    \/ Halt(x) \/ HaltCrashes(x)
    \/ StateUpdate(x) \/ StateUpdateCrashes(x)

Next ==
    /\ crashed = "no"
    /\ \/ Environment
       \/ \E x \in active : LowWorker(x)
       \/ \E x \in waiting : Serve(x)

Spec == Init /\ [][Next]_vars

\* When main_loop, and when a low worker, has a step to take: no call refuses
\* an item it may start, so these are their enabling conditions. Theirs are
\* the steps that take an item off the queue, and those that change at[d] of
\* an active d.
Servable == crashed = "no" /\ \E x \in waiting : Pool!MayStart(x)
Working == crashed = "no" /\ active # {}
Served == \E x \in waiting : x \notin waiting'
Worked == \E x \in active : at'[Head(x.dnns)] # at[Head(x.dnns)]

\* Weak fairness of main_loop and the workers, as WorkQueue!Served gives it.
FairSpec ==
    /\ Spec
    /\ []<>~Working \/ []<><<Worked>>_vars
    /\ []<>~Servable \/ []<><<Served>>_vars

-----------------------------------------------------------------------------
(* Properties *)

\* Types; the ledger and the windows only ever hold real times.
TypeOK ==
    /\ now \in 1 .. MaxNow
    /\ \A x \in waiting \cup active : x \in Item
    /\ \A x \in active : Low(x)
    /\ at \in [Dnn -> {"idle", "called", "planned", "placed"}]
    /\ plan \in [Dnn -> Seq(Link)]
    /\ DNNS \in [Host -> Seq(Dnn)]
    /\ result \in [Dnn -> Result]
    /\ off_low \cup off_high \cup off_total \cup told \subseteq Dnn
    /\ network_link \in Seq(Link)
    /\ outcome \in [Dnn -> {"none", "asked", "finished", "failed"}]
    /\ crashed \in {"no", "halt", "update"}

\* The three maps and the devices agree, although four calls update them one
\* by one: a DNN is in off_total exactly if it is in the map of its kind and
\* on one device, its allocated host, once.
BooksAgree ==
    /\ off_total = off_low \cup off_high
    /\ \A d \in Dnn, h \in Host :
        Cardinality({i \in DOMAIN DNNS[h] : DNNS[h][i] = d}) =
            IF d \in off_total /\ result[d].host = h THEN 1 ELSE 0
    /\ \A d \in off_total : /\ result[d].host \in Host
                            /\ d \in off_low <=> result[d].low

Remote(d) == ~result[d].low /\ result[d].src # result[d].host

LinksFor(d, use) ==
    {i \in DOMAIN network_link :
        /\ network_link[i].dnn = d
        /\ network_link[i].use = use
        /\ network_link[i].run = result[d].run}

\* The ledger holds exactly the links of the allocated DNNs, whatever was
\* tried, withdrawn, preempted or finished; all that ever leaks is the
\* transfer of a DNN that was halted.
LinksBooked ==
    /\ \A d \in Dnn, use \in Uses :
        Cardinality(LinksFor(d, use)) =
            IF d \in off_total /\ (use = "transfer" => Remote(d)) THEN 1 ELSE 0
    /\ \A i \in DOMAIN network_link :
        LET l == network_link[i]
        IN  l.run # result[l.dnn].run => /\ l.use = "transfer"
                                         /\ l.run < result[l.dnn].run

\* A DNN never computes before its data is there, nor reports before it is
\* done: upload, transfer, window and update follow each other, whichever
\* of the two transfers and configurations the allocation settled for.
PhasesInOrder ==
    \A d \in off_total :
        /\ \A i \in LinksFor(d, "upload") :
            /\ network_link[i].fin <= result[d].start
            /\ \A j \in LinksFor(d, "transfer") :
                network_link[i].fin < network_link[j].start
        /\ \A j \in LinksFor(d, "transfer") :
            network_link[j].fin < result[d].start
        /\ \A k \in LinksFor(d, "update") :
            result[d].fin < network_link[k].start

\* No high complexity DNN stays allocated past its deadline, on whichever
\* device, in whichever round and configuration it got its place.
HighMeetsDeadline ==
    \A d \in off_high : result[d].fin <= result[d].deadline

\* Nor any low complexity DNN.
LowMeetsDeadline ==
    \A d \in off_low : result[d].fin <= result[d].deadline

\* The devices with more cores promised for some time than they have. (A DNN
\* that starts when another ends shares that instant.)
Overbooked ==
    {h \in Host : \E d \in ToSet(DNNS[h]) :
        CoreUsage(DNNS[h], result, result[d].start, result[d].start, {})
            > Cores}

\* The cores of a device are never promised twice.
CapacityHeld == Overbooked = {}

\* Only low workers that ran next to each other overbook a device: no high
\* allocation, in any round and configuration, halt or update ever does.
OnlyLowsOverbook ==
    [][Overbooked' \subseteq Overbooked \/ off_low' # off_low]_vars

\* A DNN asked for is in exactly one place: waiting in the queue, with a low
\* worker, or allocated. Preemption, retries and rounds lose or double none.
Accounted ==
    \A d \in Dnn :
        Cardinality(
            {x \in waiting : /\ x.type \in {"low_complexity",
                                            "high_complexity"}
                             /\ d \in ToSet(x.dnns)})
        + Cardinality({x \in active : d \in ToSet(x.dnns)})
        + Cardinality({d} \cap off_total)
            = IF outcome[d] = "asked" THEN 1 ELSE 0

\* A state update finds its DNN, unless the DNN was halted before: nothing
\* else takes a DNN off the maps that a device may still report.
OnlyHaltsOrphan ==
    \A x \in waiting : x.type = "state_update" =>
        \/ Head(x.dnns) \in off_total
        \/ result[Head(x.dnns)].run > 0

\* A halt ends with its DNN back in the queue, not with the process.
HaltReallocates == crashed # "halt"

\* A search for an upload, from any of the times high_comp_allocation_call
\* may try next, that ends at the last link of the ledger puts the upload
\* after every transfer booked.
EndOfListIsLargest ==
    \A base \in {now} \cup {result[d].fin : d \in off_total} :
        LET dur == Duration["high_upload"]
        IN  /\ network_link # <<>>
            /\ network_link[1].start <= base + dur
            /\ FirstPlace(base, dur, network_link) = Len(network_link)
            => \A i \in DOMAIN network_link :
                    network_link[i].fin
                        <= FindLinkSlot(base, dur, network_link).start

\* The low complexity requests that wait for their place.
Unplaced ==
    {x \in Offers : /\ Low(x)
                    /\ outcome[Head(x.dnns)] = "asked"
                    /\ Head(x.dnns) \notin off_low}

\* Every low complexity request is placed in the end, however often it and
\* the others have to preempt, unless the process crashes.
LowServed == Unplaced # {} ~> Unplaced = {} \/ crashed # "no"
=============================================================================
