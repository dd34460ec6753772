# Verification of the Deadline_Prempt_Controller

The controller receives requests of edge devices to run deep neural networks
(DNNs), decides on which device and when each runs, reserves the cores of the
devices and the time on the one shared network link for it, and preempts high
complexity DNNs when a low complexity one needs a core. This directory holds
TLA+ models of that controller, their TLC runs and TLAPS proofs.

All definitions are translated from the C++ code; `PROJECT.json` names the lines
for each (`map`). `W:n` below is
`src/Services/WorkQueueManager/WorkQueueManager.cpp:n`.

## 1. The system

| component | state it keeps | operations | threads |
|---|---|---|---|
| REST handlers (`MasterController`) | device list | `/high_offload_request`, `/low_offload_request`, `/state_update`, `/deadline_violation`, `/register_device`, `/log_result` | cpprest pool, many at once |
| Work queue (`WorkQueueManager::add_task`, `main_loop`) | `work_queue` (vector sorted by type, then deadline), `work_queue_lock`, `thread_counter` (atomic), `current_task` | add, pop and start a worker, join low items to a low batch | callers of `add_task`, one `main_loop` |
| Low allocation (`low_comp_allocation_call`) | books of all workers: `off_low`, `off_high`, `off_total`, `DNNS` per device, `network_link` | find two link slots, check cores, book or queue a halt and a retry | several at once |
| High allocation (`high_comp_allocation_call`) | the same | rounds over finish times; slow configuration, then fast; book or withdraw | alone |
| Preemption (`halt_call`) | the same | choose a DNN, take it apart, tell its device, queue it again | alone |
| State updates (`state_update_call`) | the same | remove a finished or late DNN | alone |
| `findLinkSlot`, `isValidNode`, `findNode`, `calculateDeviceCoreUsage` | none | pure searches | in the workers |
| Outbound queue (`NetworkQueueManager`) | `comms` (sorted by time), `networkMutex`, `hosts` | `addTask`; the loop sends what is due | callers of `addTask`, one loop |
| Registration (`RegisterDevices`, `LockList`) | list of devices | push, copy | handlers |
| `LogManager` | `log_list`, its lock | `add_log`, `write_log` | all |
| Data models, utilities, constants | fields, static id counters | getters, setters, JSON | all |

How they interact: a handler turns a request into a work item and calls
`add_task`. `main_loop` starts a detached worker for the most urgent item and
polls `thread_counter`; while it polls, low items join a running low batch.
Workers change the books under `network_lock` and `offloaded_lock`, put new work
items into the queue (halt, retry, reallocation) and messages into the outbound
queue, log, and decrement the counter. The outbound loop posts the messages to the
devices, which answer with state updates.

What is hard, and what has to hold:

- *The counter and the batches* (interleaving): the counter must match the live
  workers, and only low workers may run together, because the others take the two
  locks in opposite orders.
- *Halt and retry* (ordering): they are two items in the same queue and the halt must
  be carried out first.
- *The books* (partial failure, atomicity): maps, device lists and ledger are updated one by
  one in several calls, withdrawn by some, rebuilt by others; they must agree, no
  transfer may stay booked for a DNN that is gone, no core may be promised twice, no
  DNN may be lost or doubled.
- *The search on an unsorted ledger* (stale order): the loop of `findLinkSlot`
  relies on an order that nobody establishes.
- *Deadlines*: a high DNN that misses its deadline must not stay allocated.
- *Late, lost and swept messages*: a state update can arrive after the DNN was
  halted; an allocation, which travels by way of the source of its DNN, can be due after its halt, be
  overtaken by it on the way to the device, be lost, or be swept from the outbound queue by the halt of another DNN. What the devices compute and what the
  controller has booked should agree when nothing is under way.
- *The outbound loop* (timeouts): it waits for replies, and an error can end it.
- *Start-up* (interleaving): handlers register devices side by side, mostly without locks, and whoever
  finds enough of them starts the experiment.
- *Locks* (deadlock, data races): six mutexes, taken in different orders, one of them never
  given up by `write_log`, and data that is touched without any, static counters of ids among it.

`PROJECT.json` lists each hazard at its line (`hazards`), with the properties
that would catch it, or the reason why none does yet.

## 2. The modules

| module | models | extends / instances |
|---|---|---|
| `RequestOrder` | request types and the comparator of the work queue | |
| `TaskPool` | abstract: tasks wait, the most urgent starts, alone or among sharers | |
| `WorkQueue` | handlers, `add_task`, the lock, `main_loop`, the life of workers | `RequestOrder`; implements `TaskPool` |
| `WorkQueueProofs` | its theorems | `WorkQueue`, `TLAPS` |
| `LinkSlot` | `findLinkSlot` as operators, and what a caller hopes for | |
| `LinkSearch` | a search on any ledger | `LinkSlot` |
| `LinkSlotProofs` | lemmas on the place and the slot it returns | `LinkSlot`, `TLAPS` |
| `LinkSearchProofs` | the theorems of the search | `LinkSearch`, `LinkSlotProofs` |
| `Allocation` | what the four workers do to the books | `LinkSlot`, `RequestOrder`; schedules its workers with `TaskPool!MayStart` |
| `AllocationProofs` | its theorems | `Allocation`, `LinkSlotProofs` |
| `Outbox` | abstract: timed messages, swept by a halt | |
| `NetworkQueue` | `addTask`, the outbound loop, the replies, and what the workers book | implements `Outbox` |
| `NetworkQueueProofs` | lemmas on what its actions do to queue, loop and books | `NetworkQueue`, `TLAPS` |
| `Delivery` | the network and the devices behind the outbound queue | `NetworkQueue` |
| `DeliveryProofs` | its theorems | `Delivery`, `NetworkQueueProofs` |
| `Startup` | registration, measurement, start of the experiment | `NetworkQueue` |
| `StartupProofs` | its theorems | `Startup`, `NetworkQueueProofs` |
| `Threads` | the operations of each call on mutexes and shared data | |
| `ThreadsProofs` | its theorems | `Threads`, `TLAPS` |
| `MC...` | constants for TLC | the module of that name |

`WorkQueue` and `Allocation` meet in `TaskPool`. `WorkQueue` shows (TLC and proof)
that the queue, its lock and its threads behave like the pool whatever the workers
do; `Allocation` starts its workers as the pool allows and models what they do.
So neither needs the state of the other.

### WorkQueue

A work item names the thread that handles it: first the handler that posts it, then the
worker started for it; `stage` says where it is. `Lock` and `AddTask` are the two
sides of `lk.lock()` in `add_task` (W:603-630); push and sort are one step because
they are under the lock. `Sorts` lets an item land anywhere among its equals: the
comparator says true for two equal halts or updates, so their order is not defined.
`MainScan` and `MainIdle` read `empty()` without the lock; `MainLock`/`MainPop`,
`MainPoll`, `MainDone`, `MainLock`/`MainAbsorb`/`MainRelease` are the rest of
`main_loop`, one step per access to shared state. A worker is `run`, then adds what it
adds, then `Decrement`s. `LowReject` is bounded by `MaxAttempt`: the code has no bound, but
each attempt repeats the same steps with new items.

### LinkSlot and LinkSearch

The loop of `findLinkSlot` stops at the first link that leaves room behind it, the last one always
does: `FirstPlace`. The ledger is any sequence, sorted or not. Durations are
constants; the code computes them as the rounded up quotient of size and bandwidth plus
one, so they are positive.

### Allocation

One action per call for the three that run alone and hold both locks from start to end
(`HighAllocate`, `Halt`, `StateUpdate`), four for the low one, which drops
`network_lock` in between (`LowStart`, `LowPlan`, `LowPlace`, then
`LowCommit` or `LowReject`). `HighAllocate` computes the rounds with a record of the local
state: `Try` books the slow configuration on the device `FindNode` selects, `Settle`
speeds it up, withdraws it or confirms it. The loops of the calls (`CoreUsage`, `Keep`, `SortedByFin`, `TryAll`, `SettleAll`,
`HighAllocation`) are functions from the number of elements done to the local state, so that they can be
proved about. The code leaves the loop over finish times once every DNN is allocated; in the model the rounds that are left find nothing to do. `run` counts how often a DNN was halted;
it takes the place of the ids of its links, each run having its own.

A call that dereferences a null pointer sets `crashed` and nothing happens after it
(`HaltCrashes`, `StateUpdateCrashes`). For a low DNN the code casts to a class it
is not and reads a field that does not exist; of the outcomes the model has the one that ends
the process.

`told` is what the devices know. In this module a device knows its DNN as soon as it is
booked; what the outbound queue does to that is the subject of `NetworkQueue`.
The clock only moves in `Tick`; a low worker reads it in the step that copies the ledger, though
a moment passes between the two in the code.

### NetworkQueue

`addTask` and the loop's test and pop are under `networkMutex`, one step each. The loop
then sends without it: `PostAllocation` does not wait, `PostHalt` and `PostStart`
wait for replies, `StartReply` for one device after the other. `HaltAnswered` covers the
reply and the error, which `haltReq` catches; `StartError` is not caught in
`initialise_experiment` and ends the loop. Of the workers it has what they do to the maps and to the queue:
`Book`, and `halt_call` in two steps, because between clearing the result (`Blank`) and queueing the
halt (`Halt`) the loop may post the allocation it already has in hand. `halting` keeps other workers out
meanwhile, as both locks do. The time of an allocation is arbitrary, because the link slot
is searched earlier and may start before or long after the moment of the call. `run` numbers the versions of
a DNN: the code takes the clock when it makes a result and again when it clears it.

Each message names the host it is posted to: an allocation goes to the source of its DNN (W:453), also when another
device is to run it; a halt goes to the device whose DNNs `halt_call` examined (W:578), where the version that ends was
allocated; the start of the experiment goes to all hosts. Which device a version runs on is the choice of
`Allocation`; here it is any assignment (`SrcHost`, `AllocatedHost`), and the proofs hold for every one. A DNN allocated at its
source has no halt (`Blank`): `halt_call` ends the process there, see `Allocation!HaltCrashes`.

`LowOnly` is the loop in `addTask` that copies the low allocations, as a recursive function.

The module has no next-state relation of its own: `Delivery` and `Startup` add their surroundings
to its actions.

### Delivery

`flight` holds what was posted or forwarded; messages arrive in any order or are lost (`Lose`), on either part of their way. An
allocation arrives at the source, which forwards it to the device it names (`Forward`), and then there (`ArriveAllocation`); a
halt goes straight to that device and stops the version there and nowhere else (`ArriveHalt`). So a halt can be there before the source has forwarded
the DNN. A device keeps versions in `held` until it is told to halt one or reports it; a `Report` names the DNN
only, as `/state_update` and `/deadline_violation` do, and `StateUpdate` releases whatever runs under that id, or
ends the process when nothing does. A message written while `halt_call` clears the result is
not `whole`; it may not name the other device any more, so the source may keep it; what a device does when it is told to halt such a version is left open. `missed`, `overtaken` and
`misread` are history: they only serve to name the ways in which controller and devices can
come to disagree: a message was lost or swept away; a halt was at its device before the allocation, which was still on its way to or from the source;
a version was not whole; a report on an earlier version released the DNN. Each of them is needed: without it TLC finds a state that violates
`NoOrphans` or `BookedIsHeld`.

### Startup

A registration goes through the steps of its handler: the push under the lock of the list, the devices map, the
push to `hosts`, which reads the vector (`ReadHosts`) and writes it back (`PushHost`), the size test, the
measurement, and the message. A vector that is used while another thread pushes to it may end the process (`Racy`, `exited`), and so
does a measurement that fails (`exit` in `iPerfTest`). `told` are the devices the start was posted to. Requests and so
workers only come from devices that were told; then the actions of `NetworkQueue` run next to handlers.

### Threads

Each call is the sequence of its operations (`Script`): the mutex an operation takes, what it reads and writes, the
mutexes it gives up. Calls that log do so under other locks, so the log's mutex is in the middle of most of them. The module has no
values; branches that take different locks are calls of their own (`low_accept`, `low_reject`). One DNN is
allocated per high request: another repeats the same operations. The scripts were written from the `lock()` and `unlock()` calls; those inside
cpprest are not in the repository.

`Data` is what the threads share: the books, the results they point to, the queues and lists, bandwidth and jitter, and the four static
counters that number links, results of DNNs, work items and devices. None of the counters has a mutex of its own. `LinkAct`s and results are
made by low workers next to each other (`NewLink`, `NewLowResult`), and by the high call alone. Work items are made by every request handler, by a low worker for its halt and its retry, and by
`halt_call` for the DNN it puts back (`NewItem`); devices by registrations. `KnownRaces` says who meets where. What a race on a
counter does to its value is not modelled.

## 3. The runs

| run | question | bounds | result |
|---|---|---|---|
| `work_queue` | counter, exclusion, unlocked test, halt before retry, refinement of `TaskPool` | 3 requests of every external type, 2 deadlines, 1 preemption each; symmetric in two requests | holds, 125,663 states |
| `work_queue_live` | `Served` | 2 requests, 1 preemption each | holds, 4,242 states |
| `link_search` | `NotBeforeBase`, `SlotIsFree`, `SlotIsEarliest` | all ledgers of up to 3 transfers in 0..5, any order, any overlap | holds, 65,088 states |
| `allocation` | books, ledger, phases, deadlines, accounting, orphans, `LowServed`, `OnlyLowsOverbook` | 2 devices, 3 high DNNs of one request, 3 low DNNs for the device they overflow to, 2 clock values | holds, 1,201,070 states |
| `delivery` | devices and controller agree, halt last, refinement of `Outbox` | 2 high DNNs, symmetric, run first on the other one of 2 devices, each halted once and then at home; all messages of one time | holds, 657,657 states |
| `startup` | every device told, and only when ready; `LowNeverLost`, `LowDelivered` | 2 registrations, 1 low, 1 high DNN halted once, 2 instants | holds, 1,041,216 states |
| `threads` | no deadlock, only known races, `SchedulerRuns` | 2 workers, 1 handler, both loops; every call again and again | holds, 678,762 states |
| `capacity_race`, `low_deadline`, `halt_reallocates`, `end_of_list`, `network_loop_ends` | what a comment or a declaration says of the code | | violated, see 6 |

Why the bounds are enough: in the work queue, a low item can be running, one waiting and
one at the lock while a halt, a reallocation and an update compete with them; that needs three
requests and one retry. A link search distinguishes a gap before, between and after, with base
before, inside and behind it: three transfers. In `allocation` the cores are those of the
code (4; 2 slow, 4 fast) and the times keep their order (low < fast < slow); the one high
request has three DNNs: two fill a device, the third goes to the other one, where low requests arrive
before, between and after; its deadline is met or missed depending on what was booked before. Remote placement, later
rounds, withdrawal of a remote DNN, halts, a second halt of the same DNN, reallocations, the leaked transfer, low workers that
overbook the device, and both crashes are all reached. In `delivery` every message has the same time: messages of one time come in any
order, so the run includes each order that later times could give, and the clock is not what the properties depend on. Two
high DNNs are needed for a halt that sweeps the messages of another one, two versions for a
report that comes late, two devices for a halt that arrives before its allocation. A low allocation is among the messages of `startup`, where a halt sweeps around it. In `startup` two handlers are enough for a lost push and for two measurements. In `threads` a third
worker would be another low one and repeat what two of them do; handlers next to each other are in `startup`, and
`ThreadsProofs` covers any number of both.

Deadlock is not checked (`CHECK_DEADLOCK FALSE`) where the bounded environment ends:
all requests served and the clock at its bound, or a crash, or an ended loop, or, in `threads`, everybody waiting for
the log after `write_log`.
`work_queue` and `link_search` check it: `main_loop` idles for ever, a search can always follow.

Fairness. `WorkQueue!Fairness`: each thread keeps running (WF); the mutex starves no
thread that waits for it (SF of `Lock`), although `main_loop` takes it over and over while polling.
`std::mutex` does not promise this, but the lock is free between two polls and handlers and workers compete for
it with one thread. Without it nothing would ever be served. `Allocation!FairSpec`: if work can be
served it is, and low workers take their steps: what `Served` says of
the queue. It is written with `[]<>` and the enabling conditions spelled out, because the steps are
too large for TLC to compute ENABLED. Its two kinds of step are told by
their effect, an item that leaves the queue and a worker that moves on. `Startup!StartupFairSpec`: the clock runs, the loop and a handler
whose device has registered are scheduled, and a request ends with a reply or an error: cpprest has a timeout. Nothing makes a device register:
`AllTold` assumes that as many do as the controller waits for. `Threads!FairSpec`: threads are scheduled (WF), and `main_loop`, which
takes the lock in every round, is not starved of it (SF). Devices need not do anything in any of them.

Each property has a mutant in `PROJECT.json`: a plausible fault of the code (`Fault:` in the
modules) under which TLC finds the property violated in the same run.

## 4. The proofs

`WorkQueueProofs`, for any sets of requests and deadlines and any number of retries, from
`ConstantsAssumption`: type correctness, `CounterMatches`, `FrontExists`, `Serial`, `HaltBeforeRetry` and
the refinement `PoolSpec`.

None of the properties is inductive. That the counter matches needs to know when it is reset:
only at the scan, and there nothing may be live (`MainInv`), which holds because
`main_loop` leaves its waiting loop only when the counter, and so the set of live workers, is
empty. That the front exists needs the place of `main_loop` between test and lock: the queue is not
empty or an adder holds the lock (`MainInv`). That halts come first needs the queue to be
sorted and without repetitions (`QueueInv`), each item to enter it once (`FreshInv`: the halt and the retry
of an item do not exist before the item fails), the stage of each thread to agree with its kind
(`StageInv`), and that a retry is only queued after its halt, and the halt is
not overtaken (`OrderInv`: started retries have finished halts, because a halt is
more urgent and does not share). `IInv` is the conjunction. The proof has a lemma per
conjunct (`QueueStep`, `CountStep`, `TypeStep`, `MainStep`, `StageStep`,
`FreshStep`, `OrderStep`) over lemmas on what each kind of step changes; `SortsQueue` and
`PopsQueue` say what adding to and popping from the sorted queue does. The refinement uses
`IInv` in each step: a popped item is the most urgent, because the queue is sorted, and it starts
alone or among low ones.

`LinkSlotProofs` and `LinkSearchProofs`, for any ledgers, bases and durations, from `SearchAssumption`: a
search never starts early (any ledger); on an orderly ledger its slot is free and the earliest, but
for an exact fit before the first transfer, which the code refuses (`>` where the other gaps have
`>=`). The first place exists because the last link always qualifies and natural numbers have
least elements; on an orderly ledger every earlier start overlaps the link before the place or the one
behind it.

`NetworkQueueProofs` has no theorem of a specification, because its module has no next-state relation. It shows for each action what
the compositions need. `QueueInv` says that the queue is sorted, that no message is in two of queue, hands of the loop and posted (`LoopInv`), that a DNN waits,
is booked or is being halted (`BookInv`), that a halt is about a version that ended and an allocation about one that was booked
(`MessageInv`), once each (`UniqueInv`), and that no allocation shares the queue with its halt or is behind it (`SweptInv`). Its lemmas
say which of this each action keeps (`...Keeps`), that no action of the queue takes a low allocation out of it (`LowKept`), that
a version that was halted is not posted again (`HaltKeptLast`), and that each is a step of `Outbox` or a
stutter (`Outbox...`). What the copying loop of `addTask` returns is proved about `LowOnly` without an induction rule: if there were an
index at which the claim fails there would be a least one. Assumptions: `MaxTime` and the bound of runs are
natural numbers, and there is at least one instant.

`DeliveryProofs`, for any devices, any choice of the device each version runs on, any number of DNNs, halts, and messages lost or out of order: types,
`LowNeverLost`, `SpoiltIsHalted`, `NoOrphans`, `BookedIsHeld`, `HaltIsLast`, `OutboxSpec`. `NoOrphans` and
`BookedIsHeld` only speak of moments at which nothing is under way, so they say nothing about the steps that lead there. The invariant `NetInv` says where things are
meanwhile: an allocation is posted to its source and a halt to the device of its version, and no other device holds that version if it is whole (`HostInv`), a version is in one place (`PlaceInv`), each that ended has a halt somewhere, unless `halt_call` is about to
queue it (`HaltsInv`), each that a device has, or that travels to it, is booked, being halted, followed by its halt or
excused (`ExcuseInv`), and each booked one is in the queue, in the network or on its device, or was missed (`KnownInv`).

`StartupProofs`, for any set of hosts, handlers and DNNs: types, `ReadyWhenTold`, and again `LowNeverLost`, `HaltIsLast` and
`OutboxSpec` with the start of the experiment among the messages. `ReadyWhenTold` needs what each stage of a handler has
already done (`StageInv`), that whatever is in `hosts`, or in a copy of it that a handler will write back, has its
`ComputationDevice` (`KnownHosts`), and that a start is only in the queue after a measurement (`MeasuredInv`).

`ThreadsProofs`, for any sets of workers and handlers, infinite ones included: types, `NoCycle` and `OnlyKnownRaces`. `Carries` is the table of the
mutexes a call has before each of its operations; `CallsFit` compares it with the scripts, operation by operation: what a call
takes, gives up and touches, and with which mutexes in hand. `HoldInv` says that threads have what the table says, `AloneInv` that only low
calls run side by side. No single order of the mutexes fits all calls. But threads that wait with a mutex in hand are workers with one of the
two big locks, and of those only workers that run alone wait for the other one (`Ordered`); so of two that wait for each other's, one after the other, `AloneInv`
rules one out. The proof does not ask for a circle that closes: a set of threads, each waiting for one of the set, is enough.
Proving `OnlyKnownRaces` showed that its list was short: with one handler, as in the run, two registrations never meet. They write the list of
devices, the hosts and the bandwidth next to each other.

`AllocationProofs`, for any devices, DNNs and requests, any number of cores and any times: types, `BooksAgree`, `LinksBooked`, `PhasesInOrder`,
`HighMeetsDeadline`, `Accounted`, `OnlyHaltsOrphan` and the action property `OnlyLowsOverbook`. `AllocationAssumption` says that requests come from registered devices, which are numbered in
the order of the map, that a high request names no DNN twice, that transfers take time and that the clock has at least one value.
None of the properties is inductive: `Books` is what a call has to leave behind, and it speaks of any
ledger, device lists and results, because a high allocation works on copies. The DNNs it has tried, but not settled, are on a device and have some of their
links, so `Books` takes them apart from the booked ones; `Due` says which links each must have. `LinkBook` asks for these and, of the current runs, no others,
under different names and in the order of the phases: uploads and transfers of the same run are compared pairwise, the others with the window. `ResultBook` has the deadlines.
Around the books, `MapsInv` relates the maps to the kinds of results, `ItemInv` says what waits, `PlaceInv` that each DNN asked for
is with one request or booked, `PlanInv` that what a low worker found is still what it needs when it books it (its DNN has had no other run since), and `ReportInv` that
a DNN that was never halted is reported once, while it is booked.

One lemma per change says what it does to the books (`BooksPlaced`, `BooksSped`, `BooksConfirmed`, `BooksDropped`, `BooksHalted`). The rounds go through
`Draft`: the books are in order with these DNNs tried. `TryKeeps` adds a DNN to the tried ones, `SettleKeeps` books or withdraws it, `TriedAll` and `SettledAll` take the two loops,
`RoundKeeps` a round, and `HighDrafted` the call. Induction along a loop needs no rule: the first index that
is not good would have a good one before it (`UpTo`), and a function that fulfils the equations of the loop exists (`LoopExists`). A slot has the right length and base on any ledger (`SlotShape`): that
is all the phases need, so the order of the ledger, which nobody keeps, plays no part.

`OnlyLowsOverbook` compares the sums of cores on a device before and after a step. A DNN adds its cores at the instants of
its window only, and the sum at an instant is at most the one over a window around it; so a DNN for which the window tested has room, or a faster configuration for
which the others leave room, crowds no one (`CrowdedJoined`, `CrowdedSped`), nor does one that leaves (`CrowdedLeft`). All of these rest on
`UsageCompared`, which compares two sums over the same list DNN by DNN. `Draft` carries `Calm`, that what a high allocation has worked out so far is no more crowded than
the devices were, through its rounds.

TLC checked `AllocationInv`, `DeliveryInv`, `StartupInv` and `QueueInv` on the instances of `allocation`, `delivery` and `startup` before they were proved.

Only model-checked: liveness (`Served`, `LowServed`, `LowDelivered`, `AllTold`, `SchedulerRuns`), which is beyond the prover.

## 5. Not modelled

- The arithmetic of durations and of the measurement (mean, deviation); durations are constants.
- The bodies of messages and logs, but for the DNN, its version and whether they are whole.
- What a data race does beyond a lost push, a message that is not whole and the end of the process: `OnlyKnownRaces` lists where
  races on `Data` are, the other models take their data to be intact. So ids of links are unique in `Allocation`; those of results, work items and devices are never compared.
- A device that registers again: it gets a new, empty `ComputationDevice`.
- The wrap of the version (nanoseconds times 1000 in 64 bits): versions stay different, so they are numbered.
- An exception in the continuation of a request nobody waits for, which cpprest reports later or never.
- `handle_get`, which reads the list of devices.
- Unused classes, build output.

## 6. Where code and comments disagree

- `capacity_race`: the check of the cores (W:142) and the booking (W:227) are two critical sections,
  so two low workers book the same core, though W:145 speaks of what happens
  when a device cannot take the task. `OnlyLowsOverbook` shows that this race is the only way.
- `low_deadline`: nothing compares a low DNN with its deadline, though the comment of
  `allocate_task` says it is placed before it.
- `halt_reallocates`: the test at W:561 is the wrong way round, so a halt whose DNN runs at its source uses a null
  pointer at W:565. In the trace one device asks for a high DNN, which gets all its cores, and then for a low one; W:586 says the
  DNN that makes room is reallocated. With one device every DNN is at its source, so this is the shortest way. The other way a halt can end the process
  (W:541, no DNN in its window any more because it finished meanwhile) takes a report more; `allocation` reaches that one, and W:561 with a low DNN as the one to prune. The other half of the
  test at W:561 leaks the transfer of a DNN that ran elsewhere (`LinksBooked` says that is all that leaks).
- `end_of_list`: `findLinkSlot` takes the last transfer for the latest one, on a ledger that
  is in the order of booking.
- `network_loop_ends`: the outbound loop is declared `[[noreturn]]`, and an
  error in the start of the experiment makes it return.

Worth knowing, though no comment says otherwise:

- A halt removes from the outbound queue the allocations of other high DNNs and halts not yet sent; the controller
  keeps them booked and nobody tells their devices (`BookedIsHeld`, `NoOrphans`). It can remove the start of the experiment as well (`AllTold`).
- A halt goes straight to the device that runs the DNN, the allocation by way of its source: if the halt is there first, the device is handed a
  DNN afterwards that the controller has given up (`overtaken`).
- A report on a version that was halted releases the version that runs now (`misread`).
- Two registrations that overlap can lose a host, which is then never told (`HostLost`).
- After `write_log` every thread blocks at its next log entry (`SchedulerRuns` holds until then).

## 7. Plan

Done: all modules of section 2 and the proofs of every invariant and action property their runs check. Next, in this order:

1. Ids of links that are not unique and devices that register again, in `Allocation`.
2. `LowDelivered` and `LoopRuns` down to what safety says of them: that nothing but the loop takes a low allocation from the queue is proved (`LowKept`), that
   it is never stuck behind another message is not.
