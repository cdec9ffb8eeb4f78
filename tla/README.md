# Minithreads in TLA+

A model-checked and partly proved specification of the minithreads system in
`src/`: a user-level thread package with a preemptive scheduler, semaphores,
alarms, datagrams (minimsg), ad-hoc routing (miniroute) and stream sockets
(minisocket). Every definition is a translation of the C code; where a header
or a comment promises something else, a run or a note says so (section 5).

## 1. Inventory of the system

| Component | State it keeps | Operations | Talks to |
|---|---|---|---|
| Scheduler (`scheduler.c`, `multilevel_queue.c`) | four FIFO queues, `size`, `current_level`, the ticks left of the level and of the quota | schedule, next_thread, advance, quota_expired | called by minithread.c; reads status and priority of threads |
| Minithreads (`minithread.c`) | `active_thread`, per thread status and priority, `delete_queue`, the reaper and alarm threads | create, fork, start, yield, unlock_and_stop, sleep_with_timeout, finalproc, reap_proc, alarm_proc, clock_handler, network_handler | everything |
| Semaphores (`synch.c`) | count, FIFO of threads, test-and-set lock | create, initialize, P, V, destroy | minithread_start, minithread_unlock_and_stop |
| Alarms (`alarm.c`) | sorted queue of alarms, next id | register, deregister | signalled by clock_handler, run by alarm_proc |
| Lists (`queue.c`) | doubly linked nodes, head, tail, length | new, append, prepend, dequeue, insert_sorted, delete, delete_by_predicate, iterate, free | every queue above and below |
| Minimsg (`minimsg.c`, `miniheader.c`) | tables of unbound and bound ports, `next_bound`, per unbound port a packet queue and a semaphore | create_unbound, create_bound, destroy, send, receive, enqueue | network_handler fills, miniroute sends |
| Miniroute (`miniroute.c`) | route cache: per destination a path, flag, waiting count, semaphore, alarm | send_pkt, retrieve_route, rebroadcast, cache_evict, helper, forward_packet | network, alarms, hash table |
| Hash table (`hashtable.c`) | slots with key and value, size | init, get, put, remove, free | route cache |
| Minisocket (`minisocket.c`) | port table, free client ports; per socket state, seq, ack, tries, buffer, alarms, semaphores | server_create, client_create, send, receive, close, handle_incoming_packet | miniroute, alarms, semaphores |
| Files (`minifile.c`, `file-structures.c`, `mkfs.c`, `shell.c`) | none yet: stubs and layouts | - | - |

How they interact. Threads call down; interrupts call up: the clock handler
(`minithread.c:77`) advances the scheduler, signals due alarms and may yield,
the network handler (`minithread.c:91`) delivers packets to miniroute, minimsg
and minisocket and calls `semaphore_V`. Shared state is protected in one way
only, by disabling interrupts; the test-and-set lock of a semaphore is taken
*before* interrupts are disabled. `network_initialize` and `miniroute_initialize`
are commented out of `minithread_system_initialize` at this commit
(`minithread.c:354,356`): the network part runs only once they are put back.

What is hard, and what has to hold:

* **Preemption inside `semaphore_P`** (`synch.c:66-82`). It restores the
  caller's interrupts before it gives the lock back and sleeps. Lock exclusion,
  agreement of count and queue, no lost thread, no handler spinning on a lock.
* **A count beside a queue** (`scheduler.c:50-54`): dispatch trusts `size`.
* **Starvation** by levels, quotas, promotion and demotion.
* **Exit and reaping** (`minithread.c:373-447`): a thread is freed by another.
* **Two sides of the alarms** that agree only through the order of a queue:
  early, late, lost and surplus signals.
* **Pointers** in the list code, with special cases at both ends.
* **Network code** that shares entries with handlers and alarms, blocks with
  interrupts enabled or disabled, retries on timeouts, and frees objects others
  may still wait on.

`PROJECT.json` lists each of these at its line under "hazards", with the
properties that cover it or the reason why none does.

Who calls a semaphore with interrupts enabled: the applications (`buffer.c`,
`sieve.c`, `test3.c`); `finalproc` and `reap_proc` on the reaper's semaphore
(`minithread.c:384,437`); `listen_wait` (`minisocket.c:171`) and the two alarm
functions at `minisocket.c:121` and `264`; `retrieve_route`
(`miniroute.c:372-412`). All other calls are made with interrupts disabled.

## 2. Modules

| Module | Models | State | Actions |
|---|---|---|---|
| `Dispatcher` | what the rest relies on of yield, start and the ready queue: a bag | running thread, status, bag, `size`, forks in progress | Switch, Stop, Exit, Wake, ForkAppend, ForkCount |
| `Scheduler` | scheduler.c + multilevel_queue.c under minithread_yield, start, fork, clock_handler | the above with four FIFO queues, priorities and the two tick counters | Yield, Stop, Exit, Wake, ForkAppend, ForkCount, Tick |
| `CountingSemaphores` | what synch.h promises (abstract) | value, waiting, granted | Acquire, Wait, Release, Grant, Return |
| `Synch` | synch.c + unlock_and_stop, finalproc, reap_proc, on `Dispatcher` | count, queue and lock per semaphore; step and semaphore per thread; delete queue; a ghost for the threads that a V caught on their way to sleep | CallP, SpinP, TakeP, QueueP, ClearP, SleepP, YieldP, ReturnP; CallV, SpinV, IncrementV, HandlerV; FinalStatus, FinalAppend, FinalYield, Reap; Fork, EndFork, Yield |
| `ListQueue` | what queue.h promises (abstract) | a sequence and the last result | Append_, Dequeue, DequeueEmpty, InsertSorted, DeleteKey |
| `LinkedQueue` | queue.c, node by node, in a finite memory | head, tail, length, nodes with data, prev, next, the allocated nodes | queue_append, queue_dequeue, queue_dequeue_empty, queue_insert_sorted, queue_delete_by_predicate |
| `Alarm` | alarm.c + clock_handler's alarm half, trigger_alarm, alarm_proc, sleep and wake | alarm queue, count of alarm_sema, the alarm being run | Wait, deregister_alarm, Tick, AlarmDequeue, AlarmCall |
| `Minimsg` | minimsg.c + the datagram branch of network_handler, on `CountingSemaphores` | open unbound ports, packets and semaphore of each; `next_bound`, table of bound ports, ports in memory; per thread its step and chosen number | Arrive, miniport_create_unbound, DestroyUnbound; ReceiveNow, ReceiveWait, ReceiveResume; Choose, ChooseNone, Enter, DestroyBound |
| `KeyedStore` | what hashtable.h promises (abstract) | pairs in cells, the last result | Put, Get, Remove |
| `HashTable` | hashtable.c: open addressing with removals | slots, size, the last result | hashtable_put, hashtable_get, hashtable_remove |
| `RouteDiscovery` | miniroute.c between nodes: miniroute_helper, forward_packet, the broadcast and the data packets, with the routing branch of network_handler | packets in flight, routes learnt, counters | Rebroadcast, SendData, Deliver, Duplicate, Lose |
| `Miniroute` | miniroute.c within a node: retrieve_route, rebroadcast, cache_evict, the reply branch of miniroute_helper, on `CountingSemaphores` | entries, which are allocated, which are in the table; semaphores, alarms; per thread its step and its entry | Lookup, Create, Found, Count, P, Uncount, PassOn, Verdict, SendPkt; Broadcast, GiveUp, RegisterRetry, Retried; Fire, cache_evict; Reply; UseFreed |
| `Minisocket` | minisocket.c at both ends of a connection, with the stream branch of network_handler | per side the socket, the step of its thread, the argument of waiT; the network; ghosts for what was buffered and confirmed | creation, Connect, ListenWait, ConnectEvaluate; Wait, Woken, AlarmDequeue, wake_from_timeout; minisocket_handle_incoming_packet by state and type; Send*, Receive*, Close*, AbleToClose; Lose, Duplicate, RouteNotFound |
| `MC*` | instances for TLC | | |
| `SchedulerProofs`, `SynchProofs`, `AlarmProofs`, `MinimsgProofs`, `HashTableProofs`, `RouteDiscoveryProofs`, `MinirouteProofs`, `MinisocketProofs` | theorems | | |

`Synch` is composed with `Dispatcher` (EXTENDS: it runs on its yield and start),
`Scheduler` implements `Dispatcher` (refinement), `Synch` implements
`CountingSemaphores` (refinement), `LinkedQueue` implements `ListQueue`
(refinement), so that the other modules may use sequences for queues. `Minimsg`
is composed with `CountingSemaphores` (INSTANCE): its P and V are the abstract
ones, which is sound because all of its callers of P disable interrupts, the
case in which `Synch` implements them (run `synch_masked`). `Miniroute` uses the
same module, although its threads call P with interrupts enabled: what can go
wrong with such a P is the subject of `Synch` (run `synch_lost`), and what can
go wrong above a P that works is that of `Miniroute`. Its table is the store that
`HashTable` implements, one entry to a node. `RouteDiscovery` is what `Miniroute`
sees as "a reply to a broadcast of mine, sooner or later or never": a reply is
only ever made for an id that was broadcast.

### The grain of the steps

A step is a piece of code that nothing can interrupt, or that touches one
shared thing. Code that runs with interrupts disabled to its end is one action.
`semaphore_P` is cut at every point where its caller, had it interrupts
enabled, can be preempted: after the test-and-set, after the locked section,
after each of the three steps of `minithread_unlock_and_stop`. The constants
`MaskedP` and `MaskedV` say on which semaphores the callers disable interrupts;
`InterruptsEnabled` forbids preemption and handlers inside such a call.

Assumed of code outside `src/`: `minithread_switch` changes stacks and leaves
every thread with the interrupt level it had, `atomic_test_and_set` is atomic,
and an interrupt handler runs with interrupts disabled, on the stack of the
thread it interrupts. `malloc` succeeds. The programmer keeps the rule of
`minimsg.h` and destroys no unbound port that a thread receives on.

Abstractions: a thread is a model value; time in `Alarm` is the ticks left
(the code only asks whether it is zero and compares it); a data payload is a
model value; stacks, ids and printing are left out. In `Scheduler` a thread
blocks in one step (`Stop`), as it does when interrupts are disabled, and one
that finishes is marked (`Exit`) before it yields for the last time; `Synch` has
the steps of both. `Minimsg` leaves out the contents and headers of packets and
the sending side, which keeps no state.

In `RouteDiscovery` a node has no state, so a step is one packet handled by one
node, and the packets are a set. The second call of `forward_packet` on a freed
packet (`minithread.c:127`) is one of the outcomes "sent twice", "nothing more"
or "the node is gone", which `Duplicate` and `Lose` are for a node without
state. In `Miniroute` each statement that touches an entry is a step, for the
threads and the alarm thread have interrupts enabled there; `Reply` is one step,
since the handler disables them. Three steps take in more than one statement:
`Destroy` frees the semaphore, removes the node and frees the entry; `GiveUp` sets
the flag, tests the count, and wakes a waiter or destroys; `PassOn` tests the count
and wakes the next. Cut finer they would add a use of something freed in between,
which ends a behaviour anyway, or a unit too many of the entry's semaphore. Assumed: `waiting_count++` and
`waiting_count--` are single steps, as one instruction on memory is; were they
a load and a store, two threads could lose a count. A caller that meets a freed entry ends the
behaviour (`UseFreed`): what the program does from then on is undefined. In
`Minisocket` the handler is one step, the threads are cut where they enable
interrupts, call the network or test the state. A fragment is a number, an
address or a length is not there, and the two sides are neighbours.

The memory of a freed entry is not reused while something refers to it
(`Unreferenced`): reuse would only add behaviours after a use of freed memory.

## 3. Runs

| Run | Instance | Shows |
|---|---|---|
| `scheduler` | 3 threads and idle, one forked later; 4 levels; ticks 8/2/3/5 | SchedTypeOK, OnePlace, SizeAccounting, refinement of Dispatcher, ReadyEventuallyRuns |
| `synch_preempt` | 4 threads (main, reaper, two forked), one semaphore and the reaper's, interrupts enabled, two threads may exit | TypeOK, LockExclusive, WaitQueueExact, ReaperFindsWork, ReapedIsUnreachable, OnlyCaughtAreLost, refinement of CountingSemaphores |
| `synch_masked` | 4 threads, a mutex and an event that a handler signals, interrupts disabled | HandlersNeverSpin, refinement with fairness: a granted P returns |
| `synch_lost` (violation) | 3 threads, interrupts enabled | a thread is lost for ever |
| `queue` | lists of up to 5 nodes, 3 items, two with equal keys | WellFormed, refinement of ListQueue |
| `alarm` | 2 sleepers, 2 timers, delays 0, 2 and 3 ticks | SleepersHaveAlarms, SignalsHaveAlarms, NeverEarlyUnlessForfeited, JamsStartLate, SleepEndsUnlessJammed |
| `minimsg` | 3 threads, 1 unbound port, 3 bound numbers, memory for 4 bound ports (symmetric) | PacketsMatchReceivers, PortNumbersDistinctUnlessRaced, IncrementalUntilOverflow |
| `hashtable` | 3 keys, 2 values, 3 slots, two keys with one hash | refinement of KeyedStore |
| `route_discovery` | 5 nodes, routes of 2 and of 4 hops, MAX_ROUTE_LENGTH 3, 2 losses or repetitions | DiscoveriesCollectWalks, PacketsOnCourse, RoutesAreReal, RouteIsFound |
| `route_cache` | 3 threads, one destination, 2 entries, a cache of one, one retry | TypeOK (the count of waiting threads is exact, three broadcasts at most), EntriesAreTimed, AnswerStopsRetries, CacheNeverDangles, WaitersAreWoken |
| `minisocket` | 2 fragments from the client, one retry, one fault of the network, either wait | TypeOK, InOrderAtMostOnce, WindowOfOne, HandshakeAgrees |
| `minisocket_send` (violation) | the same without faults | a send reports success for data that was never buffered |

Bounds, and why they are enough.

* *Threads.* Three threads let one run, one wait and one interfere; four let two
  wait in a queue whose order then matters, beside the reaper. In `synch_preempt` the
  two that exit are interchangeable (`UserSymmetry`): they start in one state, and no
  property of the run is about liveness.
* *Ticks 8/2/3/5* stand for 80/40/24/16. What matters for starvation is that a
  level lasts at least as long as any quota that can still be running in it
  (at most 8 ticks in level 0 after level 3, 1 in level 1, 2 in level 2, 4 in
  level 3), so that each level gets a dispatch in every round; with shorter
  levels TLC finds a starving thread.
* *MaxCnt = 1* caps the units a semaphore may hold when a V begins; more units
  only let more threads through without meeting.
* *Delays 0, 2, 3*: an alarm for the next tick, and two that can be due at
  different ticks or, registered a tick apart, at the same one.
  *MaxForfeited = 1* caps how many due alarms are deregistered at a time.
* *Three numbers, four bound ports, two packets queued* (`NumBound`,
  `BoundPorts`, `MaxQueued`): the numbers wrap around after three ports, the
  table can be full, and there is memory for two ports with one number; two
  packets and two receivers meet in either order. The code has 32768 numbers,
  so a wrap-around during one thread's preemption is rare there, not excluded.
* *Five nodes* of a list: two ends, two inner nodes and one more to insert.
* *Three slots, three keys*: a full table, a probe that wraps, a gap left by a
  removal before a key that was put beyond it.
* *Five nodes* of a network: two equal routes, a loop, and a longer route at
  whose last node the ttl is used up. `MaxBroadcasts = 1`, as discoveries do not
  meet; `MaxFaults = 2`.
* *Three threads, two entries, a cache of one*: one thread creates, one waits,
  one comes late; two of them may miss together and create two entries, of
  which the table has room for one. `MaxSpare` caps the units given to threads
  that have not called P yet. `MAX_RETRIES` is 1 for 2 in the code.
* *Two fragments, one retry, Capacity 1*: the sequence numbers go from the
  handshake through two data packets, with a retry and an acknowledgement that
  races it at each; `Capacity` caps the packets on the way to a side (one that
  does not fit is lost, which the code must take anyway). The server sends no
  data in this run; with data both ways the numbers still agree but the window
  does not (section 5).

Deadlock is checked except in `alarm`, `route_discovery`, `route_cache` and the
`minisocket` runs: a behaviour ends there at a fault, when the bounds are used up,
or when both sockets are closed.

Fairness. `SchedSpec` assumes only that the clock ticks. `Synch!FairSpec`
assumes that the running thread goes on with a call it has begun, that the
clock preempts (`WF(Yield)`) and that a thread with a ready entry is eventually
dispatched (`SF(SwitchTo(t))`): the last is what `ReadyEventuallyRuns` shows of
the scheduler. No thread is assumed ever to call P or V. `Alarm!FairSpec`
assumes that the clock ticks and the alarm thread, once it can run, runs.
`RouteDiscovery!FairSpec` assumes that the network delivers what it does not
lose. `Miniroute` and `Minisocket` state safety only: what their threads wait for is
an answer or an alarm that the model lets come at any time, and calls of the
code do not all end (section 5).

## 4. What is proved

Every theorem is proved from the assumptions of its module on the constants, and
from nothing else unless said so; each section names the inductive invariant.

`SchedulerProofs` proves, for every finite set of threads, every length of the
levels and every order in which the initial threads were forked,

* `SchedTyping` (SchedTypeOK), `ThreadsAreInOnePlace` (OnePlace) and
  `SizeIsAccounted` (SizeAccounting);
* `NoEmptyDequeue`: when `size` is above zero the search over the levels finds
  a thread, wherever it starts: the NULL of an empty queue is never dispatched;
* `SchedulerIsDispatcher`: `SchedSpec => ImplementsDispatcher`, the bag of ready
  threads that `Synch` runs on.

None of the first three is inductive. The invariant (`SchedInv`) says which set of
threads the queues hold, `Ready`, each once and in the queue of its own priority
(`Queues`), that `size` and the forks in their window count that set (`Counted`),
and that the running thread is not blocked (`Awake`). A yield is then two steps on
the set, an insertion and a removal, whatever the clock, the quotas and the
search did; the bag of `Dispatcher` is its characteristic function. `Entries` and
the total of `SizeAccounting` are cardinalities of positions (`Slots`), not of
threads, and the bijection between the two is a lemma.

Its last part is about `LinkedQueue`, the lists those queues are made of. For
every finite set of nodes, every set of items and every `Key` (assumption
`LinkedQueueAssumption` only) it proves

* `ListIsWellFormed` (WellFormed): nothing leaks, nothing freed is on the list,
  prev mirrors next, and head, tail and q_length agree with the nodes;
* `PointersImplementList`: `Spec => ImplementsList`, so that a sequence is what
  the callers see, the result of each call included.

WellFormed speaks of `Chain`, the nodes met by following next from head, and the
prover cannot reason by induction about what such a walk computes. The invariant
(`QueueInv`, theorem `QueueInvariant`) therefore does not mention the walk: some
sequence c of distinct nodes exists whose order head, tail, prev and next
describe exactly (`Linked`), whose nodes are the allocated ones and carry items
(`Stored`). That `Chain` is c is then a lemma (`ChainIs`): if they differed there
would be a least number where they do, and the place before it forbids that.
`ListFits` bounds c by the memory, so the walk is long enough to meet the NULL at
its end. An insertion puts one node at a place of c (`NodeInserted`, `InsertLinks`),
a dequeue and `Unlink` take one out (`NodeRemoved`, `UnlinkRemoves`), with the cases
of the first, the last and the only node in the code. For `queue_delete_by_predicate`,
`Swept` says what the walk has left after i steps: the nodes of c, in their order,
that it has not reached or that do not match, and as a result the last item that
matched. Each step of the walk keeps it (`SweptNext`), and so do all of them
(`DeleteLinks`), for there is no least step that breaks it.
The refinement maps each call to the one of `ListQueue`, whose deletion is stated
without a walk, by the increasing map of the positions kept.

`SynchProofs` proves, for every set of threads and of semaphores, every initial
count and every choice of `MaskedP`, `MaskedV`, `HandlerSems` and `Exiting`
(assumptions `DispatcherAssumption` and `SynchAssumption` only):

* `SynchTyping`: `Spec => []TypeOK`;
* `LockMutualExclusion`: `Spec => []LockExclusive`;
* `CountMatchesQueue`: `Spec => []WaitQueueExact`.

The inductive invariant is their conjunction `SynchInv`. Lock exclusion needs
typing only: a thread enters a critical step by finding the lock free and
leaves it by clearing it. Typing needs `WaitQueueExact`: V takes the head of a
queue on the word of the count. `TypeStep`, `LockStep` and `QueueStep` each go
through the actions; `YieldTyping`, `StartTyping` and `IncrementTyping` are the
shared lemmas about yield, start and the increment of V.

Its second part proves `SynchImplementsSemaphores`: `Spec =>
ImplementsSemaphores` if `HandlerSems \subseteq MaskedP`, that is, if interrupt
handlers call V only on semaphores whose P is called with interrupts disabled
(without it there is a counterexample: a handler's V between the SLEEPING status
and the yield puts the thread on the ready queue twice, and the second entry
ends a later P without a V). A step of P or V maps to
an abstract one as follows: TakeP to Acquire, QueueP to Wait, IncrementV and
HandlerV to Release or Grant by the sign of the count, ReturnP to Return, all
others to stutters. What has to be shown is that a P that returns has been
dequeued, and for it the invariant counts where the dispatcher has a thread
(`Entries`, at most two):

* `QueueInv`: a queued thread is queued once, in a P on that semaphore;
* `MaskInv`: a thread in a masked call is the one that runs;
* `EntryInv`: a V between unlocking and sleeping gives the thread a second
  entry, the SLEEPING status takes one away at the next yield, and so a thread
  at the end of P has one entry if it was dequeued and none if it was not.

Its third part proves, from the same invariant, `HandlersFindLocksFree` (`Spec =>
[]HandlersNeverSpin` if `HandlerSems \subseteq MaskedP \cap MaskedV`) and
`NoThreadIsLost` (`Spec => []OnlyCaughtAreLost`), again if `HandlerSems \subseteq
MaskedP`. A P with interrupts enabled may lose its thread (run `synch_lost`). The
ghost `caught` holds the threads that a V took off a queue between the moment they
gave the lock back and their yield, until they have left P awake or are finished.
The theorem says that this is the only way to be lost, whoever exits and whatever P
and V the others call with interrupts enabled, `finalproc` and the reaper included.
Its invariant `KeptInv` says where the dispatcher has each thread that is not
caught: blocked in a queue with a V to come, ready, or running; a thread that leaves
`caught` is awake, and whoever is awake has an entry (`AwakeInv`). The assumption on
the handlers holds at this commit, where the one active handler signals
`alarm_sema`, whose P is called with interrupts disabled.

Its last part proves, again if `HandlerSems \subseteq MaskedP`,
`ReaperAlwaysFindsWork` (ReaperFindsWork) and `ReapedStaysUnreachable`
(ReapedIsUnreachable). The entry on the delete queue, the V for it and the last
yield are separate steps of a thread that can be preempted between them, so the
invariant says:

* `FinishedInv`: a thread is on its last steps exactly when its status is
  DESTROYED, and a thread preempted there is in no queue of the dispatcher;
* `UnitsInv`: the units of the reaper's semaphore, those still to be added by
  threads on their last V, and the one the reaper holds make up the length of the
  delete queue;
* `DeleteInv`: a thread is on the delete queue once and is freed at most once; one
  that holds the lock of the reaper's semaphore is not the next to be freed,
  because the reaper's unit is then an earlier entry's. That is why a thread that
  is preempted for ever in its last V may leave others unreaped, but is not freed
  itself.

`AlarmProofs` proves, for any number of sleepers and timers and all delays,
`AlarmTyping` (TypeOK), `SleepersAreRemembered` (SleepersHaveAlarms),
`SignalsAreBacked` (SignalsHaveAlarms) and the action properties `AlarmsAreNotEarly`
(NeverEarlyUnlessForfeited) and `JamsNeedALateThread` (JamsStartLate: alarms are
passed over only from a tick that finds an earlier one not taken yet). The invariant adds to these that the queue is sorted
and holds a client once (`Ordered`) and where each client's alarm is (`Placed`).
Sorting makes the due alarms a head of the queue (`FirstExpired`): an insertion of an
alarm that is not due leaves their number, a dequeue takes one, a tick that signals
n alarms makes n more. With that the last theorem is a count: a signal without
forfeited ones stands for a due alarm, and then the first alarm is due. So is that of
the jams: only a tick makes alarms due, and one that finds none due already signals
all that it makes.

`MinimsgProofs` proves, for any number of threads, unbound ports, numbers and
packets, `MinimsgTyping` (TypeOK), `PacketsAreCounted` (PacketsMatchReceivers),
`PortNumbersDistinct` (PortNumbersDistinctUnlessRaced) and the action property
`NumbersIncrease` (IncrementalUntilOverflow). The count of packets needs to know who
waits where (`Queued`: a V that starts a thread starts one that receives on this
port, once). That numbers are distinct needs that a number given out is free until
it is entered, and nobody else's (`Reserved`); that they increase needs where
`next_bound` stands relative to the last number given (`Ordered`).

`HashTableProofs` proves, for every set of keys and values, every hash function
and every number of slots (assumption `HashTableAssumption`), `SizeCountsNodes`,
`HashTableTyping` and `HashTableImplementsStore`. The invariant is typing with
`size` the number of filled slots. The lemmas say that the probe of a key goes
through every slot (`(hash[k] + n) % max_size` is onto), so that a scan of
max_size slots finds exactly what is there; without that a removal would hide
the keys put beyond the gap it leaves.

`RouteDiscoveryProofs` proves, for every network, every MAX_ROUTE_LENGTH, and any
number of broadcasts, losses and repetitions (assumptions
`RouteDiscoveryAssumption` and `RoutesFit`), `RouteTyping`, `DiscoveriesDieOut`,
`NothingGoesAstray` and `OriginIsToldOfRoutes`. The inductive invariant says of each
packet in flight (`Good`) what the three properties say of its kind, and that the
destination forwards no discovery and no path is longer than MAX_ROUTE_LENGTH +
1: without the first a reply could be made for a path that meets the
destination twice, and without the second the ttl of a reply could run out. A
consequence is that the ttl of `forward_packet`, which is decremented and never
tested, never wraps.

`MinisocketProofs` proves `OrderlyDelivery` (`Spec => []InOrderAtMostOnce`) from
`MinisocketAssumption` only: any amount of data on either side, any MAX_TRIES,
any number of losses and repetitions, either `wait`. The invariant follows the
packets under way from one side to the other (`Chan`): their numbers never
fall, data under an older number than the sender's is older than the data the
sender is at, data under a newer number than the receiver's ack is newer than
all the receiver has, and the data that is about to get a new number
(`tries = 0`) has never been sent. One lemma per operation on the packets (send,
drop, repeat, accept) and on the numbers says that `Chan` survives; the actions
are instances of them. That packets are not reordered is part of the model.

A second invariant (`SInv`) uses the first, for `MinisocketTyping` (TypeOK),
`OnePacketAhead` (WindowOfOne) and `HandshakesAgree` (HandshakeAgrees). It bounds the
counters of a side by the step its thread is at (`Side`: tries grows by one for each
attempt and is not reset when a send fails, so its bound grows with the
fragments), says that no packet carries a number that its sender has not reached
(`Sound`), that a side is past the handshake only if the other has had a packet of
it (`Met`), and that the sender which goes on without an error has been answered
(`Paced`: the difference of the numbers is one while it waits and zero when it is
about to count). The last holds while the peer has not begun to send: a packet of
the peer under a new number wakes the sender as an acknowledgement does, with
data or without. An earlier form of WindowOfOne asked only that the sender had
buffered no data, which TLC refutes when both sides send and one packet is lost.

`MinirouteProofs` proves the five invariants of the run `route_cache` for every
finite set of threads and of places for entries, any set of destinations, any
SIZE_OF_ROUTE_CACHE, MAX_RETRIES and MaxSpare (assumption `MinirouteAssumption`
only): `RouteCacheTyping` (TypeOK),
`TimersCoverEntries` (EntriesAreTimed), `AnswerEndsDiscovery` (AnswerStopsRetries),
`NoDanglingNode` (CacheNeverDangles) and `NoWaiterForgotten` (WaitersAreWoken).
None is inductive. EntriesAreTimed and AnswerStopsRetries need that an entry is
in one call of `rebroadcast` at a time, and that `alarm_id` names the retry while the
route is being discovered (`RetriesOf`, `TimedOf`); that the counters stay in their
bounds needs the relation between `routing_id` and `retry_count` at each step of that
call. CacheNeverDangles needs that destinations are not shared (`Cached`), for the
removal goes by destination. WaitersAreWoken needs the queues of the semaphores
(`Queued`: a queued thread is blocked at that entry, once, without a unit), the
count of waiting threads being exact (`CountOf`), so that the test before each V is
right, and the property from the moment a thread has counted itself (`WokenOf`).
Each part has lemmas that say which steps leave it alone, and each action a lemma
that it keeps the whole.

Only model-checked: liveness (`RouteIsFound`, `ReadyEventuallyRuns`,
`SleepEndsUnlessJammed`, `ImplementsFairSemaphores`), since the prover has no rules
for fairness. All other properties of the passing runs are theorems.

## 5. Where code and comments disagree

Shown by a run:

* `minithread.h:106-107` ("atomically release ... and block") against
  `synch.c:76` and `minithread.c:275-281`: run `synch_lost`.
* `minisocket.c:524-526` ("should block until the remote host has ACKnowledged
  receipt ... buffered") against `minisocket.c:561`, which calls the C library's
  `wait` and not `waiT` of line 142: run `minisocket_send`. With `waiT` the run
  still fails (`wait_blocks` in the model): a packet refused between lines 558
  and 560 is answered under the new seq, the peer takes the answer for the next
  packet, and refuses the data that carries that number; the sender takes the
  refusal for the acknowledgement.

Read from the code, without a run:

* A handler's V between the SLEEPING status and the yield of an unmasked P (as
  in `listen_wait`) leaves two ready entries for one thread.
* `minithread_fork` appends (`multilevel_queue.c:59`) and only then counts
  (`scheduler.c:54`) with interrupts enabled, so a preempted fork leaves entries
  that dispatch, trusting `size`, does not look for. `SizeAccounting` bounds how
  long: the gap is exactly the forks in progress.
* `queue_prepend` (`queue.c:60`) assigns `head` before it tests it: on an empty
  queue it fails the assertion of line 71, on any other it loses the list.
  `queue_delete` (`queue.c:203-235`) unlinks the wrong node at the tail. The one
  caller of either outside the tests is `minisocket_receive`, for an item that
  does not fit into the message.
* An expired alarm that the alarm thread has not taken hides the later ones from
  `trigger_alarm` (`minithread.c:395`), whose sleepers sleep for ever
  (`SleepEndsUnlessJammed` names the condition). Deregistering a due alarm leaves
  its signal, and the alarm thread may then dequeue from an empty queue; the
  assertion of `minithread.c:410` compares with 1 and not with the -1 of
  `queue.h:39`.
* `minimsg_receive` skips the routing header where it takes the message
  (`minimsg.c:263-264`) and not where it takes the sender's port (266): it reads
  within the routing header, and the bound port it makes for the answer is one to
  the wrong number. Headers are outside the models.
* Two threads that create bound ports at the same time can get one number:
  `minimsg.c:157` finds it and 171 enters it (`PortNumbersDistinctUnlessRaced`).
* `miniroute.h:38-39` says that a call that finds no route runs the discovery.
  After a discovery has failed its creator leaves the entry with flag 2
  (`miniroute.c:379-382`), and the next call fails at once (408-420).
* `miniroute.h:41-42` says that "Multiple concurrent calls to route a packet to the
  same destination on a cold cache should generate only one broadcast discovery
  packet for this destination". The table is read and the entry put into it with
  interrupts enabled (`miniroute.c:351-366`), so two calls may both miss and both
  broadcast. The model has these behaviours and marks them (`doubled`); no property
  promises a single broadcast.

Behaviours of the network code that the models contain, and that a maintainer
should know:

* *Route cache.* Two calls that miss together create two entries and broadcast
  twice (`doubled`), and the removal by destination then frees one and takes the
  node of the other. A thread that reads flag 0 and counts itself after the
  answer is not woken by it (`late`). An answer between the retry alarm and its
  registration leaves a retry for an answered entry (`overtaken`), which fires
  when the entry has been evicted. `cache_evict` frees an entry that threads may
  still use. The reply to the last broadcast is refused, as retry_count is 3 by
  then (`miniroute.c:213`). With the table full the entry is in no table: no reply
  finds it. `miniroute_helper` returns at line 231 with interrupts disabled, which
  its caller repairs.
* *Routes.* The destination of a route of MAX_ROUTE_LENGTH hops writes beyond
  `path` (`miniroute.c:155`); the model assumes there is none (`RoutesFit`). A
  packet that was forwarded is padded to the maximum size (line 292), so beyond
  one hop no acknowledgement counts as empty at `minisocket.c:198`.
* *Sockets.* Every ACK in CONNECTED is buffered and acknowledged, so that empty
  ones go back and forth and wake senders. Data wakes a sender as its
  acknowledgement does. An answer before `waiT` has queued its argument is lost
  to it until the timeout. A FIN goes out under a seq the peer has seen, is
  refused, and the refusal is taken for its acknowledgement: the peer never
  learns of the close. A server that is back in LISTENING keeps ack = 1 and
  refuses the next SYN. A SYN before `listen_wait` is a V on NULL. tries is not
  reset when a send fails, so every later timeout is longer (`1 << tries`) and
  seq is not counted up; the failed call returns the bytes sent and not -1.
* *Ports of sockets.* Client ports are never given back at close, the error path
  gives back the remote one (line 512), and the test for -1 at line 466 is never
  true. The error path of the server leaves interrupts disabled (432), and
  `minisocket_free` passes an uninitialised level (291).
* *The handler* answers through `miniroute_send_pkt`, which blocks the thread it
  interrupted if the route has to be discovered.

Holds in spite of appearances: the level check `level > number_of_levels` of
`multilevel_queue.c:46` is off by one, but no priority reaches it
(`SchedTypeOK`); the special cases of `queue_delete_by_predicate` are right
(`WellFormed`); a freed thread is never referred to again
(`ReapedIsUnreachable`), although a thread preempted in `finalproc` may never
be reaped; the untested ttl of `forward_packet` never wraps (`PacketsOnCourse`);
removals open no gap in the hash table (`ImplementsStore`); every broadcast of
an unanswered entry has its retry (`EntriesAreTimed`); whatever is refused,
repeated or confirmed too early, what a socket buffers is in order and once
(`InOrderAtMostOnce`).

## 6. Not modelled

* The file system (stubs), the shell (parsing), the header packing (no state),
  `disk_handler` (does nothing), the test programs.
* `queue_prepend`, `queue_delete`: they break the list, and nothing that works
  depends on them. `queue_free`, `queue_iterate`, `hashtable_size`: no change of
  state that another call sees.
* A fork preempted within `queue_append`: it needs the list of `LinkedQueue` at
  the grain of one assignment under `Scheduler`.
* The blocking of a handler in `retrieve_route`: the composition of
  `Minisocket`, `Miniroute` and `Dispatcher` is beyond TLC's reach at a size that
  says anything.
* In `Minisocket`: more than one client, the pool of client ports, reordering of
  packets, an item received in part, alarms left over from a socket freed in
  error.
* In `RouteDiscovery`: routes of MAX_ROUTE_LENGTH hops, and links that change.
* In `Miniroute`: sending to oneself, which asks for no route.
