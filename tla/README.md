# Verification of the retrofitted PostgreSQL 12.5

TLA+ models of the parts of this PostgreSQL tree on which concurrent backends
depend, TLC configurations that check them on small instances, and TLAPS proofs
for instances of any size. All paths below are relative to
`src/postgresql-12.5/src/`.

The tree has some 5600 source files, most of them sequential code, I/O or
generated. The models cover a small part of it, chosen from the bottom up: the
synchronisation primitives in shared memory, their most delicate clients
(running transactions and snapshots, invalidation messages, message queues), and
the data type that this repository adds to the tutorial.

## 1. Inventory

### Modelled parts

| part | source | state | operations |
|---|---|---|---|
| lightweight locks | `backend/storage/lmgr/lwlock.c` | one atomic word per lock (count, HAS_WAITERS, RELEASE_OK, LOCKED), wait list, a variable; per backend `lwWaiting`, `lwWaitMode`, semaphore, `held_lwlocks` | acquire, conditional acquire, acquire-or-wait, wait-for-var, update-var, release, release-clear-var, release-all, wakeup |
| condition variables | `backend/storage/lmgr/condition_variable.c` | wait list per variable, `cv_sleep_target`, latch | prepare, sleep, cancel, signal, broadcast |
| barriers | `backend/storage/ipc/barrier.c` | participants, arrived, phase, elected, static_party | init, arrive-and-wait, attach, detach, arrive-and-detach |
| running transactions and snapshots | `backend/storage/ipc/procarray.c`, `backend/access/transam/varsup.c` | next and latest completed id; per backend xid, xmin, group link | get a new id, take a snapshot, end a transaction, group XID clearing |
| shared invalidation messages | `backend/storage/ipc/sinvaladt.c`, `sinval.c` | ring of messages, `minMsgNum`, `maxMsgNum`; per slot position, reset, signaled and hasMessages flags; the receiver's static buffer | join, leave, insert, get, clean up, receive (recursively), catchup interrupt |
| shared message queues | `backend/storage/ipc/shm_mq.c` | ring of bytes, bytes read and written, detached; per side its handle and the state of an unfinished call | attach, send, receive, wait, detach |
| intset | `tutorial/intset.c` | sorted arrays of unsigned numbers | text and binary input and output, six questions, four operations |

How they interact. LWLock is at the bottom and uses one semaphore per process,
which other subsystems use too. ProcArray takes two lightweight locks and uses
the same semaphore for group XID clearing; SInval takes two lightweight locks.
Barrier is built on one condition variable, and a condition variable on the
process latch, which anybody may set; ShmMq uses the latch directly. Intset is
sequential and depends on none of them.

What is hard in them: a lock released between a failed attempt and the entry
in the wait list; wakeups that arrive late, or for somebody else; processes that
queue again at once after being woken; links that are used for two purposes;
ids that are assigned while a snapshot is being taken; rings that one side fills
while the other still reads; flags tested without a lock; counters that are
decremented under their readers; unsigned arithmetic at its limits.
`PROJECT.json` lists these hazards with their lines and the properties that would
catch them.

### Parts not modelled

`PROJECT.json` names every part with a reason. In short:

* planned (section 7): latches, heavyweight locks and deadlock detection, the
  buffer manager, WAL insertion and flush, parallel execution, predicate locks;
* `backend/executor/nodeHash.c` and `nodeHashjoin.c`, the retrofit to a symmetric
  hash join, are unfinished: `MultiExecPrivateHash` raises an error for every call
  (`nodeHash.c:117`) although the join still executes the Hash node that way
  (`nodeHashjoin.c:291`), and `nodeHashjoin.c` uses the field `hj_HashTable`, which
  `include/nodes/execnodes.h:1950` has commented out. There is no join whose
  behaviour could be modelled yet;
* spinlocks, atomics and the hardware's memory order are taken as atomic steps;
* parser, planner, executor, catalogs, languages and client programs are
  sequential code over large data; files, network and terminals are I/O.

Within the modelled parts the following is left out. LWLock: tranches, memory
sizing, statistics. Condition variables: death of the postmaster, which ends the
process. Barriers: interrupts while waiting, which abort the whole parallel
operation. ProcArray: subtransactions, recovery, imported snapshots, replication
slots, vacuum flags, `SnapshotResetXmin`, wrap-around of ids, two-phase commit.
SInval: local transaction ids and `BackendIdGetProc`, which only read the slots.
ShmMq: gathering a message from several pieces, the size limit,
`shm_mq_wait_for_attach`. Intset: the size of the output buffer, sorting of seven
and more elements, and binary parameters of a prepared statement: `intset_recv`
passes its `StringInfo` to `PG_DETOAST_DATUM`, which leaves it alone for the aligned
buffer of `COPY BINARY`, the case that is modelled.

## 2. Modules

| module | what it is |
|---|---|
| `LWLock` | `lwlock.c`, one step per atomic operation |
| `RWLock` | what a lightweight lock promises: an abstract reader-writer lock |
| `LWLockAbstract` | the mapping from `LWLock` to `RWLock` |
| `ConditionVariable` | `condition_variable.c` |
| `Barrier` | `barrier.c`, composed with `ConditionVariable` |
| `ProcArray` | ids, snapshots and group XID clearing |
| `SInval` | `sinvaladt.c` and `sinval.c` |
| `InvalLog` | what they promise: a log that everybody follows or is told to start over |
| `ShmMq` | `shm_mq.c` |
| `MsgQueue` | what it promises: a queue of whole messages |
| `IntSet` | `intset.c` on arrays |
| `IntSets` | what intset promises: operations on sets |
| `IntSetText` | the grammar that the scanning loop of `intset_in` is compared with |
| `MCLWLock`, `MCConditionVariable`, `MCProcArray`, `MCIntSet` | instances for TLC |
| `LWLockProofs`, `LWLockListProofs` | theorems about `LWLock`: words and owners; wait lists |
| `BarrierProofs` | theorems about `ConditionVariable` and `Barrier` |
| `ProcArrayGroupProofs`, `ProcArrayProofs` | theorems about group XID clearing and about snapshots |
| `SInvalFacts`, `SInvalProofs` | invariant and effects of the steps of `SInval`; theorems |
| `ShmMqProofs` | theorems about `ShmMq` |

A definition named "mutant" in a comment is a deliberately wrong variant of the
definition after it. `PROJECT.json` says which property each one breaks; each
property of a passing run has one that TLC finds to violate it.

### LWLock

`pc[p]` is the next atomic step of backend `p`, `call[p]` the routine and its
arguments. The word of a lock is four variables, of which one step may change
several, as one atomic instruction does. A compare-and-exchange loop is its
successful iteration; the wait-list bit lock is taken and released explicitly.
`AttemptLock`, the queueing steps, `Sleep`, `Retry` and the dequeueing steps follow
the order of `LWLockAcquire`; the same steps serve `LWLockAcquireOrWait` and
`LWLockConditionalAcquire` where the code is the same. `held_lwlocks` is a
function instead of an array, so `LWLockReleaseAll` may release in any order. For
each waiter, the loop at the end of `LWLockWakeup` and `LWLockUpdateVar` takes three
steps: unlink it, clear `lwWaiting`, signal its semaphore. `wakeup` keeps the waiter
at its head until the last of them. `LWLockDequeueSelf` walks the list and clears
`lwWaiting` in one step, since the list is locked and nobody else reads the flag of
a backend that is awake.

Callers take locks in ascending order, since avoiding deadlock is left to them
(a conditional acquisition may be out of order), and may fail with an error at any time
(`RaiseError`), which releases all locks. A variable is cleared to the value it
had at first, as `WALInsertLockRelease` does. `foreign` counts the signals that
other users of the semaphore have sent.

### ConditionVariable and Barrier

Each spinlock section and each latch operation is a step. A process is inside
one routine at a time; `cvpc = "out"` hands control back to the caller, so
`Barrier` adds its own steps there and uses the real condition-variable steps
rather than an abstraction of them. The latch may be set by anyone
(`ForeignSetLatch`). `owed`, `winners` and `lost` are history variables: they
occur in no guard.

### ProcArray

`ProcArrayLock` and `XidGenLock` are lock holders in the sense of `RWLock`, which
is what theorem `Implements` entitles a client to assume. Each access to shared
memory that no lock protects is a step: storing a new id, reading an entry's
xmin, reading its xid, each step of the group list. Entries are visited in any
order. Steps that touch only what nobody else can touch at the time are merged
with their neighbours: for instance, a follower's semaphore wait and its test of
`procArrayGroupMember`, since in between others can only add signals.
The errors of `GetNewTransactionId` change nothing and are stutters.

A backend keeps its last snapshot until the transaction ends. `ended`, `horizon`
and the fields `seen` and `own` of a snapshot are history.

### SInval

The two locks are lock holders as in ProcArray. What is done with both held, or
by the writer to what only writers touch, is one step; the writer's stores, its
publishing of `maxMsgNum`, its setting of the flags, and a reader's test of its
flag, its read of `maxMsgNum` and its copying of messages are steps of their own,
since they run at the same time. A message is its place in the sequence of all
messages ever sent; `total`, `complete`, `seen` and `resets` are history. `frames`
is the stack of running calls of `ReceiveSharedInvalidMessages`, whose static
buffer they share. A cleanup that has to signal a backend lets go of its locks,
sends and takes them again, as in the code. A callback may call the routine again
(`Recurse`) or fail (`CallbackError`), which leaves all running calls, while what was
fetched and not passed on stays in the buffer. A message counts as seen when it is
passed to `invalFunction`; a reset counts when `SIGetDataEntries` returns it, since
only a debug message and a counter lie between that and `resetFunction`.

### ShmMq

The unit is one aligned word: the length word of a message takes one, its payload is
counted in words, and a word of the ring holds the message and the index it belongs
to. Every read of what the other side writes is a step, but for two: one round of
`shm_mq_wait_internal` reads `mq_detached`, the other side's process and the state
of the worker, and `shm_mq_counterparty_gone` the first and the last of these. They
only ever change one way, so each outcome is that of one moment. A store and the
`SetLatch` that follows it are one step, since latches may be set at any time anyway
(`ForeignSetLatch`). After `SHM_MQ_WOULD_BLOCK` a caller waits for its latch, resets
it and repeats the call, as the comments ask for. `msgs`, `begin`, `complete` and
`received` are history.

### IntSet

An intset is its stored cardinality and its array; numbers have `Width` bits and
arithmetic wraps. Counting pass and filling pass of the operations are separate,
as in the code. Input texts are written with a digit count of their own
(`Written`), so that `RoundTrip` does not test `intset_out` against itself. `Commas`
are the ways in which a client writes a comma, with or without white space.
`nreserve_slot` counts the slots of the input buffer; a scan that stores more has the
outcome `Overrun`, since what the store hits is up to the allocator. A message that
ends too early has the outcome `ProtocolError`.

## 3. Runs

Run `tlc -config X.cfg M`. Times are for two workers, two runs at a time and
coverage on.

| run | cfg / module | instance | distinct states | time |
|---|---|---|---|---|
| lwlock_all | LWLockAll / MCLWLock | 3 backends, 1 lock, both modes and acquire-or-wait | 323 496 | 110 s |
| lwlock_live | LWLockLive / MCLWLock | 2 backends, both modes, conditional, a variable, foreign signals, fairness | 189 468 | 77 s |
| lwlock_or_wait | LWLockOrWait / MCLWLock | violation, section 5 | | 14 s |
| condition_variable | ConditionVariable / MCConditionVariable | 3 processes, 2 variables, fairness | 225 294 | 105 s |
| barrier | Barrier / Barrier | 3 processes, 2 phases, fairness | 311 500 | 134 s |
| procarray_snapshots | ProcArray / MCProcArray | 3 backends, 2 readers, 3 ids | 1 369 712 | 138 s |
| procarray_group | ProcArrayGroup / MCProcArray | 3 backends, 5 ids, stray signals, fairness | 435 812 | 135 s |
| sinval | SInval / SInval | 2 processes, ring of 2, 3 messages, calls nested twice, failing callbacks, fairness | 124 557 | 128 s |
| shm_mq | ShmMq / ShmMq | ring of 4, 2 messages of 0, 3 or 5 words, fairness | 437 335 | 133 s |
| intset_ops | IntSet / MCIntSet | 2 variables, lists of up to 3 of 4 numbers; texts of up to 6 of 7 characters | 10 023 | 132 s |
| intset_reserve | IntSetReserve / MCIntSet | violation, section 5 | | 3 s |
| intset_wide | IntSetWide / MCIntSet | violation, section 5 | | 3 s |

### What they show

**LWLock.** `MutualExclusion` and `WordMatchesOwners`: owners exclude each other and
the word is their exact sum. `WaitListsIntact`: a backend is on one list at most,
exactly while `lwWaiting` says so, also between the steps of a waker.
`WaitersAnnounced`: a nonempty list is announced in the word. `WakeupPending`: when
a lock is free and somebody sleeps on it, somebody else is about to look at it.
`SemaphoreBalance`: no signal of another subsystem is lost or left over.
`VarSleeperCovered`: nobody sleeps in `LWLockWaitForVar` on a value that has gone,
unless it is off the list and being woken, or the lock is being released.
`NoSleepOnFreeLock` and `VarChangeSeen` are the corresponding liveness properties.
`ImplementsRWLock`: the code refines the abstract lock.

**Condition variables.** `LinkOnce`: one link per process is enough.
`SignalNotLost`: a process taken off the list finds its latch set.
`BroadcastWakesAll`: a broadcast reaches everybody listed when it began, even if
others remove its sentinel. `BroadcastEnds`: every call but a sleep returns.

**Barriers.** `BarrierTypeOK` includes that `participants` and `arrived` count
the attached and the waiting processes. `PhaseInStep`: nobody is overtaken, which
also justifies the unlocked read in `BarrierPhase`. `OneElected`: one process at
most is elected per phase, and nobody is told it lost unless somebody won.
`Released`: every waiter of an ended phase is woken and returns.

**ProcArray.** `SnapshotExact`: the transactions a snapshot treats as finished
are exactly those that had ended when it was begun. `ActiveAdvertised`: every
active id up to the latest completed one is in the array (the claim in
`varsup.c:189`). `HorizonSafe`: no `RecentGlobalXmin` is ever newer than an
advertised xmin, and each snapshot is covered by one. `GroupIntact`: the group
list has exactly one leader and no id is cleared twice. `FollowerServed`: a
backend goes on only when its id has been cleared, and no follower waits for a
leader that is not there. `FollowerReturns`: once cleared, a follower returns.

**SInval.** `UnreadIntact`: what a backend has not read is in the ring, in order,
whatever writers, cleanups and wrap-arounds do, or the backend is in reset state.
`UnreadFlagged`: the test of `hasMessages` without a lock misses nothing.
`ReceiveComplete`: a receive that is about to return, also from a recursive call,
has dealt with everything whose insertion was over when it was entered.
`CallsReturn`: every call ends, an insertion although readers never read.
`IdleCatchesUp`: an idle backend that `SICleanupQueue` has picked is sent the signal,
gets it and catches up, also when a callback fails on the way. It is not
stated for every signaled backend, because it would not hold: a backend past its
last `SIGetDataEntries` that gets the signal before `sinval.c:137` resets
`catchupInterruptPending` and takes it for one it has dealt with, so `signaled`
stays set until the backend reads again or is reset. `ImplementsLog`: the
whole refines `InvalLog`.

**ShmMq.** `RingIntact`: neither side runs past the other, also with counters
read earlier, and what has not been given back is what was sent.
`ReturnedIntact`: a message returned as a pointer keeps its bytes until the next
call. `NoMutualWait`: the two sides never wait for each other for good.
`CallReturns`: a receive ends when a message is there or the sender has left, a
send when the receiver has left.
`ImplementsQueue`: the whole refines `MsgQueue`; in particular the receiver
learns that the sender has gone only after it has received everything.

**IntSet.** `Canonical`: arrays are strictly increasing and as long as was
counted. `RoundTrip`: output reads back, and the digit count is right at and next to
every power of ten. `ImplementsSets`: every call does to sets of numbers what its
name says. `ScansGrammar`: the scanner accepts exactly the grammar and yields exactly
the numbers of the text, in the slots it has counted, unless a comma has white space
in front of it.

Liveness properties of the form "what has begun ends", `P ~> ~P`, are written
`[]<>~P`, which means the same.

## 4. Bounds and fairness

* Three processes are the fewest for the races here: one that releases or wakes,
  one that comes in between, and one that suffers from it. `lwlock_live` has two
  backends, to afford signals and a variable under fairness; there, the one that
  releases may also be the one that comes in between, by acquiring again. Several
  waiters for one variable are covered by theorem `SleepersCovered`.
* `LW_VAL_EXCLUSIVE` is 4, just above the number of backends, so the largest
  count of shared holders is next to the exclusive bit. With one
  lock, nesting and the error for too many locks (`MAX_SIMUL_LWLOCKS`) do not
  arise; the proofs cover any number of locks and any limit.
* `MaxForeign` bounds outstanding signals of other subsystems, or latch settings
  by others; one is enough for a process to wake up for nothing.
* `MaxPhase` of 2 lets early risers reach the phase after next while a slow
  waiter still sleeps. A fixed party stops at the bound, hence no deadlock check.
  Other code sets the latch of one process only (`Latched`); with all three and
  the same bounds the instance has 685 thousand states and also passes.
* `MaxXid` of 3 lets ids end out of order while another is assigned. For a backend
  that was a follower to join a group again, it takes 5: the follower, its leader and
  the holder of the lock that made them queue, then the follower's next id and that
  of the backend that holds the lock this time. Two readers take snapshots at the same
  time; with all three as readers and the same bounds the instance has 8.5
  million states and also passes. `procarray_group` has no readers: a backend that
  clears its own id under the lock is enough to make others form a group.
* `sinval`: a ring of two messages that also wraps its counters at two, so that a
  third message overwrites, resets or decrements; one process sends, both receive,
  and the callbacks of one call the routine again, to a depth of two (`Nested`,
  `MaxDepth`). With one sender, nobody is in between when a writer has waited for
  the lock and looks at the ring again; that any number of senders leave unread
  messages alone is theorem `UnreadMessagesIntact`. Processes come and go once, and
  messages are bounded (`MaxTotal`), hence no deadlock check.
* `shm_mq`: a ring of four words is shorter than a message of five with its
  length word, so that sending and receiving take several turns, and just as long as
  one of three with its length word. A message of no bytes is a length word alone;
  behind it, the next one wraps around the end. Either side may stop for good, hence
  no deadlock check.
* `Width` is 12 and the numbers of `intset_ops` are at the edge of a digit
  count and at half of the unsigned range, the largest distance at which the
  comparison is right. The table of powers of ten is examined by `RoundTrip` on its
  own, at all ten powers and next to them. The texts of `ScansGrammar` include
  `{9999}`, which wraps. In `intset_ops` white space follows commas and never precedes
  them, which `intset_reserve` is about.
* Symmetry is used in safety runs only.

Fairness is weak fairness of the steps inside the routines: the operating system
runs a process that can run, and a process does not stop in the middle of a
routine; signals between processes are delivered, an idle backend reacts to an
interrupt, and a caller that was told `SHM_MQ_WOULD_BLOCK` calls again once its
latch is set. Nothing else is assumed of callers: nobody has to release a lock,
arrive at a barrier, end a transaction, send or receive. Lightweight locks are
not starvation-free, so no property says that an acquisition, in particular the
group leader's, eventually succeeds.

## 5. Findings

* **`LWLockAcquireOrWait`** (`lwlock_or_wait`, documentation). Its comment says
  it "waits until it is released and returns false". It may return false although
  the lock has not been released since its first attempt failed: the late
  wakeup of an earlier release takes it off the list while the next holder still
  holds the lock. Its caller, `XLogFlush`, checks again in a loop, so this is a
  matter of the comment.
* **`intset_in`** (`intset_reserve`, code). The buffer for the numbers has one slot per
  comma and one more, "to hold all the input elements" (`intset.c:86`). White space
  after a number stores it, and a comma after the white space stores it again, so
  that a text with white space in front of a comma is stored past the buffer. The
  test at `tutorial/intset_test.source:19` reads such a text. Apart from the buffer
  the scan is right, since duplicates are removed later: `ScansGrammar` shows that the
  numbers are those of the text in this case too.
* **`eintset_cmp`** (`intset_wide`, code). The unsigned difference of two numbers
  is returned as a signed one. Numbers that are 2^31 or more apart are sorted the
  wrong way round, against "a sorted (non-decreasing) array" (`intset.c:31`).
  `intset_ops` shows that the type is right within half of the range, for texts
  without white space in front of a comma.

## 6. Proofs

Run `tlapm M.tla` for the eight proof modules; each takes five to twenty-five
minutes from nothing. The theorems hold for every value of the constants that satisfies
the assumptions, which are named in the modules that declare the constants:

* `LWLockAssumption`: a finite set of backends, any set of locks, any calls, and
  an `LW_VAL_EXCLUSIVE` greater than the number of backends, as the comment at
  `lwlock.c:107` demands;
* `CVAssumption`, `BarrierAssumption`: `NULL` is no process; for the counts of a
  barrier, a finite set of processes; any bound on the phases;
* `ProcArrayAssumption`: `NULL` is no process; any number of backends and ids;
* `SInvalAssumption`: sizes and quanta are positive, the counters wrap at a multiple
  of the ring size (`sinvaladt.c:114`), and a batch fits into the ring, as it does
  with the values at `sinvaladt.c:131`; any processes, slots and depth of recursion;
* `ShmMqAssumption`: a ring of at least one word; any message lengths.

| theorem | states |
|---|---|
| `LWLockProofs!TypeCorrect` | `Spec => []TypeOK` |
| `LWLockProofs!Exclusion` | `Spec => []MutualExclusion` |
| `LWLockProofs!WordExact` | `Spec => []WordMatchesOwners` |
| `LWLockProofs!ListProtocol` | `Spec => [](WaitersAnnounced /\ ListExclusion)` |
| `LWLockProofs!Implements` | `Spec => ImplementsRWLock` |
| `LWLockListProofs!ListsIntact` | `Spec => []WaitListsIntact` |
| `LWLockListProofs!SleepersCovered` | `Spec => []VarSleeperCovered` |
| `BarrierProofs!LinkUsedOnce` | `CVSpec => []LinkOnce` |
| `BarrierProofs!NoLostSignal` | `CVSpec => []SignalNotLost` |
| `BarrierProofs!BroadcastComplete` | `CVSpec => []BroadcastWakesAll` |
| `BarrierProofs!BarrierCounts` | `BarrierSpec => []BarrierTypeOK` |
| `BarrierProofs!BarrierInStep` | `BarrierSpec => []PhaseInStep` |
| `BarrierProofs!BarrierElection` | `BarrierSpec => []OneElected` |
| `BarrierProofs!BarrierUsesCV` | a barrier keeps the three properties of its condition variable |
| `ProcArrayGroupProofs!GroupProtocol` | `Spec => []GroupIntact` |
| `ProcArrayProofs!SnapshotsExact` | `Spec => []SnapshotExact` |
| `ProcArrayProofs!RunningAdvertised` | `Spec => []ActiveAdvertised` |
| `ProcArrayProofs!HorizonsSafe` | `Spec => []HorizonSafe` |
| `SInvalProofs!UnreadMessagesIntact` | `Spec => []UnreadIntact` |
| `SInvalProofs!FlagsSuffice` | `Spec => []UnreadFlagged` |
| `SInvalProofs!ReceiveIsComplete` | `Spec => []ReceiveComplete` |
| `SInvalProofs!ImplementsInvalLog` | `Spec => ImplementsLog` |
| `ShmMqProofs!RingSafe` | `Spec => []RingIntact` |
| `ShmMqProofs!ReturnedSafe` | `Spec => []ReturnedIntact` |
| `ShmMqProofs!QueueImplemented` | `Spec => ImplementsQueue` |

### The arguments

**LWLock.** The inductive invariant `IInv` is needed because neither types nor
exclusion are inductive: a release subtracts from the count, which stays a
natural number only if the holder has been counted. Besides `TypeOK` it has
`CallShape`, which routine a backend is in given the step it is at, and
`WordShape`, the two forms of a word: no exclusive owner and one count per shared
owner, or a single exclusive owner and a count of `LW_VAL_EXCLUSIVE`. Every step
is reduced to one of three effects on ownership: none, one owner added, one
removed. The same three are a stutter, an `Acquire` and a `Release` of `RWLock`.
`ListProtocol` needs `ListInv` besides: two backends are never inside sections on
the same list (`ListExclusion`), a backend about to push has set the flag
(`PushAnnounced`), and a scan that has woken somebody has a nonempty wakeup list
(`ScanProgress`).

`ListsIntact` needs `LinkInv`: at which steps a backend may be on a list or have one
of its own (`QueuedShape`); who is on a wait list is queued, waits for this lock and
has `lwWaiting` set (`Listed`); the same holds for those whose flag a waker has not
cleared yet, who are on no wait list and in no other waker's list (`Woken`); and
`lwWaiting` is set for nobody else (`WaitingListed`). `SleepersCovered` needs `VarInv`
besides: waiters for a value come first in a list (`FreeFirst`), so that
`LWLockUpdateVar` may stop at the first other one; RELEASE_OK is set while one of them
is listed (`ReleaseAllowed`), so that a release does look; a scan that has found
another one has passed them all (`FreeTaken`); and who clears a variable holds the
lock (`ClearingHolds`). A backend that sleeps on a value that has gone then has
somebody releasing its lock (`StaleCovered`).

**Condition variables.** `CVInv`: what a process is prepared for at each of its
steps (`Phase`); a listed process is there as a sleeper or as a sentinel
(`Placed`), once (`Once`); whoever a broadcast still owes a wakeup is listed in
front of its sentinel (`Ahead`), so that nobody can remove the sentinel, which
would end the broadcast, before all those have been removed.

**Barriers.** `BInv`: `participants` and `arrived` are the cardinalities of the
attached and the waiting processes; where each process stands relative to the
phase (`InStep`); the election of the current phase (`Election`). When an
arriving process finds `arrived = participants - 1`, counting says that all
others wait, so nobody is still leaving the previous phase and it may advance.

**Group XID clearing.** `GroupInv`. What following links leads to cannot be
defined without recursion, so the invariant says that the members can be assigned
to leaders (`own`) and numbered (`rank`) such that every link leads to the next
number of the same list and the ids still to be cleared are those from the
leader's position on. The numbering is a bound variable of the invariant; every
step of a leader or a member keeps it or names the next one.

**Snapshots.** `SnapInv` accounts for every assigned id (`Assigned`): it has
ended, is advertised, or belongs to the holder of `XidGenLock`, and then it is
newer than whatever has completed. A scan in progress has seen what it would see
now (`Scan`), since nothing ends while `ProcArrayLock` is shared. An xmin that a
concurrent scan has missed is current (`Current`): the oldest running id or
`latestCompletedXid + 1`, hence not older than what the scan finds.

**SInval.** `SIInv`: slots and living processes belong to each other (`SlotInv`);
between `minMsgNum` and `maxMsgNum` the ring holds the messages in order,
whatever the counters were decremented by, and so does what a writer has stored
and not published (`RingInv`); a backend that is not in reset state stands where
what it has dealt with and fetched ends, and its flag is set when insertions it
has not read are over (`Position`, `Fetched`); the maximum a reader has read is
not out of date before it releases `SInvalReadLock` (`ReadInv`); the running
calls expect no more than the innermost one (`Calling`). Cleanup is reduced to
one effect: `minMsgNum` moves up to the first message somebody needs, laggards
are reset, all counters drop by whole rings. For the refinement, a send is a
`Send` of `InvalLog`, a call of `invalFunction` a `Deliver`, the discarding of all
caches a `Reset`, and everything else a stutter.

**ShmMq.** `IInv` is `TypeOK` and `RingIntact` with `SendShape`, where the messages
lie in the stream of words, `RecvShape`, which word the receiver is at,
`HeldShape`, that a returned message has not been given back, and `EndShape`, who
has left and who knows. They need each other: that the receiver reads a length
word where it expects one follows from its place, its place from the lengths it
has read, and that these are right from the ring. `EndShape` also carries what a side
has found over the reads that follow: that a receiver which looks a second time has
seen the sender gone. Every step is a move of one
side that leaves the other side's state alone (`Move`), so each part has to be
proved for few steps.

### What is only model-checked

* All liveness: `NoSleepOnFreeLock`, `VarChangeSeen`, `BroadcastEnds`, `Released`,
  `FollowerReturns`, `CallsReturn`, `IdleCatchesUp`, `NoMutualWait`, `CallReturns`.
  Weak fairness is defined by ENABLED, which the prover does not handle.
* `WakeupPending` and `SemaphoreBalance` of LWLock. They need, besides the invariants
  on the lists, one on the signals under way and on who will look at a free lock,
  which is not worked out.
* `FollowerServed`: it speaks of what is reachable over the links (`Chain`), a
  recursive function; `GroupProtocol` has the same content in terms of numbers.
* `Canonical`, `RoundTrip`, `ScansGrammar` and `ImplementsSets` of IntSet: what the
  recursive functions compute for all inputs would need induction over data,
  which the prover lacks.
* The three findings, which are counterexamples.

## 7. Plan

In this order:

1. LWLock: proofs of `SemaphoreBalance` and `WakeupPending` from the invariants on the
   lists.
2. ProcArray: subtransactions (`nxids`, overflow), `GetOldestXmin`, comparison
   modulo 2^32.
3. An abstract barrier that `Barrier` refines.
4. `tqueue.c` and `nodeGather.c` on `ShmMq`.
5. `lock.c`, `proc.c`, `deadlock.c`: lock tables, wait queues, and the deadlock
   check against reachability in the waits-for graph.
6. `bufmgr.c`: pins, I/O in progress, the clock sweep and cleanup locks.
7. `xlog.c`: insertion positions and flushing on the locks of `LWLock`.

Each gets safety runs with three processes, a liveness run with weak fairness
inside the routines, and an abstract specification where it has a simple one.
