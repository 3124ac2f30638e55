# LightUtils in TLA+

LightUtils is a C++ library of utilities: locks, worker threads, containers,
allocators, a networking layer and stateless helpers. This directory models the
parts of it that have behaviour, checks them with TLC on small instances, and
proves some of the results for every value of the constants with TLAPS.

File names without a directory are below `src/include/lightsky/utils`
(`generic/` holds the `*Impl.hpp` files) or `src/src` (`*.cpp`).

## Inventory of the system

| Component | State | Operations | What makes it hard / correct |
|---|---|---|---|
| RWLock (`generic/RWLockImpl.hpp`) | atomic words `mLockType`, `mShareCount` | lock, unlock, try_lock and the shared forms | Two words, no lock around them. Exclusion; failed tries leave nothing behind; progress. |
| FairRWLock (`RWLock.cpp`, `generic/RWLockImpl.hpp`) | four 16-bit fields in one word | the same | The same, and ticket order through wrapping counters; no starvation. |
| SystemRWLock* | a pthread or Win32 lock | the same | One external call per member. |
| SpinLock, Futex, SystemFutex* (`Futex.cpp`, `generic/FutexImpl.hpp`, `generic/SpinLockImpl.hpp`) | one atomic word, a back-off counter per call; a mutex for the pthread one | lock, try_lock, unlock | Sleeping and waking across a system call. Exclusion, no lost wake-up, everyone served. |
| Barrier, SystemBarrier* (`Barrier.cpp`) | a count, the number of threads | wait | The count is never reset and, in the pthread one, read before it is added to. Nobody leaves before enough came; everybody leaves then. |
| RingBuffer (`generic/RingBufferImpl.hpp`) | `mHead`, `mTail`, `mCapacity`, `mData` | push, emplace, pop, reserve, shrink_to_fit, clear, copy, move | Index arithmetic modulo 2^64 and modulo the capacity; allocation failure. FIFO order, true size. |
| WorkerPool (`generic/WorkerPoolImpl.hpp`) | a RingBuffer of tasks, two atomic flags, a counter, three locks, two condition variables, a vector of threads | push, emplace, flush, wait, clear_pending, busy_waiting, concurrency, operator=, destructor | Workers and the client interleave at every lock. Tasks run once and in order, nothing flushed is lost, calls return. |
| WorkerThread (`generic/WorkerThreadImpl.hpp`) | the same without the counter and vector | the same without concurrency | The same; assignment writes the queue without its lock. |
| LRUCache, LRU8WayCache, IndexedCache | keys, values and an order of use | query, update, query_or_update, insert, emplace, operator[], clear | The victim is the least recently used entry; a hit returns what was stored. |
| GeneralAllocator, ChunkAllocator | pools of blocks and a free list | allocate, reallocate, free | Coalescing, pruning, growth. Blocks are disjoint and none is lost. |
| Allocator wrappers (`Allocator.cpp`, `generic/AllocatorImpl.hpp`) | a budget, a lock | allocate, reallocate, free | The budget holds; calls are atomic. |
| BTree (`generic/BTreeImpl.hpp`) | nodes with two children, by the bits of a key | push, emplace, operator[], pop, clear, copy, move | A dictionary whose nodes stay reachable; what a copy copies. |
| BitSet (`BitSet.cpp`), Bits | an array of words, bits in use and reserved | set, resize, reserve, clear, logic on bits, words and sets, copy, move | Growth in place over old words; uninitialised arrays. |
| Pointer | one raw pointer | construct, move, reset, release, swap | One owner at a time, exactly one deletion; a moved or released pointer lets go. |
| NetNode, NetConnection, NetClient, NetServer | an ENet host, the last event, peers | connect, disconnect, poll, send, moves | Partial failure, events in any order. Every host and packet is given back once; peers exist; the client list is current. |
| Sort (`generic/SortImpl.hpp`) | none; a counter of finished stages shared by the threads of a call | eleven sequential sorts, four that threads call together | The result is the sorted input; threads do not touch the same elements; all return. |
| ArgParser, Argument (`ArgParser.cpp`) | options, an index per kind of name, values | set_argument and setters, parse, value | Two passes over the words that must agree. |
| Function (`generic/FunctionImpl.hpp`) | a pointer and a buffer it may point into | construct, copy, move, call, reset | Small callables inside, large ones on the heap. A call reaches what was given. |
| AlignedAllocator, MemorySource, Copy, Hash, RandomNum, Endian, StringUtils, Tuple, Time, DataResource, Resource, DynamicLib, Log, Assertions, Algorithm, Loops | none of their own, or the operating system's | | Stateless helpers, input and output. |

How they interact: WorkerPool and WorkerThread keep their tasks in a RingBuffer with room
for two that grows in push, guard it with a SpinLock, ignore what push returns and use its
`capacity()` as the order to end;
AtomicAllocator and the tests use the locks and the barrier; GeneralAllocator and
the wrappers draw from a MemorySource; Sort's parallel forms synchronise threads
through a shared atomic counter and take their temporary arrays as Pointers; BitSet
keeps its words in a Pointer; NetServer and NetClient own ENet objects. The other
parts know nothing of each other.

## Modules

| Module | Models |
|---|---|
| `SharedExclusive` | the abstract promise of a readers/writer lock |
| `RWLock` | RWLock and its lock guards |
| `FairRWLock` | FairRWLock |
| `FairRWLock_proofs` | theorems about it |
| `Futexes` | SpinLock, Futex, SystemFutexLinux, SystemFutexPThread |
| `Barrier` | Barrier, SystemBarrierPThread |
| `Synchronisation` | RWLock, the exclusive locks and the barriers, each used by the same threads; a behaviour is one of a single one |
| `Synchronisation_proofs` | theorems about them |
| `RingBuffer` | RingBuffer |
| `TaskRing` | the RingBuffer `mTasks` of both worker classes, by its indices |
| `WorkerPool` | WorkerPool |
| `WorkerThread` | WorkerThread |
| `Workers` | an object of either class and its client; what both have by one name is one variable |
| `TaskQueue` | what it means for a queue to hold its tasks in the order of their pushes |
| `CommonLemmas` | lemmas about sequences, division and least numbers, induction over places and steps, for the modules that need them |
| `Workers_proofs` | theorems about the worker classes |
| `LeastRecentlyUsed` | the abstract promise of an LRU cache: a list in the order of use |
| `LRUCache`, `LRU8WayCache`, `IndexedCache` | the caches |
| `Caches` | the three, given the same calls |
| `MemorySource` | MallocMemorySource and SystemMemorySource, as far as the allocators see them |
| `ConstrainedAllocator` | the budget of ConstrainedAllocator |
| `GeneralAllocator` | GeneralAllocator over the two |
| `GeneralAllocator_proofs` | theorems about it |
| `AllocatorWrappers` | ConstrainedAllocator with a run-time limit over BlockAllocator |
| `ChunkAllocator` | ChunkAllocator |
| `Networking` | NetClient, NetServer and their bases over ENet |
| `BTree`, `BitSet` | the containers of those names |
| `UniquePointer`, `Callable` | Pointer, Function |
| `ArgParser` | ArgParser and Argument |
| `Library` | all parts that one thread uses at a time; a behaviour is one of a single part |
| `Library_proofs` | theorems about the caches, containers, allocators and pointers among them |
| `Interfaces_proofs` | theorems about networking, functions and the argument parser |
| `Sorting` | the sequential sorts as operators on arrays |
| `ParallelSort` | calls of any sort, the parallel ones as interleaved threads |
| `ParallelSort_proofs` | that threads of a parallel sort keep off each other's elements |

Each `MCx.tla` extends module `x` and says why its bounds are enough; `MCx.cfg`
gives the constants; `MCBTree` has the trees alone. Operators named `Action_Mutation` are wrong versions of
the definition that follows them; no specification uses them. Each property of a
passing run fails when one of them takes that definition's place.

### State and steps

A step of the concurrent modules is one access of an atomic variable, one system
call, or one critical section none of whose statements blocks. `pc` is where a
thread is in the function it executes; `call` is the call it makes. Atomic accesses
are interleaved sequentially: the reorderings that acquire and release leave open are
not modelled. A caller unlocks only what it holds and takes a lock only when it
holds none, as the lock guards do.

*RWLock.* `AddShare`, `LoadLockType`, `SubShare` are the three accesses of
try_lock_shared, `CasLockType`, `LoadShareCount`, `ClearLockType` those of try_lock;
lock and lock_shared repeat them.

*FairRWLock.* The 16-bit ticket counters count modulo the constant `LockIds`.
`queue` is a history variable: who drew a ticket, in order.

*Futexes.* `kind` chooses the class. `FutexWait` compares and falls asleep in one
step and `FutexWake` wakes one sleeper, as futex(2) does; `Interrupted` is a wait
that returns for another reason; `MutexLock` is pthread_mutex_lock.

*RingBuffer.* A buffer is a record of the four members, and each member function
is an operator on it. `WordModulus` stands for 2^64. `queue` and `otherQueue` are
what FIFO queues would hold. `hazard` becomes true when a call is made under one of
two conditions, each named in the module: `WrapAtRisk` (the subtraction modulo 2^64
matters) and `NoRoom` (a push where growing makes no room). Nothing after
that is modelled. So the properties of the passing run say what the buffer
does until then; what the first condition does is followed in the queues of the workers (TaskRing).

*TaskRing.* `mTasks` is what lies between mHead and mTail, in order; `ring` has mHead and mCapacity, from which `mTail` and
`Full` follow as in the code. A push onto a full ring grows it, or finds no memory and is dropped silently; one onto a ring that is full but
does not look so brings mTail to mHead, and the tasks go from `mTasks` to `lapped`, which is history. Copies and moves bring along
another worker's indices (`OtherRings`).

*WorkerPool.* `outOfTasks` and `task` are the workers' local variables. The place
"park" is between the decision to wait and the wait, "parked" is in the wait;
a notification moves a worker from "parked" and does not reach "park".
`call` says what concurrency(n), operator= or the destructor will leave behind when
the workers have ended. `due` holds the tasks that were pushed or flushed into the queue of a running pool, `dropped` those that stop_threads threw away, `started` the order of execution.

*WorkerThread.* The same for one thread; here `Park` is a wait with a predicate. Its
assignment is split into the steps the thread can see: a copy first clears the queue
(`CopyClears`), then fills it (`CopyFills`).

*Caches.* A step is one call. update, insert and emplace leave a caller's value under
the key and are one action; query_or_update stores it only on a miss; query and
operator[] change nothing. In LRUCache a use turns two arrays by one place
(`Rotated`). In LRU8WayCache row r of the bit matrix is the set of ways r was used after,
which `UpdateLRUIndex` writes as the code does: a row set, then a column cleared. The
comment in LRUCache.hpp:14-19 speaks of the data "used most recently"; a query is no use in
the code, nor in `LeastRecentlyUsed`. The key CACHE_MISS, all ones, means an empty
place, and callers are assumed not to use it. LRUCache::operator[] reads mData at the key's
place in the order of use, not through mIndices as query does; it changes nothing, no line
of the repository says what it should return, and it is not modelled.

*Allocators.* A step is one call on one GeneralAllocator; AtomicAllocator, a SpinLock around
one call of its source, is what makes concurrent calls steps. Addresses and sizes are in blocks, the size of a
header. The list is the sequence from `mHead` on along `pNext`, an allocation is
its header. `Allocated` is the set of outcomes of allocate: three sizes are asked
for in turn, and the source may refuse for its own reasons. `Merged` and `Prunable` are
_merge_allocation_blocks and the test that gives a pool back. `strays` holds ranges that
went to the source and are no pool; nothing is modelled after that. Not modelled: contents
of blocks, the byte count reported through pOutNumBytes (allocate reports the size of a
whole new pool, or nothing), move assignment (which overwrites the target's list), and OffsetFreeHeader = false.

*AllocatorWrappers, ChunkAllocator.* A step is one call. `asked` is what callers remember
and give back, `given` what the source handed out. In ChunkAllocator a chunk's first bytes are its
link while it is free and its caller's while it is out, which `Write` makes use of.

*Barrier.* `Check`, `Add` and `SpinEnds` are the accesses of wait; the pthread barrier is
external. `calls` counts calls, so that threads come back to a barrier that was passed.

*Networking.* `net` holds the objects, and the hosts, peers and packets ENet has. ENet returns any
event that is possible for a peer. `net.lost`, `net.unclear` and `net.assigned` are history: what was
lost by the two known ways (a client that gets no event data, a move onto a node in use), hosts of which two
peers had one address, servers that were assigned. The properties name them as their exceptions.

*BTree, BitSet.* A tree is the set of paths of bits at which it has nodes; `map` is the dictionary its calls
describe, with the number of elements that a tree constructed as a copy counts without holding them. get_byte stops after the size of a pointer to the key: `KeyBits` and
`PointerBits` are separate, and only where they are equal is the tree a dictionary. A bit set keeps every
bit of its array, `Unwritten` where the memory was never written, which stands for either value.

*UniquePointer, Callable.* The deleter is PointerDeleter. Objects may hold pointers, so deleting one deletes what it owns.
`spoilt` marks a pointer that deleted the object its own source is a member of (`list = move(list->next)`), `ringed` one that took what
it is itself a part of (`node->next = move(list)`), after which objects own each other and nobody leads to them.
A callable is only told from others by its size; `stale` marks a Function that refers to another one
which has changed.

*ArgParser.* A word is a sequence of dashes, digits and names, a name its own hash. `Parse` is the
validation pass and then the reading pass, as in the code, each with its own loop; an error ends the program with its `code`.

*Sorting, ParallelSort.* Arrays are functions from 0. The numbers the code writes out
(64, 32, 4, 256) are constants so that arrays of a few elements are on both sides of each. Loops and recursive calls are
recursive functions. A parallel sort
is a sequence of stages, a stage the units of each thread (a merge, an exchange, a row; also an index that the bitonic and
odd-even sorts look at and leave, see `Compares`). A step is one unit,
the fetch_add that ends a thread's stage, or the load that ends its spin.

## Runs

| Run | Instance | Shows |
|---|---|---|
| synchronisation | `MCSynchronisation`, 3 threads on an RWLock, a lock or a barrier, 2 pauses, 2 barrier calls each | RWLock: exclusion; exact words; refinement of `SharedExclusive`; a blocking call succeeds when conflicting calls cease. For each of the four locks: exclusion, no lost wake-up, every lock() served once new calls cease. For both barriers: nobody leaves early, everybody leaves. |
| fair_rwlock | 3 threads, 3 tickets | Exclusion; exact words; service in ticket order though the tickets wrap; no starvation once try calls stop. |
| workers | `MCWorkers` with a WorkerPool of up to 2 workers or a WorkerThread: 4 tasks, 1 clear, 1 resize or assignment | Tasks start once and in order; nothing flushed is lost, and a paused thread has started all of it, but for what the ring buffer ran over; it runs over tasks only when it has wrapped and its slots do not divide the word. |
| workers_serve | `MCWorkers` with a WorkerPool of 1 worker that busy-waits or a WorkerThread: 5 tasks, 1 resize or assignment of the pool | What is flushed and not run over is started; every call returns as long as nothing was run over. |
| library | see `MCLibrary` | Caches: the bit matrix is the order of use and refines `LeastRecentlyUsed`, LRUCache holds the same entries in the same order, IndexedCache answers with what was last stored. RingBuffer: FIFO order, true size, full and back through growth, copies and moves. Networking: hosts and packets have one owner, peers exist, the client list is current. BTree is a dictionary, but for trees constructed as copies; BitSet the bits that were set. ChunkAllocator hands a chunk out once, the wrappers' counts are exact. Pointers own once and lose nothing, Functions call what they were given, accepted command lines fit their options. |
| allocator | malloc, 14 addresses, 12 blocks of budget, 4 allocations | Blocks are conserved; the free list is in order and merged; headers name their pool, and at most one idle pool is kept; the budget is exact. |
| sorting | arrays of up to 9 elements, up to 4 threads | Threads of a stage touch different elements; the result is the sorted input; the fixed stack of sort_quick_iterative suffices; every thread returns. |
| worker_pool_hang | `MCWorkers` with a WorkerPool: 1 worker that does not busy-wait, 1 task | **Violation.** A flush is missed and its task never runs. |
| worker_pool_overrun | `MCWorkers` with a WorkerPool: 1 worker, 4 tasks | **Violation.** The pool is ready and has not started two tasks that were flushed. |
| allocator_pages | mmap, 12 addresses in pages of 4 | **Violation.** A run across two pools is given back to munmap. |
| sort_shape | shear sort of 3 elements, 2 threads | **Violation.** The result is not sorted. |
| tree_copy | `MCBTree`, 2 trees, keys of 2 bits | **Violation.** A copy of a tree counts an element that it does not hold. |

The type invariants (`TypeOK`) are not among the invariants of the runs. Those of RWLock, FairRWLock, the exclusive
locks, WorkerThread, WorkerPool and LRU8WayCache are proved; the other components have theirs as part of the inductive invariant
of their proof. `VictimExists` and `ReplacesTheOldest` of LRU8WayCache, and that WorkerThread loses no wake-up, are proved and in no run.

### Bounds

Threads are unordered and the locks treat them alike; a conflict needs two, and
the third is the one that comes in between. Three tickets for three threads make every
ticket number be reused while others are out. The pause bound of two lets the back-off
take each of its branches. In the ring buffer 3, 5, 6 and 7 slots do not divide the
word and leave the same remainders as for 2^64; 2 and 4 divide it. Two workers are the
least that compete for the last place in the pool. The queue of the workers begins with three slots, so the fourth task is
the first that can be run over, in a pool that was flushed in between; five let the storage grow to four slots and then to five,
and a push arrive while another task runs. The word of 16 leaves the same remainders as 2^64 for the 3, 4, 5, 7, 10 and 14 slots
of the first five growths. The rings that an assignment brings (`OtherRings`) have three slots and any head. Four keys for three ways push one out of each
cache, hits reach every place of the order, and keys 0 and 3 share a place in the
IndexedCache. Fourteen addresses hold three pools that can each be split and merged from
both sides; twelve in pages of four hold three pools side by side, the least for a run across
two with another run left. Two calls of the barrier bring every thread back to one that was passed. Keys of two bits give trees
in which paths share one node and none; three words of two bits give a bit set with words
in use, reserved and unused; three owned objects make a chain whose middle can be moved. Two options with a long
name, a short name or both, and lines of four words, let an option be repeated, grouped and followed by too few or
too many values. Arrays of 8 and 9 elements are the least with three doublings and with a square of
three rows; 5 is the least that is no square and still sorted by sort_sheared's
last phase; three threads do not divide the pairs of 8. Every bound is a constant that a guard or a set of inputs names.

Deadlock is checked in the runs fair_rwlock, allocator and allocator_pages. What the others look at does come to an end (an RWLock
does not, and its progress property speaks of threads that are stuck): threads
make `MaxCalls` calls of a barrier, a pool or a WorkerThread is destroyed, a sort returns, and a parse that fails ends the program.

### Fairness

A thread inside a call that can take a step eventually takes one: the operating system
schedules it. No fairness is assumed of the decision to call, of spurious wake-ups, of
signals. FairRWLock and Futexes also assume that a holder unlocks; RWLock's
progress property does not need it. In the worker modules the worker threads
and the client inside a call are scheduled. Threads inside a barrier or a parallel sort keep running; the
sort's fairness is written out over the state (`Fairness` in ParallelSort), because whether a step is enabled does not depend on what it
does to the array.

### Findings

1. `RingBuffer::size()` computes `(mTail - mHead) % mCapacity` on unsigned 64-bit
   numbers. When the elements wrap around the end of the storage and the number of
   slots does not divide 2^64 the result is wrong, and `full()` with it, which the
   extra slot is there to detect (comment at RingBufferImpl.hpp:202); the next push makes the buffer look empty. This
   bites in the worker classes, whose queue is `RingBuffer mTasks{2}` (WorkerPoolImpl.hpp:150): three slots, which do not
   divide 2^64. Push and run a task, push and flush two, and push a fourth before a worker takes one: the queue looks empty, the pool pauses,
   and `ready()`, described as "Check if the thread has finished all tasks and can be flushed."
   (WorkerPoolImpl.hpp:342), answers yes. The two flushed tasks and the fourth are never run (run worker_pool_overrun). WorkerThread does the same. The
   properties of the passing runs name the tasks that were run over, `lapped`, and `RunsOverOnlyWrapped` says when there are any. If no worker
   has looked at the queue between the flush and the push that runs it over, none enters execute_tasks, where the pool is paused: wait(), the
   resizing calls and the destructor then wait for ever.
2. `WorkerPool::thread_loop` decides to wait before it holds `mExecMtx` and then waits
   without a predicate, so the notification of `flush` can fall in between. The comment
   at WorkerPoolImpl.hpp:79-80 promises the wait to last until the next flush. The same
   gap can leave a worker asleep when stop_threads notifies, and the destructor in join.
   WorkerThread has the predicate, and `FlushIsServed` holds for it.
3. `GeneralAllocator::_free_impl` gives a free run back when it is as long as the pool its
   header names (GeneralAllocatorImpl.hpp:212), without asking whether it is that pool. Over mmap pools
   can lie side by side and `_merge_allocation_blocks` merges across the border, so the
   run can begin inside a page: the assertion at MemorySource.cpp:401 fails and the blocks are lost.
   With malloc's headers between pools, or one pool, this cannot happen (run allocator).
4. `sort_sheared` works on a matrix whose columns number the root of the count, and takes its number of phases from them: `2 * fast_log2(1) = 0`
   for one column (SortImpl.hpp:1039). The last pass, the "one final sort to re-order the final rows" (1106-1107), takes the rows in pairs, so
   nothing ever compares an element of one pair with one of the next. Three elements are a full matrix of three rows and one column; 0, 1, 0 comes
   out as it went in, where the test (lsutils_sort_test.cpp:225-236) expects a sorted array of every parallel sort. The run sorting has the counts that do come out
   sorted (1, 4, 5, 9).
5. The copy constructor of BTree copies the head as a node, which takes the subnodes along only if the node has data, and the head never has
   (BTreeImpl.hpp:57); it copies the count (BTreeImpl.hpp:165-170). The copy answers `size()`, "the number of objects inserted into *this."
   (BTree.h:332), with the number of elements of the other tree and finds none of them. `TreeIsADictionary` excepts the trees that go back to such a copy.

Observed beside the runs, in the code as it is modelled or in what a model leaves out:

- *WorkerPool.* ready() is documented as "Check if the thread has finished all tasks" (WorkerPoolImpl.hpp:342). A worker that saw the pool
  running may enter execute_tasks after another paused it and run a task pushed since; `PausedMeansIdle` says this does not happen, and fails
  when it is added to MCWorkers.cfg.
- *Allocators.* Over SystemMemorySource a ConstrainedAllocator counts the bytes GeneralAllocator asked for and takes off the page-rounded bytes it frees, so
  the assertion at AllocatorImpl.hpp:223 can fail. Its free(p) aborts, and IAllocator::reallocate to no bytes calls it; over malloc that free does nothing.
  reallocate without the old size clears the contents (Allocator.cpp:61-91).
- *Sorts.* sort_sheared ignores its comparator, divides by int_sqrt(0) when there is nothing to sort, and does not check its temporary
  array. sort_bitonic leaves elements out when the number of threads does not divide the count. sort_radix looks at 32 bits of a key. A thread of the
  parallel merge sort that gets no temporary array returns and leaves the others spinning.
- *BTree.* operator= deletes an array as a single node; a move leaks the target's nodes; get_byte
  compares with the size of a pointer (Bits.h:81).
- *BitSet.* bit_and clears the other bits of the word; reserve below the size counts words as bits; a first resize leaves words unwritten;
  a resize to the same size ignores its bits.
- *Pointer, Function.* A move assignment deletes before it reads its source, and moving a list into its own member (`node->next = move(list)`) leaves
  objects that own each other. AlignedDeleter runs no destructor, so what an object under it owns is lost. A Function built from a non-const lvalue Function is a reference to it.
- *Networking.* A client without event data loses its host and a disconnect event leaves its node as it was; NetServer's move assignment leaves the host behind;
  clients are told apart by address alone.
- *ArgParser.* A negative number is never a parameter; const values serve only options with at least one value; an option whose short name a later one
  takes stays without its default; value of an option that was never parsed reads out of bounds.

## Proofs

Every safety property of the runs is proved but for two of the sorts, named under "only model-checked", and each for every value
of the constants: any set of threads, any number of workers, tasks, pauses, places, chunks, keys, bits, hosts, any array. The assumptions are those named in the
modules, and say what the code needs or what tells model values apart:

| Assumption | Of | Why the code justifies it |
|---|---|---|
| `ThreadsFinite` | RWLock and with it Synchronisation, FairRWLock | threads are counted in a word |
| `ObjectsExist`, `ClassesExist` | Synchronisation, Workers | say which of the objects or classes a behaviour may be about |
| `EnoughTickets` | FairRWLock | more than 2^16 waiting threads would share tickets |
| `WaysPositive`, `BlankIsNoValue` | LRU8WayCache | a cache has a place; what an empty place holds is told from what callers store |
| `SlotsFitTheWord` | RingBuffer | a reservation of any tested size plus one does not overflow `size_t` |
| `MemoryHasRoom` | ChunkAllocator, AllocatorWrappers | there is a chunk, a block has a size, and the limit is a number of bytes |
| `InitialFit` | Workers | the number of workers a pool starts with is within the bound on their number |
| `LockIdsPositive`, `MaxPausesPositive`, `BoundsAreNats`, `PoolBoundsAreNats`, `ModesAreBooleans`, `KeysAreNumbers` | locks, workers, caches | types of the code's numbers and flags, and of the bounds |
| `PointersHaveBits`, `BucketsHaveBits` | BTree, BitSet | a pointer and a word have at least one bit |
| `NodesAreApart`, `PointersAreApart`, `CallablesAreApart` | Networking, UniquePointer, Callable | a null pointer is no object, a client is no server, a Function is no block of the heap |
| `OptionsAreDescribed` | ArgParser | names, if any, are not empty, the settings of an option have the types its setters take, and a word is a string |
| `CallsAssumption` | ParallelSort | a call has an array of some length, at least one thread, and threads numbered from 0; an array given to sort_sheared is not empty, for the function divides by its number of columns |
| `AllocatorAssumption`, `SourceAssumption` | GeneralAllocator | pools have a block, a request needs a header and at least one block |

Some theorems have a hypothesis of their own. Those of GeneralAllocator hold for a source that leaves gaps between its ranges (`Gap > 0`), because
without gaps they are false, as the run allocator_pages shows; the budget also needs one that rounds nothing (`PageBlocks = 1`), for the reason given
under the findings.

*Synchronisation_proofs.* A step of `Synchronisation` is a step of one object, so RWLock, the exclusive locks and the
barriers have an invariant each. That of RWLock is
`TypeOK /\ LockWordsAgree /\ MutualExclusion`. Exclusion alone is not inductive: that
a reader which sees `mLockType = 0` may go in rests on the word being non-zero whenever
some writer is past its compare-and-swap, and that a writer which sees `mShareCount = 0`
may go in rests on the count being the number of readers past their fetch_add, which is
`LockWordsAgree`. One lemma per action says how the sets of claiming threads change;
the cardinality lemmas turn that into the count. From the invariant each step is
shown to be a step of `SharedExclusive` or to leave readers and writers alone
(`RefinesSharedExclusive`).

For the exclusive locks exclusion is inductive with the typing. `NoLostWakeup` needs that only lock()
of SystemFutexLinux parks (`WhoSleeps`), so that whoever is woken is again on its way to the word,
and that the pauses of SystemFutexPThread have not passed the maximum while it still tries. The barriers: the count is
bounded from both sides: each of its units is another thread that has
come (`CountsThreads`), and the threads blocked are among those counted (`CoversTheWaiting`). No
thread is counted twice because the count is never reset: who comes a second time finds it full.

*FairRWLock_proofs.* The argument for RWLock, for the packed word. Here a reader keeps its
share while it waits, so the set that the count measures is larger, and exclusion is
carried by `ThroughExclusion`, which speaks of those past the check. The order of admission has
an invariant of its own, `OrderInv`: the line holds exactly the callers between their ticket and
the turn they pass on, each once, with consecutive tickets modulo `LockIds`. The line is an
injection into the threads, so it is no longer than `LockIds` and no two tickets in it are
equal (`OnlyTheFirstIsShown`). unlock tells from the word whether the turn is to be passed
on, which is right because of `LockWordsAgree`.

*Workers_proofs.* In WorkerThread mIsPaused is handed to and fro: only the client clears it and only the
thread sets it, and neither touches the tasks in the other's turn (`TurnIsKept`). What is due is
started or queued, and is started once the thread has found the queue empty (`DueIsKept`),
although the pause itself does not look at the queue again; what a push ran over is in `lapped`, and no longer in the queue. Order is that of the sequence
`started \o mTasks`, which a step leaves, cuts, or extends by a larger number (`OrderedAfter`). That tasks are run over only by a wrapped
ring whose slots do not divide the word (`RunsOverWhenWrapped`) is arithmetic: while mTail is not before mHead, or `WordModulus` is
a multiple of the slots, the two reductions of `Full` give the number of tasks (`UnseenFull`), so a push that would need one slot more than there is sees a full ring. It needs the
indices to point into the slots and one slot to be free (`RingOK`), in either class.

In WorkerPool, the instance `Pool` of `Workers`, order is kept for the same reason; it does not depend on the workers'
places. That nothing flushed is dropped is `NothingDueWhilePaused`: the last worker out pauses the pool only over an
empty queue, and stop_threads empties the queue of a paused pool only. The number of running
workers plays no part in it. That mThreadsRunning is their number (`PoolTypeCorrect`) is a matter of the
workers' places: a step moves one worker, which enters or leaves execute_tasks as it counts itself in or out
(`OneWorkerMoves`, `WorkersStep`), and the count starts anew only when every worker has exited.

*ParallelSort_proofs.* `UnitsAreDisjoint` is not inductive: that two threads at work are in one stage rests on the count of
arrivals. The invariant says that numSortPhases is the number of pairs of a thread and a stage it has come to the end of
(`PhasesAreArrivals`), and that nobody has left a stage that somebody has not come to the end of (`NobodyAhead`). A thread leaves its
stage `s` when the count is at least `s` times the number of threads; nobody has arrived more than `s` times then, so each has
arrived `s` times. What is left is about the units of one stage. The merge, odd-even and shear sorts deal out blocks of the array in
turn, block `q` to thread `q` modulo the number of threads, so two threads have different blocks (`BlocksApart`); in the bitonic sort
each thread has one. A merge, a row or a pair of rows lies in its block, and in the columns a place has one residue. In the bitonic and
odd-even sorts the other place of an exchange may be in a block of another thread, whose index of that place then compares nothing: which of two places is
the lower one is decided by a digit of the index.

*GeneralAllocator_proofs.* The inductive invariant is `Good`, about a state as a value, because free works on
what allocate left within reallocate. The list is in address order and no two entries touch; no two runs overlap; each lies in the pool its header names
and each block of a pool is in a run (`WellFormed`); at most one free run is a whole pool (`AtMostOne`); the count is the blocks of the pools (`Counted`).
None stands alone. That what is given back is a pool, and not a run that happens to be as long, needs the
headers to name their pools; a merge keeps those only because a run that touches another lies in the same pool, and that is where the gaps are used.

*Library_proofs, Interfaces_proofs.* A step of `Library` is a step of one part, so each part has an invariant of its own.

- *LRU8WayCache* (`IInv`). For any number of ways, `TypeOK /\ RowsAreTheOrderOfUse` is inductive.
  That a zero row exists does not follow from the types, nor from the update alone: it
  needs the rows to be a strict order, of which a finite set of ways has a least element,
  and the row of that way is empty. `ReplacesTheOldest` then follows from totality on the ways in use.
- *IndexedCache* (`IndexedInv`). Two keys share a place when they have the same residue; a place with a key holds no blank.
- *LRUCache beside LRU8WayCache* (`CachesInv`, which is `IInv`, `ListInv` and `Agree`). One sorts a list, the other keeps a matrix. Each entry of
  one is an entry of the other, and the order of two places is the order of the rows of their ways. Both are full together,
  so the last place and the zero row hold the same key.
- *The abstract list* (`MatrixRefinesLRU`). The refinement `LeastRecentlyUsed` numbers the ways in use by how many others were used after them;
  that this is a list rests on the rows being an order. Each call of the matrix is then one of the list, or a stutter.
- *RingBuffer* (`RingInv`). `Slot` and `Count` are the index arithmetic without its two reductions, and the lemmas say when the code's is
  equal to them: always for one slot, and for the count while `WrapAtRisk` does not hold. The slots in order are then the queue.
- *ChunkAllocator* (`ChunksInv`). The list is a path: it stays among the chunks nobody has, no two of them lead to the same chunk and none
  to the first, so taking the first leaves the others on it. What callers write into their chunks does not touch it.
- *AllocatorWrappers* (`WrapInv`). A place is asked for through one of the two allocators and given in whole blocks; the count is the bytes asked for.
- *BTree* (`TreeInv`). With each node its ancestors are in the tree, so a path with data is found; with keys as long as a pointer the path is the key.
  The elements counted are those held, unless the tree goes back to one constructed as a copy.
- *BitSet* (`BitsInv`). The bits in use are a whole number of words, the array has at least as many, and only bits in use are set; the words past
  those in use were zeroed or never written, which is what a growth relies on.
- *Pointer* (`PointersInv`). Until an object has deleted the Pointer that was to be set, each live object has one holder
  and what does not exist holds nothing. That nothing is lost says, turned around, that a set of objects that are held only from among themselves is
  empty. A call that deletes or moves makes no such set unless a Pointer takes an object whose deletion would delete that Pointer, which is `Takes`.
- *Networking* (`NetInv`). A host or packet is in use when one object refers to it (or it was lost in one of the known ways); a host that does not exist has no
  connection; an object refers to peers of its own host, of one that is gone or of an unclear one. The last part is what lets another object's
  disconnect leave a server's list current.
- *Function* (`FnInv`). A Function in use has a place of its own with something in it, so changing one leaves what the others hold (`InPlace`). Where a call
  ends depends on what the Functions on its way hold (`PassedStays`), and those of a Function that is not stale did not change.
- *ArgParser* (`ArgsInv`). For any options and any line of words. A name leads to an option. The validation after `k` words is the result of `k` calls of
  `WordChecked`, and the reading after `k` words that of `k` calls of `WordRead`; on an accepted line the two agree after every word on the option last named,
  and on how many values it has, whose types fit, and every option named earlier has a number of values that passed (`PassesAgree`); so the second pass, which
  checks nothing, reads what the first one let through. When the line ends, `Completion` has visited each option once if names are unique (`CompletionFinishes`). The induction over the words and over the options is done in CommonLemmas with sets of numbers (`UpTo`, `Recurrence`,
  `StaysIn`): a set that has 0, and `i + 1` with each `i`, has them all, which follows from the least number outside it.

Some definitions say what the code computes in a form that can be reasoned about: the passes of ArgParser are functions of the number of words read; the list of free chunks is the least set closed under
the links (`Listed`), and so are the Functions a call goes through (`Passed`); the entries of `LeastRecentlyUsed` move by `First` and `Again`, the bytes of the wrappers are sums over sets (`BytesAt`), the runs of a
GeneralAllocator cover sets of blocks (`BlocksOf`) and its list is cut and put together by places (`Spliced`), a client leaves a server's list at the first
of the places that have its address (`Places`).

Only model-checked:

- Of the sorts, `SortedWhenDone` and `QuickStackSuffices`. What a sort does to every array takes induction over the data: the library's induction
  theorems need an operator as a parameter, and the sets of numbers used for ArgParser would have to speak of arrays
  between the steps of nested loops (for shear, bitonic and odd-even sort, of the theory of sorting networks).
- All liveness, which is out of the prover's reach.

## Plan

Done: the locks and barriers, the ring buffer, the two worker classes, the caches, the allocators, the containers, networking, pointers and callables, the
argument parser and the sorts; the proofs of the safety of all of them, but for what the sorts compute.

Next, in this order:

1. Proofs: that the exchanges of the parallel sorts lose and double no element (the first part of `SortedWhenDone`).
2. The moves of GeneralAllocator, and page rounding under the budget.

## Not modelled

Sending over ENet, whose result is ENet's. The helpers in the last line of the inventory: they keep no state, or are calls of the operating system.
The Windows variants, whose calls match those of the Linux ones. The bytes that allocators clear or copy. Pointers with AlignedDeleter, the functions that make their
objects, and moves from a Pointer of a derived type. What a caller of `tasks()` does to the queue of a worker. Reorderings that acquire and release leave open.
