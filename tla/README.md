# Verification of New_C_Engine

TLA+ models of a small game engine in C, model-checked with TLC, and theorems
about its allocators, its memory system, its event system, its containers, its texts and its
life from start to exit that TLAPS proves for every size. Each definition that
stands for code is listed with its lines in `PROJECT.json` ("map").

## The system

The engine (`engine/src`) is a library with a `main` of its own. It starts its
subsystems in order (`core/engine.c`: memory, logging, events, input, platform,
renderer), opens a window, runs a loop, and stops them in reverse order. It is
mostly one thread; a Vulkan driver may call its debug callback, which logs and
therefore allocates, from another.

| Part | State | Operations | Talks to |
|---|---|---|---|
| free list, `containers/freelist.c` | a linked list of free ranges, its nodes in a fixed array | create, destroy, allocate, free, resize, clear | logs |
| dynamic allocator, `memory/allocators/dynamic_allocator.c` | one piece of memory; a size word and a header around each block in it | create, destroy, allocate, free, both aligned | free list |
| memory system, `memory/memory.c` | counters per tag, a recursive mutex | allocate, free, reallocate, report | dynamic allocator, platform mutex, log |
| logging, `core/logger.c` | none | log_output | strings, hence the memory system |
| events, `core/event.c` | a dynamic array of listeners per code | register, unregister, fire | callbacks of everybody |
| dynamic arrays, `containers/darray.c` | header and elements | create, push, pop, insert | memory system |
| queue, stack, ring queue, hash table, tree | elements in a block, or nodes | the usual | memory system |
| linear allocator | an offset | allocate, free all | memory system |
| strings, `strings/string.c` | none | compare, search, copy, cut, split, parse, decode, paths | memory system |
| input, `core/input.c` | current and previous keys, buttons, mouse | process, update, query | fires events |
| engine, `core/engine.c`, `entry.h` | running, main window, game | initialise, run, event handler | everything |
| platform, `platform/platform_linux.c` | windows, X connection, mutexes | pump, window create and destroy, lock | input, events |
| renderer and Vulkan backend | device, swapchain and surface per window | start, shutdown, window created, resized, destroyed | driver |

What is hard in them, and the property each part stands or falls with:

- **Free list.** A long sequence of splits and joins must never lose a byte, list
  it twice, or leave two free neighbours apart. The pool of nodes is finite and
  its exhaustion is not handled.
- **Dynamic allocator.** All it knows of a block lies in memory next to what
  the callers write, so ranges, alignment slack and headers must never overlap,
  and a free must give back exactly what was taken.
- **Memory system.** Re-entrance: a refused request is logged under the mutex,
  and the log allocates. Counters that several threads update.
- **Events.** Callbacks change the array that a fire is walking.
- **Containers.** Element addresses at the edges of a block.
- **Strings.** Bounds, and what a header promises of them.
- **Windows, input, engine.** Events in orders the handlers did not expect;
  what is destroyed before what; that the program ends when it is told to.
- **Renderer.** A driver that refuses a call, a machine that lacks something;
  arrays that are kept from one surface to the next; requests for more than the
  device has; images in the layout that the next command reads.

`PROJECT.json` lists each of these at its line ("hazards"), with the property
that covers it or the reason why none does.

## The modules

| Module | Stands for | Refines |
|---|---|---|
| `FreeSpace` | what a free list promises: a set of free bytes, lowest fit | |
| `Freelist` | `freelist.c` without resize, one action per loop iteration | `FreeSpace` |
| `FreelistTheorems` | the proofs about `Freelist` | |
| `FreelistResize` | `freelist_resize`, over the calls of `Freelist` | |
| `Heap` | what an allocator promises: aligned, disjoint blocks | |
| `DynamicAllocator` | `dynamic_allocator.c`, byte by byte, over `FreeSpace` | `Heap` |
| `DynamicAllocatorTheorems`, `EventSystemTheorems` | the proofs about these two | |
| `MemorySystem` | `memory.c`, the mutex of `platform_linux.c`, `logger.c`, and of `string.c` what a log line uses | |
| `MemorySystemTheorems` | the proofs about it | |
| `EventSystem` | `event.c`, and of `darray.c` what it uses | |
| `BoundedFifo` | what a ring queue promises | |
| `ElementBlock`, `Queue`, `Stack`, `QueueStack` | `queue.c`, `stack.c`, and one or the other | |
| `RingQueue` | `ring_queue.c` | `BoundedFifo` |
| `Hashtable`, `U64Bst`, `DynamicArray`, `LinearAllocator` | `hashtable.c`, `u64_bst.c`, `darray.c` and `darray.h`, `linear_allocator.c` | |
| `ContainerState`, `Containers` | what the eight have in common; the choice of one | |
| `ContainerTheorems` | the proofs about all of them | |
| `CString` | `string.c`, as functions | |
| `VulkanDevice`, `VulkanImage`, `SwapchainRequest` | the choice of a device and what is asked of it, of a surface, of an image | |
| `PureCall`, `PureFunctions` | one call of one of these functions | |
| `PureFunctionsTheorems` | the proofs about texts, devices, surfaces and images | |
| `Input`, `Platform`, `Renderer` | `input.c`; windows and pump of `platform_linux.c`; `renderer/` | |
| `Engine` | `engine.c` and `entry.h`, composed of the three | |
| `EngineTheorems` | the proofs about the four | |
| `Induction` | induction and recursion over numbers and finite sets, for the proofs | |

**Freelist.** `nodes`, `head` are the C fields; `node`, `previous`, `want`, `at`
are the locals and arguments of the running call, `pc` says which. `live` and
`freeing` belong to the callers: the blocks they hold, and the one a running
free was given. A null dereference is a fault that ends the behaviour. Callers
free blocks they hold, or free a range again where the code can tell that it is
free: it starts a free range or lies in the last one. (A second free strictly
inside an earlier range is not recognised by the code. That is a caller's error
and not modelled.)

**FreelistResize** reuses the walks of `Freelist` and adds the copying loop of
`freelist_resize`, one iteration per action; `node` and `previous` are its
`old_node` and `new_list_node`. The number of nodes is the least one (20 in the
code, which holds up to 160 bytes) before and after.

**DynamicAllocator.** `memory` maps each byte to the word that was written
over it, so a write across a size word or a header destroys it and the next
free reads something else. The list below it is `FreeSpace`, not `Freelist`:
the theorem `Implements` of `FreelistTheorems` is what allows that. Sizes are truncated to the width
of their word; the assertion on 32 bits is a trap that ends the behaviour.
`U64Range` is the first number that a size cannot hold: a request just below it
makes the sum of `required_size` (line 76) wrap to a small number, which the
assertion lets pass. The list then hands out less than was asked for, the size
word is cut to 32 bits and the header lands in front of the block. The model does
all that and ends there (`overrun`); what is said of the allocator is said until
then.

**MemorySystem.** A call is a stack of activations per thread: a reallocation
calls an allocation and a free, a refused allocation calls the log, the log
calls allocations and frees. The mutex has an owner and a depth. A counter
update is a load and a later store, so that a broken mutex would lose one. The
allocator is only the sum of its blocks here: it refuses what does not fit, and
fragmentation is `DynamicAllocator`'s business. Blocks handed out by malloc
before the system is up are kept apart (`foreign`): `create_game` logs before
`memory_system_initialize`, so there are such. A thread that runs out of stack
ends the process (`dead`).

**EventSystem.** The array of a code keeps the slots past its length, because
`event_fire` reads the count once and may read them. `frames` are the active
fires; while a callback runs it may register, unregister and fire. An
unregistration closes the gap with a `memcpy` (`darray.c:133-137`), over ranges
that overlap if two or more entries follow. `darray_pop_at` is therefore the set
of arrays that may come of it: each word, a listener or a callback, is the one
behind or one that was copied there before. An entry may be there twice, or put
together of two; `blurred` remembers the codes to which that may have happened.

**The containers.** Each is one C struct, `object`, and the calls on it; `ideal`
is what its callers may believe to be in it, and `answer` what the last call
gave back. A block has its elements at the offsets the code computes:
`queue_push` and `stack_push` scale an index twice, so the second element lies
eight places on, and a write behind the block ends the behaviour ("overrun").
The tree is a function from places to nodes, a place being the path from the root.
memory_allocate may refuse any block, and a null dereference ends it
("crash"); a typed array that gets no block is used all the same until its first
element is written. `Containers` picks one container at the start, so that one run
covers all; they share nothing. In `DynamicArray` a `memcpy` over ranges that
overlap may go either of two ways, and what the array should hold is unknown
from then on. Words have `Word` bits in `LinearAllocator` and 16 in the hash.

**The functions.** `CString`, `VulkanDevice`, `VulkanImage` and
`SwapchainRequest` hold functions of their arguments: a text is a sequence of
bytes, a device a record of what the driver reports of it. Reads of memory that
nothing was written to are the value `junk`, reads outside of a text
`out_of_bounds`. A command to the driver is what it does to the layouts of an
image's levels. `PureFunctions` calls each with every argument of a bounded
set, one state per call, and compares the answer with a definition of its own.
The functions of an image have no caller in the repository yet: `Upload` and
`Download` call them in the order that their layouts allow.

**Engine.** One thread, so a step is what runs between two places where
something outside can make a difference: an X event that was polled, a call of
the game. Events are handled where they are fired. `Input` has the state of
`input.c`; `Platform` the array of windows and, for the outside, the queue of X
events and the keys that are really held; `Renderer` the chosen device, the
objects that the driver and the X server have made, and the arrays of surface
formats by the room in them. The driver may refuse each call, and the X server
a flush. The result is a record of who is the parent of what (`ParentKinds`),
and an object whose parent goes first is `orphaned`. Undefined behaviour and
traps end a behaviour; `fault` names the cause, such as a null in the array of
windows (`null_slot`), a device that was not found (`no_device`), or a backend
that is gone (`null_backend`). The game opens and closes windows of its own
through `platform.h`, which the Linux build exports; the editor in the
repository opens none.

## What is checked

| Run | Instance | Shows |
|---|---|---|
| `freelist` | 6 bytes, 3 nodes, requests of 1 to 3 | `TypeOK`; `Links` (sorted, fused), `Partition`, `FreeSpaceIsWhatIsLeft`: nothing lost, nothing twice; `LiveBlockIsFreed`, `RefusedFreeIsHarmless`, `RefusedOnlyIfNothingFits`: right answers; `ExhaustedOnlyByFragmentation`, `ClearDiesOnlyWhenFull`: the two null dereferences happen only then; `CallsReturn`; `ImplementsFreeSpace` |
| `freelist_resize` | 6 bytes, 4 nodes, one resize by 1 or 2 | `ResizedPartition`, `ResizeCopiesTheList`: one resize is right at any point, and what follows works on it |
| `freelist_resize_twice` | the same, two resizes | violated: the second one makes the list a circle |
| `dynamic_allocator` | 15 bytes, sizes 1, 2, 10, 28 of a `U64Range` of 32, alignments 1, 4 | `MetadataIntact`, `TakenIsHeld`: what a free reads is what was written; `ImplementsHeap`; all three until the sum of a request wraps |
| `memory_system` | 2 threads, capacity 5, requests of 3, log lines of 1 or 3 | `TypeOK` (the mutex counts its entries); `CountersMatch`: no update is lost; `Ownership`: no block lost or used after it is freed; `RecursionOnlyWhenFull` |
| `memory_calls_return` | 2 threads, capacity 3, requests of 2 | `CallsReturn`: no deadlock, every call ends |
| `memory_tracked` | as `memory_system` | violated: a refused request stays in the counters |
| `event_system` | 1 code, 3 listeners with one callback, 4 entries, fires nested twice | `TypeOK`: the slots in use hold listeners, each once, until one is removed from before two others; `CalledWasRegistered`: a fire never calls through an empty slot, or someone who left before it, and after such a removal that is so of the listener and of the callback, each for itself; `EachInTurn`, `FiresReturn` |
| `containers` | capacities to 3, two values, two of three keys with one hash, four tree keys | what each container is, and where exactly it is not: `LinearBlocksApart` unless the bound check wraps, `FewElementsKeepOrder` of queue and stack (it is few), `HashtableLosesOnlyCollisions`, `TreeIsMap` until a node with two children is deleted, `ArrayIsSequence` and `IteratorInside`, `RingImplementsFifo` |
| `pure_functions` | texts to 5 bytes, devices of 1 to 3 families, images to 9 by 9 | `TextsMeetHeader` with the exceptions it names, `RequestsFit` with the three it names, `MipChainReadable` |
| `path_dirname` | the same | violated: what the header says of the directory's name |
| `engine` | 2 windows, 2 X events, machines that lack one thing each | `EngineSurvives`: which deaths need a window of the game or a poor machine; `OrderedTeardown`; `GpuReportsBalance`; `DownKeysAreHeld`; `QuitEnds` |

The bounds, and why they suffice:

- `freelist`: three nodes of which two are reusable can be exhausted by three
  free ranges; six bytes hold every pattern of a range before, between and
  after two others, with exact and larger fits. What holds beyond six bytes
  is proved.
- `freelist_resize`: the pool of four is used up by three ranges and the empty
  head, so copying faults too. `MaxResizes` bounds the resizes. Growth is at
  least one byte.
- `dynamic_allocator`: room for three smallest blocks, for a block between two
  holes, and for slack before and after; 10 meets the trap of `MaxRequired` 9
  with memory left, and the sum of 28 wraps, to 0 and to a size the memory
  holds.
- `memory_system`: a held block of 3 leaves room for two engine log lines, so a
  refusal is logged successfully by one thread, but not if the other logs too;
  a user's line of 3 can fail while the engine's lines fit. `MaxStack` 7 is more
  than any nesting without recursion needs: that four are enough for every
  instance is proved (`RecursionNeedsFullMemory`), and three are not. `MaxHeld` bounds what is held or
  reported when a call starts; `MaxRefused` stops allocating calls after a
  refusal until a restart, because refusals grow the counters without end.
- `event_system`: `MaxDepth` 2 is one fire inside another; three listeners let
  one leave before, at, and after the cursor, and leave two behind it.
  `MaxLength` bounds the entries, of which there may be more than listeners once
  a removal has doubled one. What is said of callbacks, of which TLC has one, is
  proved for any number.
- `containers`: a ring of three wraps with one and two elements in it; a block
  grows from 1 to 2 to 9 and 17, which is where the scaled index of the second
  and the third element still lies inside; `MaxElements`, `MaxLength` and
  `MaxLinearBlocks` bound the contents.
- `pure_functions`: five bytes of letters, blanks, slashes and dots hold two
  separators with something before, between and after them; code points are the
  ends of each range that is encoded alike; sides to 9 with four levels reach 1
  on one side before the other.
- `engine`: the second window meets the arrays that the first one left, and
  may be closed in either order, late or never; two events are one that breaks
  something and one that ends the program, or a press and a release. Three
  symbols of which two mean one key, and one that means none. `MaxEvents` bounds
  the X events of a run, `MaxQueue` those waiting: were they to come faster than
  they are polled, for ever, platform_pump_messages would not return.

Deadlock is not checked where the code can stop: the end of main, a null dereference, a failed
assertion, a stack overflow. `CallsReturn` and `FiresReturn` say that nothing
else stops.

**Fairness.** A running call goes on (weak fairness of its steps, per thread in
`MemorySystem`). Nobody has to make a call. The mutex is weakly fair only, as
pthread promises no more; so `CallsReturn` of `MemorySystem` is about threads
that do not start calls for ever. In `EventSystem` a callback returns. In
`Engine` main goes on, and the game's update returns: it must be left to the
game whether it opens a window, but not whether it returns.

## What the violated runs show

- `memory_tracked`: `memory.h` says that an allocation "is tracked for the
  provided tag". `memory.c:139-141` counts the request, before
  the allocator answers, and a null answer does not undo it: usage is
  overstated from then on.
- `freelist_resize_twice`: an unused node is recognised by its size 0, and a
  resize leaves an empty node at the head of the list. The next resize copies
  it, hands the copy out again, and links it to itself. `freelist_resize` has
  no caller in the repository yet.
- `path_dirname`: `string.h:281-282` says that the directory's name of
  `assets/textures/image.png` is `textures`. `cstr_dirname_from_path` looks for
  two slashes in a loop that stops at the first, and copies what follows it:
  the name of the file.

## What is proved

Every invariant of a run that expects none of them broken is the subject of a
theorem, but for `ResizedPartition`. Each theorem is of the specification that a
run checks (for a container, also of the part of the run that is about it alone),
and holds for every value of the constants
that the assumptions of the modules admit. They say that sizes and bounds are
naturals, that null is no slot, thread or block, and what is mentioned below.
Where two or more theorems are listed, they follow from one inductive invariant.

| Theorem | Says |
|---|---|
| `FreelistTheorems!Inductive` | the invariant `IInv` of the free list |
| `TypeCorrect`, `ListSorted`, `BytesPartitioned` | `TypeOK`, `Links`, `Partition` |
| `FreeSpaceCounted` | `FreeSpaceIsWhatIsLeft` |
| `LiveBlockFreed`, `RefusedFreeHarmless`, `RefusedAllocation` | the three action properties about answers |
| `ExhaustedByBlocks`, `ClearDies` | `ExhaustedOnlyByFragmentation`, `ClearDiesOnlyWhenFull` |
| `Implements` | `Freelist` implements `FreeSpace` |
| `DynamicAllocatorTheorems!AllocatorConsistent` | the invariant `AllocatorInv` |
| `MetadataStays`, `NothingLeaks` | `MetadataIntact`, `TakenIsHeld` |
| `AllocatorIsHeap` | `DynamicAllocator` implements `Heap` |
| `MemorySystemTheorems!MemoryConsistent` | the invariant `MemoryInv` |
| `TypeCorrect`, `MutualExclusion` | `TypeOK`, and of it `MutexSerialises` |
| `BlocksOwned`, `CountersRight` | `Ownership`, `CountersMatch` |
| `RecursionNeedsFullMemory` | `RecursionOnlyWhenFull` |
| `EventSystemTheorems!EventConsistent` | the invariant `EventInv` |
| `RegisteredOnce`, `CalledRegistered`, `CalledInTurn` | `TypeOK`, `CalledWasRegistered`, `EachInTurn` |
| `ContainerTheorems!RingConsistent` | the invariant `RingInv` |
| `RingIsFifo`, `RingRefinesFifo` | `RingImplementsFifo`, and `RingQueue` implements `BoundedFifo` |
| `LinearApart`, `FewElementsInOrder` | `LinearBlocksApart`, `FewElementsKeepOrder` |
| `ArrayHoldsSequence`, `IteratorStaysInside` | `ArrayIsSequence`, `IteratorInside` |
| `OnlyCollisionsAreLost` | `HashtableLosesOnlyCollisions` |
| `TreeHoldsItsKeys` | `TreeIsMap` |
| `ContainersHold`, `ContainersRingIsFifo` | all of these of `Containers`, the whole that the run checks |
| `EngineTheorems!EngineInvariant` | the invariant `EngineInv` |
| `SurvivesWithOneWindow`, `TeardownIsOrdered` | `EngineSurvives`, `OrderedTeardown` |
| `GpuReportsAreRight`, `NoKeyStuckDown` | `GpuReportsBalance`, `DownKeysAreHeld` |
| `PureFunctionsTheorems!RequestsAreMet`, `MipChainIsReadable` | `RequestsFit`, `MipChainReadable` |
| `TextsAreAsTheHeaderSays` | `TextsMeetHeader` |

### The free list

`Links` and `Partition` are not inductive: in the middle of a walk they do not
say what the cursor has seen. `IInv` adds the loop
invariants of the C code: `Cursor` (previous is the node before the cursor),
`AllocateInv` (every node passed is too small), `FreeInv` (every node passed
lies before the block and does not touch it, and the block is the caller's or
recognisably free), and it restates `Partition` byte by byte (`ByteInv`,
`BlocksApart`), in the form SMT can use.

The argument has three layers in `FreelistTheorems`. The first lemmas say what the five edits of a
list do to `Sorted` and `Fused`: inserting a node, growing one, shrinking one,
removing one, joining two. Then each action keeps
`IInv`, one lemma per action, and derives the properties. For a refusal the key
is that a run of free bytes lies in one node (`RunInOneNode`), because
neighbours are fused. For the pool it is that behind each node but the last
lies a block, and the block being freed, which touches no node, counts for the
last one (`AsManyBlocks`). The sum along the list is taken by induction on the steps left:
from a used node, it counts the bytes of the nodes at or behind it
(`SpaceFromCounts`), and the steps do not run out before the list does.

### The dynamic allocator

The
allocator has no table of its blocks, so the invariant (`AllocatorInv`) recovers
one from the memory: the header of a block says which range it lies in
(`Taken`), that range is one the list handed out, and no two blocks name the
same. Ranges are apart, hence so are blocks with all that is written around
them, and a new block, whose range was free, writes over no other
(`NewApart`). Alignments are powers of two. That a user's write stays inside its
block is an assumption on
callers. `required_size` reserves one alignment of slack, and `Aligned` says that
this is enough. All of it is said until a sum wraps: such a request writes
where it took nothing, so `AllocatorInv` ends with it, and the mapping to `Heap` lets
that last step go.

### The memory system

For any finite set of threads. That the mutex excludes is not
obvious where a thread takes it again inside a call, and where a call changes
counters that it loaded earlier. The invariant (`MemoryInv`) is about the
stacks: the depth of the mutex is the number of its owner's activations between
a lock and an unlock (`Entries`), and only the innermost activation lies
between a load and a store, because every line is logged before the load or
after the store. So what is stored is what was loaded and the thread's own
request, and no update is lost.

`Ownership` is not inductive, because a block changes hands inside a call: from
the callee that got it to the line or the reallocation that asked for it, and
from there to the call that frees it. `OwnerInv` gives each stack as many places
as it has activations, and one more for what the innermost one just got. It says
that no two places, of one thread or of two, and no caller have the same block
(`Apart`), that what a place has is allocated but for the end of a free
(`Alive`), and that every allocated block is somebody's (`NoLeak`). A call swaps
the two places at the top, a return moves the last one down, and
`OwnershipMoves` shows once that all of this stays after a step that only
rearranges its thread's places, adds fresh blocks and drops freed ones.

`CountersMatch` speaks of the moments when nobody has the mutex. `CountInv` says
at every moment what the counters count: the blocks of the heap, the reported
ones, and what the running calls have or have not counted yet (`Booked`): the
block of a free that left the heap but is not stored, of a report that is, of a
withdrawal that is not. With `Apart` and `ReportsApart` these are different
blocks, so one store changes the tally by one block. A new block has a number that no
block in anybody's hands has (`NewBlockFacts`); sums and cardinalities go block
by block (`Induction`). No step of one thread changes what another has booked.

`RecursionOnlyWhenFull` needs a bound on each stack while there is room for a
line of the engine's own. `DepthInv` divides the threads in two. A thread is
doomed once a request no larger than such a line was refused: it owns the mutex,
so nobody frees, it logs the refusal, which makes a request that is refused
again, and it never returns. The others are calm: each kind of activation lies no
deeper than `Placed` says (a reallocation at 1, its request at 2, the line about
the refusal at 3, the line's requests at 4), because a modest line is given
both strings, and what it frees is the heap's and logs nothing. So four
activations are enough, `StackAssumption`; with three, TLC finds a
counterexample in the instance of the run. A real thread's stack has room for
many more.

### Events

The count that `event_fire` read may exceed
the array's length when a callback has unregistered; the invariant (`EventInv`)
says that it never exceeds the slots, and that whatever lies in them was
registered while the fire ran, for every nesting of fires. For a code whose
entries were copied over themselves it says so of listeners and of callbacks
separately (`MadeOf`), since each word that the copy writes was one of those it
read; that listeners are there once each is said of the other codes only.

### Containers

The mapping from the ring queue to the bounded queue reads the contents from
`head` on, `length` places modulo the capacity: head and tail lie in the block
and are `length` apart modulo the capacity, so
the place that an enqueue writes is none of those in use. The invariant behind
`LinearApart` adds types and that `allocated`
never passes the end, even after a sum has wrapped. For a queue and a stack
it says where the first elements lie while there are few, though each index is
scaled twice. For an array, the block has its capacity, its length is that of
the sequence it should hold, and an iterator has not passed the end. For the
table, each slot holds the value last set for one of the strings that are hashed to it.

For the tree, `BstInv` says that its places hang together from the root, that
every key lies between those of its ancestors, that the keys are those of the
map, and that the values are its values until a node with two children was
deleted. A search follows one path, so an insertion ends at the one place where
the order allows the key. A deletion is the hard part: the code copies the next
larger key up, then goes on to delete that key below, and so on down a chain.
Each key of the chain moves to the place of the next smaller one, so the order
stays, and the node that is freed at the end has one child at most, whose subtree
is lifted by one level.

A container is picked at the start and keeps the step relation of its own
module, so the invariant of `Containers` is the disjunction of theirs.

### The engine

`EngineInv` relates four pairs: where main is and what is initialized; the
windows in the array and who holds them, main or the game; the driver's objects
and the windows that are registered; keys that are down and the release events
that still wait. A window's objects are made and destroyed in one step of main,
with any refusal between, so each step has a lemma about what it leaves behind;
objects that are their parents' children are found by `ParentKinds`. Devices
are finite sequences (`GpuAssumption`), and surfaces have a natural number of
formats and modes (`CountsAssumption`).

### Functions without state

The invariant (`Answered`) says that a call that has returned gave the function's
value; the rest is about the functions. What is asked for fits if the driver
keeps what its standard promises of the reports (`DevicesAssumption`,
`SurfacesAssumption`): families have queues, a device lists the extensions that
its features come with, a surface has a format, the mode fifo and a minimum that
is not above its maximum. That says nothing for the mode IMMEDIATE, which
`vulkan_swapchain.c:86` asks for whenever it is not told to wait for the screen
(and `vulkan_backend.c:132`, its only caller, tells it nothing) without a look at the
modes that are there: `Unchecked` excepts that case, and FIFO and MAILBOX are
proved to be there. The three families of a chosen device exist
(`FamiliesAreThere`), and `DeviceRequestFits` goes through the cases in which two
of them are one.

For a texture, `UploadCommands` gives the command at each index, and
`UploadExecuted` follows the layouts through them: while the loop makes level i,
the levels below can be sampled and the others wait to be written (`Split`,
`LevelMade`). The driver's fold becomes a function on indices once
(`TraceExists`). Halving i times is dividing by 2^i (`SidesAreHalved`); that
2^(i+1) is twice 2^i is read from the number of subsets (`PowersOfTwo`),
because the prover knows nothing else of powers.

`TextsMeetHeader` has seven parts and one lemma for each (`NumbersParsed`,
`TextsCompared`, `TextsFound`, `PathsTakenApart`, `TextsEdited`,
`CharactersKept`, `TextsCut`). Where the code does otherwise than `string.h` says, the part
says what it does, and its comment what the header says instead: the slash that a
directory keeps (278), the copy with zeros only behind its length (53), and some more. A text is a sequence of the bytes 1 to 255,
shorter than the buffer on the stack of `cstr_nsplit` (`string.c:455`, 2^14), and what is
made of two short ones fits the buffer they are written to (`TextsAssumption`);
codepoints are those of Unicode but for 0 (`CodepointsAssumption`). Searches and cuts
come down to the least or the greatest index of a set of naturals. A fold is
given as the chain of its values (`IsFold`, `IsChain`), so that `cstr_nsplit`
can be argued like a loop: at each character, what the entries and the buffer
hold is, but for blanks and delimiters, what was read so far (`Ink`), and without
trimming or dropping of empty entries it is that text itself. `CharactersKept`
writes a codepoint in base 64 and goes through its four lengths in UTF-8: the
first byte says how far to advance, and what is put together from the bytes is
the codepoint again.

## What is only model-checked

- Liveness: `CallsReturn` of `Freelist` and of `MemorySystem`, `FiresReturn`,
  `QuitEnds`. The prover has no rules for fairness of these forms.
- `ResizedPartition`, `ResizeCopiesTheList`: they hold for one resize and not for
  two, and no caller resizes a list. A proof needs `IInv` over again, with an
  empty node at the head.

## What is not modelled

- The text of logs, formatting, the printing of usage, floating point,
  mathematics, random numbers, clocks: no state whose order matters.
- Of `platform_linux.c`: showing and hiding windows, the console, sleep.
  `platform_win32.c` repeats its interface.
- Threads: only declared; `thread_create` returns false on Linux.
- `vulkan_swapchain_recreate`: its only call is commented out. Rendering: there
  is none yet.
- Callers that break a contract, such as freeing a foreign address inside the
  allocator's memory, or `freelist_resize` to the same size.

## Plan

What is left, the most useful first.

1. A proof of `ResizedPartition` for one resize.
2. `EventSystem` over `DynamicArray`, with an array that a refused block breaks
   in the middle of a fire.
3. Recreation of a swapchain, and frames, when the renderer gets them.
