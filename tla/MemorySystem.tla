---------------------------- MODULE MemorySystem ---------------------------
(***************************************************************************)
(* memory/memory.c: allocations of the whole process, counted per tag and  *)
(* serialised by one recursive mutex around a dynamic allocator.           *)
(*                                                                         *)
(* Nothing here is atomic.  A call is a stack of activations per thread,   *)
(* because the calls nest: a reallocation allocates and frees, a request   *)
(* the allocator refuses is logged while the mutex is held, and a log line *)
(* (core/logger.c) allocates two strings, with the same functions and      *)
(* under the same mutex.  A counter is loaded and stored in two steps.     *)
(*                                                                         *)
(* The allocator appears as the sum of its blocks: it refuses a request    *)
(* that does not fit into what is left.  Where its blocks lie is the       *)
(* business of DynamicAllocator.                                           *)
(***************************************************************************)
EXTENDS Integers, Sequences, SequencesExt, FiniteSetsExt

CONSTANTS
  Threads,
  Sizes,       \* the request sizes of the callers
  Capacity,    \* what the allocator can hold
  LogSize,     \* the size of the engine's own log lines
  Tags,        \* the memory tags of the callers
  StringTag,   \* MEMORY_TAG_STRING, the tag of log lines
  MaxHeld,     \* bound: blocks the callers hold, and reports they made
  MaxRefused,  \* bound: refusals after which callers only free
  MaxStack,    \* the activations a thread's stack has room for
  null

ASSUME MemoryAssumption ==
  /\ Capacity \in Nat /\ LogSize \in Nat \ {0} /\ Sizes \subseteq Nat \ {0}
  /\ MaxHeld \in Nat /\ MaxRefused \in Nat /\ MaxStack \in Nat \ {0}
  /\ null \notin Threads /\ IsFiniteSet(Threads)

\* A reallocation that is refused its block, and the line that says so, nest
\* four calls deep: the stacks of real threads are larger.
ASSUME StackAssumption == MaxStack >= 4

VARIABLES
  up,          \* state_ptr is set
  owner,       \* allocation_mutex: the thread that holds it, or null,
  depth,       \* and how often
  counters,    \* allocation_count, total_allocated and tagged_allocations
  heap,        \* the blocks of the allocator
  foreign,     \* the blocks that came from malloc
  held,        \* the blocks the callers hold, from either
  reported,    \* external allocations the callers reported
  stack,       \* per thread, the activations of a call; the innermost last
  refused,     \* requests refused, and
  strays,      \* blocks of malloc freed, since the system is up
  dead         \* a thread has run out of stack

vars ==
  <<up, owner, depth, counters, heap, foreign, held, reported, stack, refused,
    strays, dead>>

AllTags == Tags \cup {StringTag}

Idle(t) == stack[t] = <<>>

Top(t) == Last(stack[t])

-----------------------------------------------------------------------------
(***************************************************************************)
(* Blocks and counters.                                                    *)
(***************************************************************************)
Named ==
  heap \cup foreign \cup reported
    \cup UNION {{stack[t][i].block : i \in DOMAIN stack[t]} : t \in Threads}

NewBlock(n, tag) ==
  LET used == {b.id : b \in Named \ {null}} IN
  [id   |-> Min((1 .. Cardinality(used) + 1) \ used), size |-> n, tag |-> tag]

TotalSize(S) == MapThenSumSet(LAMBDA b : b.size, S)

Fits(n) == TotalSize(heap) + n <= Capacity

\* What the counters should say of a set of blocks.
Tally(S) ==
  [count  |-> Cardinality(S),
   total  |-> TotalSize(S),
   tagged |-> [g \in AllTags |-> TotalSize({b \in S : b.tag = g})]]

NothingCounted == [count |-> 0, total |-> 0, tagged |-> [g \in AllTags |-> 0]]

Tracked(c, n, tag) ==
  [count |-> c.count + 1, total |-> c.total + n, tagged |-> [c.tagged EXCEPT ![tag] = @ + n]]

Untracked(c, n, tag) ==
  [count |-> c.count - 1, total |-> c.total - n, tagged |-> [c.tagged EXCEPT ![tag] = @ - n]]

-----------------------------------------------------------------------------
(***************************************************************************)
(* Activations.                                                            *)
(***************************************************************************)
Activation(proc, at, n, tag, b) ==
  [proc |-> proc, at |-> at, size |-> n, tag |-> tag, block |-> b,
   seen |-> null, got |-> null]

Allocating(n, tag) == Activation("allocate", "enter", n, tag, null)
Freeing(b)         == Activation("free", "enter", b.size, b.tag, b)
Logging(n)         == Activation("log", "format", n, StringTag, null)

At(t, proc, at) ==
  /\ ~ dead /\ ~ Idle(t)
  /\ Top(t).proc \in proc /\ Top(t).at = at

\* The running activation of t becomes a, and goes on.
Become(t, a) ==
  /\ stack' = [stack EXCEPT ![t] = Append(Front(@), a)]
  /\ UNCHANGED <<held, reported, dead>>

\* It becomes a, and calls c; a call too many overruns the stack.
BecomeAndCall(t, a, c) ==
  /\ IF Len(stack[t]) < MaxStack
     THEN /\ stack' = [stack EXCEPT ![t] = Append(Append(Front(@), a), c)]
          /\ UNCHANGED dead
     ELSE dead' = TRUE /\ UNCHANGED stack
  /\ UNCHANGED <<held, reported>>

\* It becomes a, and returns what that got: to the activation that called it,
\* or to a caller, who holds it from now on.
Result(a) ==
  (CASE a.proc = "allocate"   -> {a.got}
     [] a.proc = "reallocate" -> {a.block}
     [] OTHER                 -> {}) \ {null}

Answered(s, b) == [Front(s) EXCEPT ![Len(s) - 1].got = b]

Returns(t, a) ==
  LET last == Len(stack[t]) = 1 IN
  /\ stack' = [stack EXCEPT ![t] = IF last THEN <<>> ELSE Answered(@, a.got)]
  /\ held' = IF last THEN held \cup Result(a) ELSE held
  /\ reported' = IF a.proc = "report" THEN reported \cup {a.block} ELSE reported
  /\ UNCHANGED dead

-----------------------------------------------------------------------------
Init ==
  /\ up = FALSE
  /\ owner = null /\ depth = 0
  /\ counters = NothingCounted
  /\ heap = {} /\ foreign = {} /\ held = {} /\ reported = {}
  /\ stack = [t \in Threads |-> <<>>]
  /\ refused = 0 /\ strays = 0
  /\ dead = FALSE

(***************************************************************************)
(* The engine starts and stops the system while no other call runs.  What  *)
(* is still allocated goes with it.                                        *)
(***************************************************************************)
memory_system_initialize ==
  /\ ~ up /\ \A t \in Threads : Idle(t)
  /\ up' = TRUE
  /\ counters' = NothingCounted
  /\ refused' = 0 /\ strays' = 0
  /\ UNCHANGED <<owner, depth, heap, foreign, held, reported, stack, dead>>

memory_system_shutdown ==
  /\ up /\ \A t \in Threads : Idle(t)
  /\ up' = FALSE
  /\ heap' = {} /\ held' = held \ heap /\ reported' = {}
  /\ counters' = NothingCounted
  /\ refused' = 0 /\ strays' = 0
  /\ UNCHANGED <<owner, depth, foreign, stack, dead>>

-----------------------------------------------------------------------------
(***************************************************************************)
(* The calls of the engine and the application.  A caller lets go of a     *)
(* block when it frees or reallocates it.  memory_reallocate_report is     *)
(* memory_free_report and then memory_allocate_report, as if called apart. *)
(***************************************************************************)
Call(t, a) ==
  /\ ~ dead /\ Idle(t)
  /\ stack' = [stack EXCEPT ![t] = <<a>>]
  /\ UNCHANGED <<up, owner, depth, counters, heap, foreign, refused, strays, dead>>

memory_allocate(t, n, tag) ==
  /\ Cardinality(held \cup reported) < MaxHeld /\ refused < MaxRefused
  /\ Call(t, Allocating(n, tag))
  /\ UNCHANGED <<held, reported>>

memory_free(t, b) ==
  /\ Call(t, Freeing(b))
  /\ held' = held \ {b}
  /\ UNCHANGED reported

memory_reallocate(t, b, n) ==
  /\ refused < MaxRefused
  /\ Call(t, Activation("reallocate", "allocate", n, b.tag, b))
  /\ held' = held \ {b}
  /\ UNCHANGED reported

memory_allocate_report(t, n, tag) ==
  /\ up /\ Cardinality(held \cup reported) < MaxHeld
  /\ Call(t, Activation("report", "enter", n, tag, NewBlock(n, tag)))
  /\ UNCHANGED <<held, reported>>

memory_free_report(t, b) ==
  /\ up
  /\ Call(t, Activation("free_report", "enter", b.size, b.tag, b))
  /\ reported' = reported \ {b}
  /\ UNCHANGED held

log_output(t, n) ==
  /\ refused < MaxRefused
  /\ Call(t, Logging(n))
  /\ UNCHANGED <<held, reported>>

-----------------------------------------------------------------------------
(***************************************************************************)
(* The mutex, and the counters inside it, which are loaded when the mutex  *)
(* is had and stored later.                                                *)
(***************************************************************************)
Locking == {"allocate", "free", "report", "free_report"}

Enter(t) ==
  /\ up /\ At(t, Locking, "enter")
  /\ owner' = t
  /\ depth' = depth + 1
  /\ Become(t, IF Top(t).proc = "free" THEN [Top(t) EXCEPT !.at = "locked"]
               ELSE [Top(t) EXCEPT !.at = "loaded", !.seen = counters])
  /\ UNCHANGED <<up, counters, heap, foreign, refused, strays>>

\* Mutant: a thread that has the mutex waits for it.
mutex_lock_once(t) == owner = null /\ Enter(t)

\* Mutant: nobody waits.
mutex_lock_at_once(t) == Enter(t)

mutex_lock(t) == owner \in {null, t} /\ Enter(t)

Store(t) ==
  counters' = IF Top(t).proc \in {"allocate", "report"}
              THEN Tracked(Top(t).seen, Top(t).size, Top(t).tag)
              ELSE Untracked(Top(t).seen, Top(t).size, Top(t).tag)

\* All but memory_allocate_aligned leave the mutex next.
StoreCounters(t) ==
  /\ At(t, Locking \ {"allocate"}, "loaded")
  /\ Store(t)
  /\ Become(t, [Top(t) EXCEPT !.at = "unlock", !.seen = null])
  /\ UNCHANGED <<up, owner, depth, heap, foreign, refused, strays>>

\* Mutant: one unlock undoes all the locks, as if the mutex were not recursive.
mutex_unlock_wholly(t) ==
  /\ At(t, Locking, "unlock")
  /\ owner' = null
  /\ depth' = 0
  /\ IF Top(t).proc = "allocate" /\ Top(t).got = null
     THEN Become(t, [Top(t) EXCEPT !.at = "complain"])
     ELSE Returns(t, Top(t))
  /\ foreign' = IF Top(t).proc = "free" THEN foreign \ {Top(t).block} ELSE foreign
  /\ UNCHANGED <<up, counters, heap, refused, strays>>

mutex_unlock(t) ==
  /\ At(t, Locking, "unlock")
  /\ owner' = IF depth = 1 THEN null ELSE owner
  /\ depth' = depth - 1
  /\ IF Top(t).proc = "allocate" /\ Top(t).got = null
     THEN Become(t, [Top(t) EXCEPT !.at = "complain"])
     ELSE Returns(t, Top(t))
  /\ foreign' = IF Top(t).proc = "free" THEN foreign \ {Top(t).block} ELSE foreign
  /\ UNCHANGED <<up, counters, heap, refused, strays>>

-----------------------------------------------------------------------------
(***************************************************************************)
(* memory_allocate_aligned.  A refusal is logged by the free list and the  *)
(* allocator, with the mutex held, and once more without it; the lines of  *)
(* each place stand for one.                                               *)
(***************************************************************************)
AllocateGranted(t) ==
  /\ At(t, {"allocate"}, "loaded")
  /\ Store(t)
  /\ Fits(Top(t).size)
  /\ LET b == NewBlock(Top(t).size, Top(t).tag) IN
       /\ heap' = heap \cup {b}
       /\ Become(t, [Top(t) EXCEPT !.at = "unlock", !.seen = null, !.got = b])
  /\ UNCHANGED <<up, owner, depth, foreign, refused, strays>>

AllocateRefused(t) ==
  /\ At(t, {"allocate"}, "loaded")
  /\ Store(t)
  /\ ~ Fits(Top(t).size)
  /\ refused' = refused + 1
  /\ BecomeAndCall(t, [Top(t) EXCEPT !.at = "unlock", !.seen = null], Logging(LogSize))
  /\ UNCHANGED <<up, owner, depth, heap, foreign, strays>>

AllocateComplains(t) ==
  /\ At(t, {"allocate"}, "complain")
  /\ BecomeAndCall(t, [Top(t) EXCEPT !.at = "return"], Logging(LogSize))
  /\ UNCHANGED <<up, owner, depth, counters, heap, foreign, refused, strays>>

\* Before the system is up, and after, the C library allocates and frees.
AllocateOutside(t) ==
  /\ ~ up /\ At(t, {"allocate"}, "enter")
  /\ LET b == NewBlock(Top(t).size, Top(t).tag) IN
       /\ foreign' = foreign \cup {b}
       /\ Returns(t, [Top(t) EXCEPT !.got = b])
  /\ UNCHANGED <<up, owner, depth, counters, heap, refused, strays>>

FreeOutside(t) ==
  /\ ~ up /\ At(t, {"free"}, "enter")
  /\ foreign' = foreign \ {Top(t).block}
  /\ Returns(t, Top(t))
  /\ UNCHANGED <<up, owner, depth, counters, heap, refused, strays>>

-----------------------------------------------------------------------------
(***************************************************************************)
(* memory_free_aligned.  A block that is not the allocator's is logged as  *)
(* a mismatch, untracked all the same, and given to free in the end.       *)
(***************************************************************************)
\* Mutant: every free finds a mismatch to log.
FreeOwnMismatched(t) ==
  /\ At(t, {"free"}, "locked")
  /\ Top(t).block \in heap
  /\ heap' = heap \ {Top(t).block}
  /\ BecomeAndCall(t, [Top(t) EXCEPT !.at = "logged"], Logging(LogSize))
  /\ UNCHANGED <<up, owner, depth, counters, foreign, refused, strays>>

FreeOwn(t) ==
  /\ At(t, {"free"}, "locked")
  /\ Top(t).block \in heap
  /\ heap' = heap \ {Top(t).block}
  /\ Become(t, [Top(t) EXCEPT !.at = "loaded", !.seen = counters])
  /\ UNCHANGED <<up, owner, depth, counters, foreign, refused, strays>>

FreeForeign(t) ==
  /\ At(t, {"free"}, "locked")
  /\ Top(t).block \notin heap
  /\ strays' = strays + 1
  /\ BecomeAndCall(t, [Top(t) EXCEPT !.at = "logged"], Logging(LogSize))
  /\ UNCHANGED <<up, owner, depth, counters, heap, foreign, refused>>

FreeForeignLoads(t) ==
  /\ At(t, {"free"}, "logged")
  /\ Become(t, [Top(t) EXCEPT !.at = "loaded", !.seen = counters])
  /\ UNCHANGED <<up, owner, depth, counters, heap, foreign, refused, strays>>

-----------------------------------------------------------------------------
(***************************************************************************)
(* memory_reallocate_aligned: two calls, with nothing held between them.   *)
(* Without a new block the caller is left with the old one.                *)
(***************************************************************************)
ReallocateAllocates(t) ==
  /\ At(t, {"reallocate"}, "allocate")
  /\ BecomeAndCall(t, [Top(t) EXCEPT !.at = "copy"], Allocating(Top(t).size, Top(t).tag))
  /\ UNCHANGED <<up, owner, depth, counters, heap, foreign, refused, strays>>

\* Mutant: the old block is freed although there is no new one.
ReallocateFreesAnyway(t) ==
  /\ At(t, {"reallocate"}, "copy")
  /\ BecomeAndCall(t, [Top(t) EXCEPT !.at = "return",
                                     !.block = IF Top(t).got = null THEN @ ELSE Top(t).got],
                   Freeing(Top(t).block))
  /\ UNCHANGED <<up, owner, depth, counters, heap, foreign, refused, strays>>

ReallocateCopies(t) ==
  /\ At(t, {"reallocate"}, "copy")
  /\ IF Top(t).got # null
     THEN BecomeAndCall(t, [Top(t) EXCEPT !.at = "return", !.block = Top(t).got],
                        Freeing(Top(t).block))
     ELSE Returns(t, Top(t))
  /\ UNCHANGED <<up, owner, depth, counters, heap, foreign, refused, strays>>

-----------------------------------------------------------------------------
(***************************************************************************)
(* log_output: the formatted line, the same with its prefix, the console,  *)
(* and the two strings are freed.  A line there was no memory for prints   *)
(* as "(null)", and cstr_free logs that there was nothing to free.         *)
(***************************************************************************)
LogFormats(t) ==
  /\ At(t, {"log"}, "format")
  /\ BecomeAndCall(t, [Top(t) EXCEPT !.at = "prefix"], Allocating(Top(t).size, StringTag))
  /\ UNCHANGED <<up, owner, depth, counters, heap, foreign, refused, strays>>

LogPrefixes(t) ==
  /\ At(t, {"log"}, "prefix")
  /\ BecomeAndCall(t, [Top(t) EXCEPT !.at = "write", !.block = Top(t).got],
                   Allocating(IF Top(t).got = null THEN LogSize ELSE Top(t).size,
                              StringTag))
  /\ UNCHANGED <<up, owner, depth, counters, heap, foreign, refused, strays>>

\* cstr_free(b).
ReleasingString(b) == IF b = null THEN Logging(LogSize) ELSE Freeing(b)

LogWrites(t) ==
  /\ At(t, {"log"}, "write")
  /\ BecomeAndCall(t, [Top(t) EXCEPT !.at = "release", !.block = Top(t).got],
                   ReleasingString(Top(t).block))
  /\ UNCHANGED <<up, owner, depth, counters, heap, foreign, refused, strays>>

LogReleases(t) ==
  /\ At(t, {"log"}, "release")
  /\ BecomeAndCall(t, [Top(t) EXCEPT !.at = "return", !.block = null],
                   ReleasingString(Top(t).block))
  /\ UNCHANGED <<up, owner, depth, counters, heap, foreign, refused, strays>>

-----------------------------------------------------------------------------
\* The activations that end with a call of theirs.
CallReturns(t) ==
  /\ At(t, {"allocate", "reallocate", "log"}, "return")
  /\ Returns(t, Top(t))
  /\ UNCHANGED <<up, owner, depth, counters, heap, foreign, refused, strays>>

Step(t) ==
  \/ mutex_lock(t) \/ mutex_unlock(t) \/ StoreCounters(t)
  \/ AllocateGranted(t) \/ AllocateRefused(t) \/ AllocateComplains(t)
  \/ AllocateOutside(t) \/ FreeOutside(t) \/ FreeOwn(t) \/ FreeForeign(t)
  \/ FreeForeignLoads(t)
  \/ ReallocateAllocates(t) \/ ReallocateCopies(t)
  \/ LogFormats(t) \/ LogPrefixes(t) \/ LogWrites(t) \/ LogReleases(t)
  \/ CallReturns(t)

NewCall(t) ==
  \/ \E n \in Sizes, tag \in Tags :
       memory_allocate(t, n, tag) \/ memory_allocate_report(t, n, tag)
  \/ \E b \in held :
       memory_free(t, b) \/ \E n \in Sizes : memory_reallocate(t, b, n)
  \/ \E b \in reported : memory_free_report(t, b)
  \/ \E n \in Sizes : log_output(t, n)

Next ==
  \/ memory_system_initialize \/ memory_system_shutdown
  \/ \E t \in Threads : NewCall(t) \/ Step(t)

\* A thread that can run does, but nobody has to make a call, and the mutex
\* goes to whom it likes.
Spec == Init /\ [][Next]_vars /\ \A t \in Threads : WF_vars(Step(t))

-----------------------------------------------------------------------------
Block == [id : Nat, size : Nat, tag : AllTags]

ASSUME NullAssumption == null \notin Block

Count ==
  [count : Int, total : Int, tagged : [AllTags -> Int]]

Places ==
  {"enter", "locked", "logged", "loaded", "unlock", "complain", "return",
   "allocate", "copy", "format", "prefix", "write", "release"}

Frame ==
  [proc : Locking \cup {"reallocate", "log"}, at : Places, size : Nat, tag : AllTags,
   block : Block \cup {null}, seen : Count \cup {null}, got : Block \cup {null}]

(***************************************************************************)
(* The mutex counts as many entries as there are activations of its owner  *)
(* between lock and unlock, and none of anybody else.  Hence the counters  *)
(* that an activation is about to store are the ones it loaded, with its   *)
(* own request added: nobody stored others meanwhile.                      *)
(***************************************************************************)
Inside(a) ==
  a.proc \in Locking /\ a.at \in {"locked", "logged", "loaded", "unlock"}

Entries(s) == Cardinality({i \in DOMAIN s : Inside(s[i])})

MutexSerialises ==
  /\ IF owner = null THEN depth = 0 ELSE owner \in Threads /\ depth > 0
  /\ \A t \in Threads : Entries(stack[t]) = IF owner = t THEN depth ELSE 0
  /\ \A t \in Threads : ~ Idle(t) /\ Top(t).at = "loaded" /\ ~ dead => Top(t).seen = counters

(***************************************************************************)
(* Types, and the order that the mutex gives to the threads.               *)
(***************************************************************************)
TypeOK ==
  /\ up \in BOOLEAN /\ dead \in BOOLEAN
  /\ counters \in Count /\ refused \in Nat /\ strays \in Nat /\ depth \in Nat
  /\ heap \cup foreign \cup held \cup reported \subseteq Block
  /\ heap \cap foreign = {}
  /\ stack \in [Threads -> Seq(Frame)]
  /\ \A t \in Threads : Len(stack[t]) <= MaxStack
  /\ MutexSerialises

(***************************************************************************)
(* When nobody has the mutex, the counters say what is allocated and       *)
(* reported, in all and for each tag, whatever the threads are in the      *)
(* middle of: no update is lost.  memory.h says that each allocation "is   *)
(* tracked for the provided tag".  Excepted is what the code does not      *)
(* count right: a request that was refused, and a block of malloc that is  *)
(* freed once the system is up.                                            *)
(***************************************************************************)
Withdrawing ==
  {Top(t).block : t \in {u \in Threads : ~ Idle(u) /\ Top(u).proc = "free_report"}}

Tracking == heap \cup reported \cup Withdrawing

CountersMatch ==
  up /\ owner = null /\ refused = 0 /\ strays = 0 => counters = Tally(Tracking)

\* What the two comments of memory.h (38-39 and 66) promise without exception,
\* for blocks that are the allocator's own.
EveryAllocationTracked ==
  up /\ owner = null /\ strays = 0 => counters = Tally(Tracking)

(***************************************************************************)
(* What a caller holds is allocated, also after a reallocation that found  *)
(* no room, and what is allocated has somebody left to free it: a caller,  *)
(* or a call that still runs.                                              *)
(***************************************************************************)
InCalls ==
  UNION {UNION {{stack[t][i].block, stack[t][i].got} : i \in DOMAIN stack[t]}
           : t \in Threads}

Ownership ==
  /\ held \subseteq heap \cup foreign
  /\ heap \cup foreign \subseteq held \cup InCalls

(***************************************************************************)
(* The functions log, and logging calls them.  The recursion runs out of   *)
(* stack only when there is no memory left for a line of the engine's own. *)
(***************************************************************************)
RecursionOnlyWhenFull == dead => ~ Fits(LogSize)

(***************************************************************************)
(* No deadlock, and no thread left behind: once no new calls are made,     *)
(* every call returns, though it logs and frees with the mutex held,       *)
(* unless the process has died.                                            *)
(***************************************************************************)
CallsReturn ==
  <>[][\A t \in Threads : ~ NewCall(t)]_vars
    => \A t \in Threads : ~ Idle(t) ~> Idle(t) \/ dead
=============================================================================
