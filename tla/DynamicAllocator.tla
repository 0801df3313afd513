-------------------------- MODULE DynamicAllocator -------------------------
(***************************************************************************)
(* memory/allocators/dynamic_allocator.c: blocks with an alignment, cut    *)
(* out of one piece of memory by a free list.                              *)
(*                                                                         *)
(* The allocator keeps no table of its blocks.  What it needs to free one  *)
(* it writes around it, into the memory it hands out:                      *)
(*                                                                         *)
(*     start           ptr - StorageSize    ptr           ptr + size       *)
(*     | slack ........| u32 size          | user region | header | slack  *)
(*                                                                         *)
(* with start and required_size known to the free list.  The model keeps   *)
(* the memory byte by byte, so that a write which runs over another        *)
(* block's size or header destroys it.  The free list is FreeSpace, which  *)
(* Freelist implements.                                                    *)
(*                                                                         *)
(* Sizes are u64.  One near 2^64 makes the sum on line 76 wrap: what is    *)
(* left of it is a small number, the assertion on line 78 lets it pass,    *)
(* and the list gives out less than was asked for.  The size word, cut to  *)
(* a u32, and the header are written by the whole size all the same, the   *)
(* header in front of the block.  A behaviour ends there, "overrun".       *)
(***************************************************************************)
EXTENDS Integers

CONSTANTS
  TotalSize,     \* total_size given to dynamic_allocator_create, in bytes
  MemoryBlock,   \* the address of the first of them
  HeaderSize,    \* sizeof(alloc_header)
  StorageSize,   \* KSIZE_STORAGE, sizeof(u32)
  MaxRequired,   \* 4294967295U, the limit of line 78 and of a u32
  U64Range,      \* 2^64, the first number a u64 cannot hold
  Sizes,         \* the request sizes of the callers
  Alignments     \* the alignments they ask for

ASSUME MemoryAssumption ==
  /\ TotalSize \in Nat \ {0} /\ MemoryBlock \in Nat \ {0}
  /\ HeaderSize \in Nat \ {0} /\ StorageSize \in Nat \ {0}
  /\ MaxRequired \in Nat \ {0} /\ U64Range \in Nat \ {0}

\* The mask of get_aligned rounds to a multiple for powers of two only.
ASSUME RequestAssumption ==
  /\ Sizes \subseteq 1 .. U64Range - 1
  /\ Alignments \subseteq {1, 2, 4, 8, 16, 32, 64, 128, 256, 512, 1024, 2048,
                          4096, 8192, 16384, 32768}

\* The memory does not reach to the end of the address space, so that aligning
\* an address in it does not wrap.
ASSUME AddressAssumption ==
  \A a \in Alignments : MemoryBlock + TotalSize + a <= U64Range

VARIABLES
  status,    \* "created", "destroyed", "trapped" by a failed assertion, or
             \* "overrun" by a size whose sum wrapped
  free,      \* state->list: its free bytes,
  live,      \* the ranges it handed out,
  answer,    \* and what it last answered
  memory,    \* state->memory_block: the word each byte belongs to
  blocks,    \* the blocks [ptr, size, alignment] the callers hold
  result     \* what the last call returned, a pointer or a b8

vars == <<status, free, live, answer, memory, blocks, result>>

List == INSTANCE FreeSpace

Memory == MemoryBlock .. MemoryBlock + TotalSize - 1

-----------------------------------------------------------------------------
(***************************************************************************)
(* Words in memory.  A word that has been written over, in any of its      *)
(* bytes, reads as zero: that is no word the allocator writes.             *)
(***************************************************************************)
zero == [at |-> 0, size |-> 0, start |-> 0, alignment |-> 0]

Store(mem, a, n, w) ==
  [x \in Memory |-> IF x \in a .. a + n - 1 THEN w ELSE mem[x]]

Load(a, n) ==
  IF /\ a .. a + n - 1 \subseteq Memory
     /\ memory[a].at = a
     /\ \A x \in a .. a + n - 1 : memory[x] = memory[a]
  THEN memory[a] ELSE zero

block_size(p) == Load(p - StorageSize, StorageSize).size

header(p) == Load(p + block_size(p), HeaderSize)

\* Mutant: the room for aligning the block is not asked for.
required_size_unaligned(n, a) == (HeaderSize + StorageSize + n) % U64Range

required_size(n, a) == (a + HeaderSize + StorageSize + n) % U64Range

Wraps(n, a) == a + HeaderSize + StorageSize + n >= U64Range

\* Mutant: rounds down.
get_aligned_down(o, g) == (o \div g) * g

get_aligned(o, g) == ((o + (g - 1)) \div g) * g

-----------------------------------------------------------------------------
Init ==
  /\ status = "created"
  /\ List!Init
  /\ memory = [x \in Memory |-> zero]
  /\ blocks = {}
  /\ result = 1

dynamic_allocator_create ==
  /\ status = "destroyed"
  /\ status' = "created"
  /\ List!Fresh("create")
  /\ memory' = [x \in Memory |-> zero]
  /\ result' = 1
  /\ UNCHANGED blocks

dynamic_allocator_destroy ==
  /\ status = "created"
  /\ status' = "destroyed"
  /\ List!Destroy
  /\ memory' = [x \in Memory |-> zero]
  /\ blocks' = {}
  /\ result' = 1

-----------------------------------------------------------------------------
(***************************************************************************)
(* dynamic_allocator_allocate_aligned.                                     *)
(***************************************************************************)
AllocateInvalid(n, a) ==
  /\ status = "created"
  /\ n = 0 \/ a = 0
  /\ result' = 0
  /\ UNCHANGED <<status, free, live, answer, memory, blocks>>

AllocateTrapped(n, a) ==
  /\ status = "created"
  /\ required_size(n, a) >= MaxRequired
  /\ status' = "trapped"
  /\ UNCHANGED <<free, live, answer, memory, blocks, result>>

Allocate(n, a) ==
  /\ status = "created"
  /\ required_size(n, a) < MaxRequired
  /\ List!Allocate(required_size(n, a))
  /\ LET start   == MemoryBlock + answer'.at
         aligned == get_aligned(start + StorageSize, a)
         sized   == [zero EXCEPT !.at = aligned - StorageSize, !.size = n % (MaxRequired + 1)]
         behind  == (aligned + n) % U64Range
         h       == [zero EXCEPT !.at = behind, !.start = start, !.alignment = a]
     IN /\ memory' = Store(Store(memory, aligned - StorageSize, StorageSize, sized),
                           behind, HeaderSize, h)
        /\ blocks' = blocks \cup {[ptr |-> aligned, size |-> n, alignment |-> a]}
        /\ result' = aligned
  /\ status' = IF Wraps(n, a) THEN "overrun" ELSE status

AllocateRefused(n, a) ==
  /\ status = "created"
  /\ required_size(n, a) < MaxRequired
  /\ List!AllocateRefused(required_size(n, a))
  /\ result' = 0
  /\ UNCHANGED <<status, memory, blocks>>

-----------------------------------------------------------------------------
(***************************************************************************)
(* dynamic_allocator_free_aligned, of a block that a caller holds and of   *)
(* an address outside the memory.  The size and the place of what goes     *)
(* back to the list come from the memory around the block.                 *)
(***************************************************************************)
\* Mutant: the free list gets back what the user asked for, and no more.
FreeUserSize(b) ==
  /\ status = "created"
  /\ List!Free([at   |-> header(b.ptr).start - MemoryBlock,
                size |-> block_size(b.ptr) + HeaderSize + StorageSize])
  /\ blocks' = blocks \ {b}
  /\ result' = 1
  /\ UNCHANGED <<status, memory>>

Free(b) ==
  /\ status = "created"
  /\ List!Free([at   |-> header(b.ptr).start - MemoryBlock,
                size |-> required_size(block_size(b.ptr), header(b.ptr).alignment)])
  /\ blocks' = blocks \ {b}
  /\ result' = 1
  /\ UNCHANGED <<status, memory>>

FreeOutside(p) ==
  /\ status = "created"
  /\ p < MemoryBlock \/ p > MemoryBlock + TotalSize
  /\ result' = 0
  /\ UNCHANGED <<status, free, live, answer, memory, blocks>>

\* The callers write to what they hold, and to nothing else.
Write(b) ==
  /\ status = "created"
  /\ memory' = Store(memory, b.ptr, b.size, zero)
  /\ UNCHANGED <<status, free, live, answer, blocks, result>>

-----------------------------------------------------------------------------
Next ==
  \/ \E n \in Sizes, a \in Alignments :
       Allocate(n, a) \/ AllocateRefused(n, a) \/ AllocateTrapped(n, a)
  \/ \E n \in Sizes \cup {0}, a \in Alignments \cup {0} : AllocateInvalid(n, a)
  \/ \E b \in blocks : Free(b) \/ Write(b)
  \/ \E p \in {0, MemoryBlock - 1, MemoryBlock + TotalSize + 1} : FreeOutside(p)
  \/ dynamic_allocator_create
  \/ dynamic_allocator_destroy

Spec == Init /\ [][Next]_vars

-----------------------------------------------------------------------------
(***************************************************************************)
(* dynamic_allocator_get_size_alignment, for a pointer into the memory.    *)
(***************************************************************************)
dynamic_allocator_get_size_alignment(p) ==
  [size |-> block_size(p), alignment |-> header(p).alignment]

(***************************************************************************)
(* What a block's size and alignment were when it was handed out, its own  *)
(* memory still says when it is freed: no other block's size, header or    *)
(* user region overlaps its size or header, and the assertion on line 78   *)
(* keeps out every size that its u32 would cut, but for one so near 2^64   *)
(* that the sum on line 76 wraps past it ("overrun").                      *)
(***************************************************************************)
MetadataIntact ==
  status # "overrun" =>
    \A b \in blocks : dynamic_allocator_get_size_alignment(b.ptr)
                        = [size |-> b.size, alignment |-> b.alignment]

(***************************************************************************)
(* The list has handed out exactly one range for each block that a caller  *)
(* holds, of its required size, and the block lies in it with its size and *)
(* header: a free gives back what the allocation took, so the allocator    *)
(* never leaks a byte (dynamic_allocator_tests.c:62-63, 135-137).  Not so  *)
(* after a request whose sum on line 76 wraps.                             *)
(***************************************************************************)
HoldsWithin(r, b) ==
  /\ r.size = required_size(b.size, b.alignment)
  /\ MemoryBlock + r.at <= b.ptr - StorageSize
  /\ b.ptr + b.size + HeaderSize <= MemoryBlock + r.at + r.size

TakenIsHeld == status # "overrun" =>
  /\ \A b \in blocks : \E r \in live : HoldsWithin(r, b)
  /\ \A r \in live : \E b \in blocks : HoldsWithin(r, b)

(***************************************************************************)
(* The allocator implements Heap: aligned blocks inside the memory, apart  *)
(* from each other, and all of the memory again when none is held.  The    *)
(* one step that Heap has no name for is an allocation whose sum on line   *)
(* 76 wraps, and it is the last.                                           *)
(***************************************************************************)
HP == INSTANCE Heap WITH Room <- TotalSize, Overhead <- HeaderSize + StorageSize

ImplementsHeap == HP!Init /\ [][status' # "overrun" => HP!Next]_(HP!vars)
=============================================================================
