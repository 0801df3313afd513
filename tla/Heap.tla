-------------------------------- MODULE Heap -------------------------------
(***************************************************************************)
(* What the dynamic allocator promises to the memory system: blocks that   *)
(* are aligned, inside the memory and apart from each other, that stay     *)
(* where they are until they are freed.  A heap without blocks has all its *)
(* room again, whatever was allocated and freed before.                    *)
(***************************************************************************)
EXTENDS Integers

CONSTANTS
  Memory,      \* the addresses the heap may hand out
  Room,        \* the size of the largest request an empty heap must serve,
               \* with Overhead
  Overhead,    \* the bytes a block costs beside its size and alignment
  Sizes,       \* the request sizes of the callers
  Alignments   \* the alignments they ask for

VARIABLES
  blocks,      \* the blocks [ptr, size, alignment] of the callers
  result       \* what the last call returned: a pointer (0 for null), or
               \* 1 for true and 0 for false

vars == <<blocks, result>>

Region(b) == b.ptr .. b.ptr + b.size - 1

Init == blocks = {} /\ result \in {0, 1}

Allocate(n, a) ==
  \E p \in Memory :
    LET b == [ptr |-> p, size |-> n, alignment |-> a] IN
    /\ p % a = 0
    /\ Region(b) \subseteq Memory
    /\ \A c \in blocks : Region(b) \cap Region(c) = {}
    /\ blocks' = blocks \cup {b}
    /\ result' = p

AllocateFails(n, a) ==
  /\ n > 0 /\ a > 0 => blocks # {} \/ a + Overhead + n > Room
  /\ result' = 0
  /\ UNCHANGED blocks

Free(b) ==
  /\ blocks' = blocks \ {b}
  /\ result' = 1

FreeFails ==
  /\ result' = 0
  /\ UNCHANGED blocks

\* Destroying the heap takes the callers' blocks with it.
Reset ==
  /\ blocks' = {}
  /\ result' \in {0, 1}

Next ==
  \/ \E n \in Sizes, a \in Alignments : Allocate(n, a)
  \/ \E n \in Sizes \cup {0}, a \in Alignments \cup {0} : AllocateFails(n, a)
  \/ \E b \in blocks : Free(b)
  \/ FreeFails
  \/ Reset

Spec == Init /\ [][Next]_vars
=============================================================================
