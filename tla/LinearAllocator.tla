---------------------------- MODULE LinearAllocator ----------------------------
(***************************************************************************)
(* memory/allocators/linear_allocator.c: blocks are handed out one after   *)
(* the other and given back all at once.  The bound check adds in 64 bits  *)
(* and may wrap.  ideal is the set of blocks handed out since.             *)
(***************************************************************************)
EXTENDS ContainerState

CONSTANTS
  Word,            \* the values of a u64: 0 .. Word - 1
  TotalSizes,      \* sizes that allocators are created with
  RequestSizes,    \* sizes that callers ask for
  MaxLinearBlocks  \* bound: blocks handed out at a time

ASSUME LinearAssumption ==
  /\ Word \in Nat \ {0}
  /\ TotalSizes \subseteq 0 .. Word - 1
  /\ RequestSizes \subseteq 0 .. Word - 1
  /\ MaxLinearBlocks \in Nat

no_linear_allocator ==
  [total_size |-> 0, allocated |-> 0, memory |-> nullptr, owns_memory |-> FALSE]

LinearInit ==
  /\ subject = "linear"
  /\ object = no_linear_allocator
  /\ ideal = {}
  /\ answer = "none"

\* Memory of the caller's, or from memory_allocate, which may refuse.
linear_allocator_create(total_size, given) ==
  /\ Calls("linear")
  /\ object = no_linear_allocator
  /\ \E memory \in {"block"} \cup (IF given THEN {} ELSE {nullptr}) :
       object' = [total_size |-> total_size, allocated |-> 0, memory |-> memory,
                  owns_memory |-> ~given]
  /\ ideal' = {}
  /\ answer' = "done"
  /\ UNCHANGED subject

(***************************************************************************)
(* The struct forgets its own memory, but not that of the caller's.        *)
(***************************************************************************)
linear_allocator_destroy ==
  /\ Calls("linear")
  /\ object' = [object EXCEPT !.total_size = 0, !.allocated = 0,
                  !.memory = IF object.owns_memory THEN nullptr ELSE @,
                  !.owns_memory = @ /\ object.memory = nullptr]
  /\ ideal' = {}
  /\ answer' = "done"
  /\ UNCHANGED subject

\* Mutant: the check looks at the size alone.
linear_allocator_allocate_unchecked(size) ==
  /\ Calls("linear")
  /\ Cardinality(ideal) < MaxLinearBlocks
  /\ \/ object.memory = nullptr /\ Returns("refused")
     \/ object.memory # nullptr /\ size > object.total_size /\ Returns("refused")
     \/ /\ object.memory # nullptr /\ size <= object.total_size
        /\ object' = [object EXCEPT !.allocated = (@ + size) % Word]
        /\ ideal' = ideal \cup {[at |-> object.allocated, size |-> size]}
        /\ answer' = "block"
  /\ UNCHANGED subject

linear_allocator_allocate(size) ==
  LET end == (object.allocated + size) % Word IN
    /\ Calls("linear")
    /\ Cardinality(ideal) < MaxLinearBlocks
    /\ \/ object.memory = nullptr /\ Returns("refused")
       \/ object.memory # nullptr /\ end > object.total_size /\ Returns("refused")
       \/ /\ object.memory # nullptr /\ end <= object.total_size
          /\ object' = [object EXCEPT !.allocated = end]
          /\ ideal' = ideal \cup {[at |-> object.allocated, size |-> size]}
          /\ answer' = "block"
    /\ UNCHANGED subject

\* Whether the memory is cleared as well makes no difference to its blocks.
linear_allocator_free_all ==
  /\ Calls("linear")
  /\ object' = [object EXCEPT !.allocated = IF object.memory = nullptr THEN @ ELSE 0]
  /\ ideal' = IF object.memory = nullptr THEN ideal ELSE {}
  /\ answer' = "done"
  /\ UNCHANGED subject

LinearNext ==
  \/ \E n \in TotalSizes, given \in BOOLEAN : linear_allocator_create(n, given)
  \/ linear_allocator_destroy
  \/ \E n \in RequestSizes : linear_allocator_allocate(n)
  \/ linear_allocator_free_all

LinearSpec == LinearInit /\ [][LinearNext]_vars

-----------------------------------------------------------------------------
End(b) == b.at + b.size

Apart(b, c) == End(b) <= c.at \/ End(c) <= b.at

\* A request so large that the sum in the bound check wrapped.
Wrapped == \E b \in ideal : End(b) >= Word

\* The blocks handed out since the last free_all lie in the allocator's memory
\* and do not overlap, except after a request whose sum with what is allocated
\* wraps around 64 bits, which linear_allocator_allocate does not notice.
LinearBlocksApart ==
  subject = "linear" /\ ~Wrapped =>
    /\ object.allocated <= object.total_size
    /\ \A b \in ideal : End(b) <= object.allocated
    /\ \A b, c \in ideal : b = c \/ Apart(b, c)
=============================================================================
