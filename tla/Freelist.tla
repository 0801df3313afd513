------------------------------ MODULE Freelist ------------------------------
(***************************************************************************)
(* The free list of containers/freelist.c: a singly linked list of free    *)
(* ranges, kept in order of offset, whose nodes live in a fixed array.     *)
(*                                                                         *)
(* freelist_allocate_block and freelist_free_block walk the list.  Here    *)
(* the walk is not collapsed: entering a call is one action, and so is     *)
(* each iteration of its while loop, with the loop's locals node and       *)
(* previous as variables.  The loop invariants of the C code are then      *)
(* state invariants of this specification.                                 *)
(*                                                                         *)
(* The list does not remember what it handed out.  The variables live and  *)
(* freeing do: the blocks the callers hold, and the one a running          *)
(* freelist_free_block was given back.  Callers free what they hold, or    *)
(* free again a range that is already free where the code can tell.        *)
(***************************************************************************)
EXTENDS Integers, FiniteSets

CONSTANTS
  TotalSize,    \* total_size given to freelist_create, in bytes
  EntrySpan,    \* sizeof(void*) * sizeof(freelist_node): bytes per node, 192
  MinEntries,   \* the least number of nodes, 20 in the code
  Sizes,        \* the request sizes of the callers
  nullptr

(***************************************************************************)
(* One node per EntrySpan bytes, and never fewer than MinEntries.          *)
(***************************************************************************)
max_entries ==
  IF TotalSize \div EntrySpan < MinEntries THEN MinEntries
                                           ELSE TotalSize \div EntrySpan

Slots == 0 .. max_entries - 1

ASSUME TotalSizeAssumption == TotalSize \in Nat \ {0}
ASSUME EntriesAssumption   == EntrySpan \in Nat \ {0} /\ MinEntries \in Nat \ {0}
ASSUME SizesAssumption     == Sizes \subseteq Nat \ {0}
ASSUME NullAssumption      == nullptr \notin Nat

VARIABLES
  nodes,      \* internal_state.nodes: Slots -> [offset, size, next]
  head,       \* internal_state.head: a slot or nullptr
  pc,         \* the running call, or what the process died of
  node,       \* local of the running call: the node under the cursor
  previous,   \* local of the running call: the node before it
  want,       \* argument size of the running call
  at,         \* argument offset of a running freelist_free_block
  live,       \* the blocks [at, size] the callers hold
  freeing,    \* the block a running freelist_free_block gives back, or {}
  answer      \* what the last call returned

vars == <<nodes, head, pc, node, previous, want, at, live, freeing, answer>>

empty_node == [offset |-> 0, size |-> 0, next |-> nullptr]

Node  == [offset : Nat, size : Nat, next : Slots \cup {nullptr}]
Block == [at : Nat, size : Nat]

Faults == {"null_node", "null_head"}

UsedIn(ns) == {i \in Slots : ns[i].size > 0}

EndIn(ns, i) == ns[i].offset + ns[i].size

Used   == UsedIn(nodes)
End(i) == EndIn(nodes, i)

-----------------------------------------------------------------------------
(***************************************************************************)
(* The node pool.  A slot is free when its size is 0; slot 0, the head     *)
(* that freelist_create sets up, is never handed out again.                *)
(***************************************************************************)
FreeSlots == (Slots \ Used) \ {0}

get_node ==
  IF FreeSlots = {} THEN nullptr
  ELSE CHOOSE i \in FreeSlots : \A j \in FreeSlots : i <= j

\* Mutant: neighbours that touch stay apart.
JoinNever(ns, i) == ns

(***************************************************************************)
(* Joins node i of the node array ns with its successor when the two       *)
(* ranges touch, and returns the successor to the pool.                    *)
(***************************************************************************)
JoinNext(ns, i) ==
  LET j == ns[i].next IN
  IF j # nullptr /\ ns[i].offset + ns[i].size = ns[j].offset
  THEN [ns EXCEPT ![i].size = @ + ns[j].size,
                  ![i].next = ns[j].next,
                  ![j]      = empty_node]
  ELSE ns

(***************************************************************************)
(* The frame of a call: it enters at the head of the list, and leaves with *)
(* an answer or by dereferencing a null pointer.                           *)
(***************************************************************************)
Enter(call, n, o) ==
  /\ pc = "idle"
  /\ pc' = call
  /\ node' = head
  /\ previous' = nullptr
  /\ want' = n
  /\ at' = o
  /\ UNCHANGED <<nodes, head, answer>>

Return(ok, o) ==
  /\ pc' = "idle"
  /\ node' = nullptr
  /\ previous' = nullptr
  /\ want' = 0
  /\ at' = 0
  /\ freeing' = {}
  /\ answer' = [call |-> pc, ok |-> ok, size |-> want, at |-> o]

Fault(kind) ==
  /\ pc' = kind
  /\ UNCHANGED <<nodes, head, node, previous, want, at, live, freeing, answer>>

Advance ==
  /\ previous' = node
  /\ node' = nodes[node].next
  /\ UNCHANGED <<nodes, head, pc, want, at, live, freeing, answer>>

-----------------------------------------------------------------------------
(***************************************************************************)
(* freelist_create and freelist_destroy.                                   *)
(***************************************************************************)
first_nodes ==
  [i \in Slots |-> IF i = 0 THEN [empty_node EXCEPT !.size = TotalSize]
                            ELSE empty_node]

Init ==
  /\ nodes = first_nodes
  /\ head = 0
  /\ pc = "idle"
  /\ node = nullptr
  /\ previous = nullptr
  /\ want = 0
  /\ at = 0
  /\ live = {}
  /\ freeing = {}
  /\ answer = [call |-> "create", ok |-> TRUE, size |-> 0, at |-> 0]

freelist_create ==
  /\ pc = "destroyed"
  /\ pc' = "idle"
  /\ nodes' = first_nodes
  /\ head' = 0
  /\ answer' = [call |-> "create", ok |-> TRUE, size |-> 0, at |-> 0]
  /\ UNCHANGED <<node, previous, want, at, live, freeing>>

freelist_destroy ==
  /\ pc = "idle"
  /\ pc' = "destroyed"
  /\ nodes' = [i \in Slots |-> empty_node]
  /\ head' = nullptr
  /\ live' = {}
  /\ answer' = [call |-> "destroy", ok |-> TRUE, size |-> 0, at |-> 0]
  /\ UNCHANGED <<node, previous, want, at, freeing>>

(***************************************************************************)
(* A call on a destroyed list, and a free of no bytes, return false.       *)
(***************************************************************************)
Refuse(call, n) ==
  /\ \/ pc = "destroyed"
     \/ pc = "idle" /\ call = "free" /\ n = 0
  /\ answer' = [call |-> call, ok |-> FALSE, size |-> n, at |-> 0]
  /\ UNCHANGED <<nodes, head, pc, node, previous, want, at, live, freeing>>

-----------------------------------------------------------------------------
(***************************************************************************)
(* freelist_allocate_block: first fit.  A node of exactly the size leaves  *)
(* the list; a larger one gives up its left end.                           *)
(***************************************************************************)
CallAllocate(n) ==
  /\ Enter("allocate", n, 0)
  /\ UNCHANGED <<live, freeing>>

Grant(o) ==
  /\ live' = live \cup {[at |-> o, size |-> want]}
  /\ Return(TRUE, o)

\* Mutant: the node leaves the list as if it were the head.
AllocateExactLosesPrevious ==
  /\ pc = "allocate" /\ node # nullptr
  /\ nodes[node].size = want
  /\ nodes' = [nodes EXCEPT ![node] = empty_node]
  /\ head' = nodes[node].next
  /\ Grant(nodes[node].offset)

\* Mutant: the list ends at its head.
AllocateExactDropsRest ==
  /\ pc = "allocate" /\ node # nullptr
  /\ nodes[node].size = want
  /\ nodes' = [nodes EXCEPT ![node] = empty_node]
  /\ head' = nullptr
  /\ Grant(nodes[node].offset)

AllocateExact ==
  /\ pc = "allocate" /\ node # nullptr
  /\ nodes[node].size = want
  /\ IF previous # nullptr
     THEN /\ nodes' = [nodes EXCEPT ![previous].next = nodes[node].next,
                                    ![node] = empty_node]
          /\ UNCHANGED head
     ELSE /\ nodes' = [nodes EXCEPT ![head] = empty_node]
          /\ head' = nodes[node].next
  /\ Grant(nodes[node].offset)

\* Mutant: the larger node shrinks, but does not move.
AllocateSplitKeepsOffset ==
  /\ pc = "allocate" /\ node # nullptr
  /\ nodes[node].size > want
  /\ nodes' = [nodes EXCEPT ![node].size = @ - want]
  /\ Grant(nodes[node].offset)
  /\ UNCHANGED head

\* Mutant: the larger node gives up its right end.
AllocateSplitFromRight ==
  /\ pc = "allocate" /\ node # nullptr
  /\ nodes[node].size > want
  /\ nodes' = [nodes EXCEPT ![node].size = @ - want]
  /\ Grant(End(node) - want)
  /\ UNCHANGED head

\* Mutant: a node too small for the block is cut as well.
AllocateSplitTooSmall ==
  /\ pc = "allocate" /\ node # nullptr
  /\ nodes[node].size # want
  /\ nodes' = [nodes EXCEPT ![node].size = @ - want, ![node].offset = @ + want]
  /\ Grant(nodes[node].offset)
  /\ UNCHANGED head

AllocateSplit ==
  /\ pc = "allocate" /\ node # nullptr
  /\ nodes[node].size > want
  /\ nodes' = [nodes EXCEPT ![node].size = @ - want, ![node].offset = @ + want]
  /\ Grant(nodes[node].offset)
  /\ UNCHANGED head

\* Mutant: a node of exactly the size may be passed over.
AllocateAdvancePastExact ==
  /\ pc = "allocate" /\ node # nullptr
  /\ nodes[node].size <= want
  /\ Advance

AllocateAdvance ==
  /\ pc = "allocate" /\ node # nullptr
  /\ nodes[node].size < want
  /\ Advance

AllocateRefused ==
  /\ pc = "allocate" /\ node = nullptr
  /\ Return(FALSE, 0)
  /\ UNCHANGED <<nodes, head, live>>

-----------------------------------------------------------------------------
(***************************************************************************)
(* freelist_free_block.  A block the callers hold leaves live when the     *)
(* call starts.  A range freed again is one the list can recognise: it     *)
(* starts a free range, or lies inside the last one.                       *)
(***************************************************************************)
CallFree(b) ==
  /\ Enter("free", b.size, b.at)
  /\ live' = live \ {b}
  /\ freeing' = {b}

Recognised(b, i) ==
  /\ b.at + b.size <= End(i)
  /\ \/ nodes[i].offset = b.at
     \/ nodes[i].next = nullptr /\ nodes[i].offset < b.at

CallFreeAgain(b) ==
  /\ \E i \in Used : Recognised(b, i)
  /\ Enter("free", b.size, b.at)
  /\ UNCHANGED <<live, freeing>>

FreeIntoEmptyList ==
  /\ pc = "free" /\ head = nullptr
  /\ IF get_node = nullptr
     THEN Fault("null_node")
     ELSE /\ nodes' = [nodes EXCEPT ![get_node] =
                         [offset |-> at, size |-> want, next |-> nullptr]]
          /\ head' = get_node
          /\ Return(TRUE, at)
          /\ UNCHANGED live

FreeAtRightEnd ==
  /\ pc = "free" /\ node # nullptr
  /\ End(node) = at
  /\ nodes' = JoinNext([nodes EXCEPT ![node].size = @ + want], node)
  /\ Return(TRUE, at)
  /\ UNCHANGED <<head, live>>

\* Mutant: any node that starts before the block counts as the block.
FreeTwiceTooEager ==
  /\ pc = "free" /\ node # nullptr
  /\ End(node) # at
  /\ nodes[node].offset <= at
  /\ Return(FALSE, at)
  /\ UNCHANGED <<nodes, head, live>>

FreeTwice ==
  /\ pc = "free" /\ node # nullptr
  /\ End(node) # at
  /\ nodes[node].offset = at
  /\ Return(FALSE, at)
  /\ UNCHANGED <<nodes, head, live>>

\* Mutant: a range that is free already is inserted before itself.
FreeBeforeItself ==
  /\ pc = "free" /\ node # nullptr
  /\ End(node) # at
  /\ nodes[node].offset >= at
  /\ get_node # nullptr
  /\ nodes' = JoinNext([nodes EXCEPT ![get_node] =
                          [offset |-> at, size |-> want, next |-> node]], get_node)
  /\ head' = IF previous = nullptr THEN get_node ELSE head
  /\ Return(TRUE, at)
  /\ UNCHANGED live

(***************************************************************************)
(* The cursor is past the block: a new node goes between previous and      *)
(* node, and is then joined with its successor and its predecessor.        *)
(***************************************************************************)
FreeBefore ==
  /\ pc = "free" /\ node # nullptr
  /\ End(node) # at
  /\ nodes[node].offset > at
  /\ IF get_node = nullptr
     THEN Fault("null_node")
     ELSE LET new    == get_node
              filled == [nodes EXCEPT ![new] =
                           [offset |-> at, size |-> want, next |-> node]]
          IN /\ IF previous # nullptr
                THEN /\ nodes' = JoinNext(JoinNext(
                                   [filled EXCEPT ![previous].next = new], new), previous)
                     /\ UNCHANGED head
                ELSE /\ nodes' = JoinNext(filled, new)
                     /\ head' = new
             /\ Return(TRUE, at)
             /\ UNCHANGED live

\* Mutant: the new last node points back at the one before it.
FreeAfterLastCycle ==
  /\ pc = "free" /\ node # nullptr
  /\ nodes[node].next = nullptr /\ End(node) < at
  /\ get_node # nullptr
  /\ nodes' = [nodes EXCEPT ![get_node] =
                 [offset |-> at, size |-> want, next |-> node],
                            ![node].next = get_node]
  /\ Return(TRUE, at)
  /\ UNCHANGED <<head, live>>

FreeAfterLast ==
  /\ pc = "free" /\ node # nullptr
  /\ nodes[node].offset < at
  /\ nodes[node].next = nullptr /\ End(node) < at
  /\ IF get_node = nullptr
     THEN Fault("null_node")
     ELSE /\ nodes' = [nodes EXCEPT ![get_node] =
                         [offset |-> at, size |-> want, next |-> nullptr],
                                    ![node].next = get_node]
          /\ Return(TRUE, at)
          /\ UNCHANGED <<head, live>>

FreeAdvance ==
  /\ pc = "free" /\ node # nullptr
  /\ End(node) # at
  /\ nodes[node].offset < at
  /\ ~(nodes[node].next = nullptr /\ End(node) < at)
  /\ Advance

FreeNotFound ==
  /\ pc = "free" /\ node = nullptr /\ head # nullptr
  /\ Return(FALSE, at)
  /\ UNCHANGED <<nodes, head, live>>

-----------------------------------------------------------------------------
(***************************************************************************)
(* freelist_clear writes through head, which is null when every byte is    *)
(* allocated.  The callers' blocks are gone.                               *)
(***************************************************************************)
freelist_clear ==
  /\ pc = "idle"
  /\ IF head = nullptr
     THEN Fault("null_head")
     ELSE /\ nodes' = [i \in Slots |->
                         IF i = head THEN [empty_node EXCEPT !.size = TotalSize]
                                     ELSE empty_node]
          /\ live' = {}
          /\ answer' = [call |-> "clear", ok |-> TRUE, size |-> 0, at |-> 0]
          /\ UNCHANGED <<head, pc, node, previous, want, at, freeing>>

-----------------------------------------------------------------------------
freelist_allocate_block ==
  AllocateExact \/ AllocateSplit \/ AllocateAdvance \/ AllocateRefused

freelist_free_block ==
  \/ FreeIntoEmptyList \/ FreeAtRightEnd \/ FreeTwice \/ FreeBefore
  \/ FreeAfterLast \/ FreeAdvance \/ FreeNotFound

(***************************************************************************)
(* A call that has been entered keeps running.                             *)
(***************************************************************************)
Step == freelist_allocate_block \/ freelist_free_block

Next ==
  \/ \E n \in Sizes : CallAllocate(n)
  \/ \E b \in live : CallFree(b)
  \/ \E n \in Sizes, o \in 0 .. TotalSize - 1 :
       CallFreeAgain([at |-> o, size |-> n])
  \/ \E n \in Sizes : Refuse("allocate", n)
  \/ \E n \in Sizes \cup {0} : Refuse("free", n)
  \/ Step
  \/ freelist_clear
  \/ freelist_create
  \/ freelist_destroy

Spec == Init /\ [][Next]_vars

FairSpec == Spec /\ WF_vars(Step)
-----------------------------------------------------------------------------
(***************************************************************************)
(* freelist_free_space: the sizes of the nodes, summed along the list.  A  *)
(* list longer than its pool is not followed to its end.                   *)
(***************************************************************************)
space_from[steps \in 0 .. max_entries] ==
  [i \in Slots \cup {nullptr} |->
     IF steps = 0 \/ i = nullptr THEN 0
     ELSE nodes[i].size + space_from[steps - 1][nodes[i].next]]

freelist_free_space == space_from[max_entries][head]

-----------------------------------------------------------------------------
\* The bytes of the range of size n at o, and those of the free nodes.
Bytes(o, n) == o .. o + n - 1

FreeBytes == UNION {Bytes(nodes[i].offset, nodes[i].size) : i \in Used}

Owned == live \cup freeing

OwnedBytes == UNION {Bytes(b.at, b.size) : b \in Owned}

Running == pc \in {"allocate", "free"}

\* Every variable has its type, in every state of the list's life.
TypeOK ==
  /\ nodes \in [Slots -> Node]
  /\ head \in Slots \cup {nullptr}
  /\ pc \in {"idle", "allocate", "free", "destroyed"} \cup Faults
  /\ node \in Slots \cup {nullptr}
  /\ previous \in Slots \cup {nullptr}
  /\ want \in Nat
  /\ at \in Nat
  /\ live \in SUBSET Block
  /\ freeing \in SUBSET Block
  /\ answer \in [call : {"create", "destroy", "clear", "allocate", "free"},
                 ok : BOOLEAN, size : Nat, at : Nat]

(***************************************************************************)
(* The list runs through exactly the used nodes, in order of offset, and   *)
(* no two neighbours touch: every free fuses with both sides               *)
(* (freelist.c:124-131, 154-168), so first fit sees whole ranges.  Sorted  *)
(* says of each node that no used node lies between it and its next.       *)
(***************************************************************************)
Sorted(ns, h) ==
  /\ h = nullptr <=> UsedIn(ns) = {}
  /\ h # nullptr =>
       /\ h \in UsedIn(ns)
       /\ \A j \in UsedIn(ns) \ {h} : EndIn(ns, h) <= ns[j].offset
  /\ \A i \in UsedIn(ns) : ns[i].next = nullptr =>
       \A j \in UsedIn(ns) \ {i} : EndIn(ns, j) <= ns[i].offset
  /\ \A i \in UsedIn(ns) : ns[i].next # nullptr =>
       /\ ns[i].next \in UsedIn(ns)
       /\ EndIn(ns, i) <= ns[ns[i].next].offset
       /\ \A j \in UsedIn(ns) \ {i, ns[i].next} :
            \/ EndIn(ns, j) <= ns[i].offset
            \/ EndIn(ns, ns[i].next) <= ns[j].offset

FusedAt(ns, i) ==
  ns[i].next # nullptr => EndIn(ns, i) # ns[ns[i].next].offset

Fused(ns) == \A i \in UsedIn(ns) : FusedAt(ns, i)

Links == Sorted(nodes, head) /\ Fused(nodes)

(***************************************************************************)
(* Every byte is in exactly one place: one free node, or one block that a  *)
(* caller holds or is giving back.  Nothing is handed out twice and        *)
(* nothing leaks, whatever sequence of calls splits and joins the nodes.   *)
(***************************************************************************)
Partition ==
  pc # "destroyed" =>
    /\ \A i \in Used, j \in Used : i # j =>
         Bytes(nodes[i].offset, nodes[i].size)
           \cap Bytes(nodes[j].offset, nodes[j].size) = {}
    /\ \A b \in Owned, c \in Owned :
         b # c => Bytes(b.at, b.size) \cap Bytes(c.at, c.size) = {}
    /\ FreeBytes \cap OwnedBytes = {}
    /\ FreeBytes \cup OwnedBytes = 0 .. TotalSize - 1

(***************************************************************************)
(* Between calls, what freelist_free_space adds up is exactly what no      *)
(* caller holds: no range is off the list, none is on it twice.            *)
(***************************************************************************)
FreeSpaceIsWhatIsLeft ==
  pc = "idle" => freelist_free_space + Cardinality(OwnedBytes) = TotalSize

(***************************************************************************)
(* freelist_free_block never turns away a block that a caller holds, as    *)
(* already free (line 133) or as not found (line 189).                     *)
(***************************************************************************)
LiveBlockIsFreed == [][FreeTwice \/ FreeNotFound => freeing = {}]_vars

(***************************************************************************)
(* Freeing again a range that the list can recognise as free is refused,   *)
(* and changes no node: the walk reaches the range before it inserts.      *)
(***************************************************************************)
RefusedFreeIsHarmless ==
  [][pc = "free" /\ freeing = {} /\ pc' # pc
       => FreeTwice \/ FreeNotFound]_vars

(***************************************************************************)
(* An allocation is refused only when no run of free bytes, however the    *)
(* frees that made it were ordered, could hold it.                         *)
(***************************************************************************)
RefusedOnlyIfNothingFits ==
  [][AllocateRefused => \A o \in 0 .. TotalSize - want :
                          ~ (Bytes(o, want) \subseteq FreeBytes)]_vars

(***************************************************************************)
(* A free dies of an exhausted pool (freelist.c:113, 141, 177) only when   *)
(* the callers hold at least as many blocks as there are reusable nodes:   *)
(* between any two free ranges lies a block, since neighbours are fused.   *)
(***************************************************************************)
ExhaustedOnlyByFragmentation ==
  pc = "null_node" => Cardinality(Owned) >= max_entries - 1

(***************************************************************************)
(* freelist_clear dies of a null head (line 282) only when every byte is   *)
(* in the hands of the callers.                                            *)
(***************************************************************************)
ClearDiesOnlyWhenFull ==
  pc = "null_head" => OwnedBytes = 0 .. TotalSize - 1

\* Every call that enters its loop leaves it: the list has no cycle.
CallsReturn == Running ~> ~Running

(***************************************************************************)
(* The nodes implement the set of free bytes.  A call takes effect when it *)
(* returns, so a block being freed still counts as held.                   *)
(***************************************************************************)
FS == INSTANCE FreeSpace WITH free <- FreeBytes, live <- Owned

ImplementsFreeSpace == FS!Spec
=============================================================================
