--------------------------- MODULE FreelistResize ---------------------------
(***************************************************************************)
(* freelist_resize (containers/freelist.c:193-271): the list of Freelist   *)
(* moves to a larger array of nodes and gains the new bytes at its end.    *)
(*                                                                         *)
(* The loop that copies the nodes takes one action per iteration; node is  *)
(* its old_node and previous its new_list_node.  The new list starts with  *)
(* an empty node, nodes[0], which stays in the list: its calls are those   *)
(* of Freelist, run on what a resize leaves.  The arrays are small enough  *)
(* to have their least number of nodes before and after.                   *)
(***************************************************************************)
EXTENDS Freelist

CONSTANTS
  Growths,      \* by how much a resize may grow the list
  MaxResizes    \* bound: resizes

ASSUME GrowthsAssumption == Growths \subseteq Nat /\ MaxResizes \in Nat

VARIABLES
  total,        \* internal_state.total_size
  old,          \* while resizing, the nodes, head and total_size left behind
  resizes       \* how many there were

rvars == <<vars, total, old, resizes>>

no_old == [nodes |-> [i \in Slots |-> empty_node], head |-> nullptr, total |-> 0]

ResizeInit ==
  /\ Init
  /\ total = TotalSize
  /\ old = no_old
  /\ resizes = 0

-----------------------------------------------------------------------------
\* get_node in the array ns.
get_node_of(ns) ==
  LET unused == {i \in Slots \ {0} : ns[i].size = 0} IN
  IF unused = {} THEN nullptr
  ELSE CHOOSE i \in unused : \A j \in unused : i <= j

CallResize(growth) ==
  /\ resizes < MaxResizes
  /\ pc = "idle"
  /\ pc' = "resize"
  /\ old' = [nodes |-> nodes, head |-> head, total |-> total]
  /\ nodes' = [i \in Slots |-> empty_node]
  /\ head' = 0
  /\ node' = head
  /\ previous' = 0
  /\ want' = growth
  /\ total' = total + growth
  /\ resizes' = resizes + 1
  /\ UNCHANGED <<at, live, freeing, answer>>

ResizeReturns ==
  /\ Return(TRUE, 0)
  /\ old' = no_old
  /\ UNCHANGED <<head, live, total, resizes>>

ResizeFault == Fault("null_node") /\ UNCHANGED <<total, old, resizes>>

\* Nothing was free: the head is the growth.
ResizeOfFullList ==
  /\ pc = "resize" /\ old.head = nullptr
  /\ nodes' = [nodes EXCEPT ![0] =
                 [offset |-> old.total, size |-> want, next |-> nullptr]]
  /\ ResizeReturns

\* The new array with a copy of old_node hung onto new_list_node.
Copied ==
  [nodes EXCEPT ![get_node] = [old.nodes[node] EXCEPT !.next = nullptr],
                ![previous].next = get_node]

OldEnd == EndIn(old.nodes, node)

\* There is a node for each but the last: the new array is no smaller.
ResizeCopies ==
  /\ pc = "resize" /\ node # nullptr
  /\ old.nodes[node].next # nullptr
  /\ nodes' = Copied
  /\ previous' = get_node
  /\ node' = old.nodes[node].next
  /\ UNCHANGED <<head, pc, want, at, live, freeing, answer, total, old, resizes>>

\* Mutant: the last node is taken to reach the end.
ResizeExtendsLastAlways ==
  /\ pc = "resize" /\ node # nullptr
  /\ old.nodes[node].next = nullptr
  /\ get_node # nullptr
  /\ nodes' = [Copied EXCEPT ![get_node].size = @ + want]
  /\ ResizeReturns

ResizeExtendsLast ==
  /\ pc = "resize" /\ node # nullptr
  /\ old.nodes[node].next = nullptr /\ OldEnd = old.total
  /\ IF get_node = nullptr THEN ResizeFault
     ELSE /\ nodes' = [Copied EXCEPT ![get_node].size = @ + want]
          /\ ResizeReturns

\* Mutant: the growth is put where the last node ends.
ResizeAppendsAtLast ==
  /\ pc = "resize" /\ node # nullptr
  /\ old.nodes[node].next = nullptr /\ OldEnd # old.total
  /\ LET new == get_node_of(Copied) IN
       /\ new # nullptr
       /\ nodes' = [Copied EXCEPT ![new] = [offset |-> OldEnd, size |-> want,
                                           next |-> nullptr],
                                  ![get_node].next = new]
       /\ ResizeReturns

ResizeAppends ==
  /\ pc = "resize" /\ node # nullptr
  /\ old.nodes[node].next = nullptr /\ OldEnd # old.total
  /\ IF get_node = nullptr \/ get_node_of(Copied) = nullptr THEN ResizeFault
     ELSE LET new == get_node_of(Copied) IN
            /\ nodes' = [Copied EXCEPT ![new] = [offset |-> old.total, size |-> want,
                                                next |-> nullptr],
                                       ![get_node].next = new]
            /\ ResizeReturns

ResizeStep == ResizeOfFullList \/ ResizeCopies \/ ResizeExtendsLast \/ ResizeAppends

\* freelist_clear, of the list's present size.
clear_resized ==
  /\ pc = "idle"
  /\ IF head = nullptr
     THEN Fault("null_head")
     ELSE /\ nodes' = [i \in Slots |-> IF i = head THEN [empty_node EXCEPT !.size = total]
                                                    ELSE empty_node]
          /\ live' = {}
          /\ answer' = [call |-> "clear", ok |-> TRUE, size |-> 0, at |-> 0]
          /\ UNCHANGED <<head, pc, node, previous, want, at, freeing>>

ResizeNext ==
  \/ /\ \/ \E n \in Sizes : CallAllocate(n)
        \/ \E b \in live : CallFree(b)
        \/ Step
        \/ clear_resized
     /\ UNCHANGED <<total, old, resizes>>
  \/ \E growth \in Growths : CallResize(growth)
  \/ ResizeStep

ResizeSpec ==
  /\ ResizeInit /\ [][ResizeNext]_rvars
  /\ WF_rvars((Step /\ UNCHANGED <<total, old, resizes>>) \/ ResizeStep)

-----------------------------------------------------------------------------
(***************************************************************************)
(* The nodes met from h on, at most one more than there are; and those of  *)
(* them that hold bytes.                                                   *)
(***************************************************************************)
Walk(ns, h) ==
  LET met[k \in 0 .. max_entries] ==
        IF k = 0 THEN h
        ELSE IF met[k - 1] = nullptr THEN nullptr ELSE ns[met[k - 1]].next
  IN  met

Ends(ns, h) == Walk(ns, h)[max_entries] = nullptr

Listed(ns, h) ==
  {i \in {Walk(ns, h)[k] : k \in 0 .. max_entries} \ {nullptr} : ns[i].size > 0}

ListedBytes(ns, h) ==
  UNION {Bytes(ns[i].offset, ns[i].size) : i \in Listed(ns, h)}

(***************************************************************************)
(* Between calls the list ends, and every byte of the grown list is in one *)
(* listed node or in one block of a caller, also after the calls that work *)
(* on a list with an empty node at its head.                               *)
(***************************************************************************)
ResizedPartition ==
  pc = "idle" =>
    /\ Ends(nodes, head)
    /\ \A i, j \in Listed(nodes, head) : i # j =>
         Bytes(nodes[i].offset, nodes[i].size)
           \cap Bytes(nodes[j].offset, nodes[j].size) = {}
    /\ ListedBytes(nodes, head) \cap OwnedBytes = {}
    /\ ListedBytes(nodes, head) \cup OwnedBytes = 0 .. total - 1

(***************************************************************************)
(* What the comments of the loop say of a resize ("Copy over the nodes",   *)
(* line 228, and lines 253-255): the new list is the old one, and the      *)
(* growth, once, at the end of it.                                         *)
(***************************************************************************)
ResizeCopiesTheList ==
  [][pc = "resize" /\ pc' = "idle" =>
       /\ Ends(nodes', head')
       /\ ListedBytes(nodes', head')
            = ListedBytes(old.nodes, old.head) \cup (old.total .. total - 1)]_rvars
=============================================================================
