-------------------------------- MODULE U64Bst --------------------------------
(***************************************************************************)
(* containers/u64_bst.c: a binary search tree.  object is the tree, a      *)
(* function that gives the node at each place.  A place is the path to it  *)
(* from the root, <<>>, over left and right children; at a place outside   *)
(* the function's domain there is a nullptr.  ideal.map holds what was     *)
(* inserted and not deleted; ideal.moved the keys that a deletion put into *)
(* the node of another key, whose value that node kept.                    *)
(***************************************************************************)
EXTENDS ContainerState, SequencesExt

CONSTANTS
  TreeKeys

ASSUME TreeAssumption == TreeKeys \subseteq Nat

Left(p) == Append(p, "left")
Right(p) == Append(p, "right")

InLeft(q, p) == IsPrefix(Left(p), q)
InRight(q, p) == IsPrefix(Right(p), q)

\* The root and every child of a node, nullptr or not.
Places(tree) == {<<>>} \cup {Left(p) : p \in DOMAIN tree} \cup {Right(p) : p \in DOMAIN tree}

\* A call for key that starts at the root comes to place p.
Visits(tree, key, p) ==
  \A i \in 1 .. Len(p) :
    LET node == tree[SubSeq(p, 1, i - 1)] IN
      node.key # key /\ p[i] = IF node.key < key THEN "right" ELSE "left"

\* Where the calls for key end: at its node or at a nullptr.
Search(tree, key) ==
  CHOOSE p \in Places(tree) :
    Visits(tree, key, p) /\ (p \in DOMAIN tree => tree[p].key = key)

node_create(key, value) == [key |-> key, value |-> value]

\* The node that left children lead to from place p.
find_min(tree, p) ==
  CHOOSE q \in DOMAIN tree :
    /\ IsPrefix(p, q)
    /\ \A i \in Len(p) + 1 .. Len(q) : q[i] = "left"
    /\ Left(q) \notin DOMAIN tree

\* Mutant: an equal key goes to the left as well.
inserted_twice(tree, key, value) ==
  LET end == CHOOSE p \in Places(tree) \ DOMAIN tree :
               \A i \in 1 .. Len(p) :
                 p[i] = IF tree[SubSeq(p, 1, i - 1)].key < key THEN "right" ELSE "left"
  IN [q \in DOMAIN tree \cup {end} |->
        IF q \in DOMAIN tree THEN tree[q] ELSE node_create(key, value)]

u64_bst_insert(tree, key, value) ==
  [q \in DOMAIN tree \cup {Search(tree, key)} |->
     IF q \in DOMAIN tree THEN tree[q] ELSE node_create(key, value)]

u64_bst_find(tree, key) ==
  LET p == Search(tree, key) IN IF p \in DOMAIN tree THEN tree[p] ELSE nullptr

(***************************************************************************)
(* The deletion of the node at p: a node with a right child takes the key  *)
(* of the smallest node to its right, which is deleted in its turn.  The   *)
(* test for a missing left child is mistyped as one for a missing root: a  *)
(* node with a right child alone is deleted like one with two.             *)
(***************************************************************************)
Replacement(tree, p) == find_min(tree, Right(p))

Deleted(tree, p) ==
  {q \in DOMAIN tree :
     \A D \in SUBSET DOMAIN tree :
       /\ p \in D
       /\ \A d \in D : Right(d) \in DOMAIN tree => Replacement(tree, d) \in D
       => q \in D}

Rekeyed(tree, p) ==
  [q \in DOMAIN tree |->
     IF q \in Deleted(tree, p) /\ Right(q) \in DOMAIN tree
     THEN [tree[q] EXCEPT !.key = tree[Replacement(tree, q)].key] ELSE tree[q]]

\* The node that is freed: it has no right child, and its left one takes its place.
Freed(tree, p) == CHOOSE q \in Deleted(tree, p) : Right(q) \notin DOMAIN tree

Lifted(q, p) == IF IsPrefix(p, q) THEN RemoveAt(q, Len(p) + 1) ELSE q
Lowered(q, p) == IF IsPrefix(p, q) THEN InsertAt(q, Len(p) + 1, "left") ELSE q

Without(tree, p) ==
  [q \in {Lifted(r, p) : r \in DOMAIN tree \ {p}} |-> tree[Lowered(q, p)]]

u64_bst_delete(tree, key) ==
  LET p == Search(tree, key) IN
    IF p \in DOMAIN tree THEN Without(Rekeyed(tree, p), Freed(tree, p)) ELSE tree

BstInit ==
  /\ subject = "bst"
  /\ object = <<>>
  /\ ideal = [map |-> <<>>, moved |-> {}]
  /\ answer = "none"

\* node_create writes through null when memory_allocate refuses.
Insert(key, value) ==
  /\ Calls("bst")
  /\ \/ Search(object, key) \notin DOMAIN object /\ Crash
     \/ /\ object' = u64_bst_insert(object, key, value)
        /\ answer' = "done"
        /\ ideal' = [ideal EXCEPT !.map = [k \in DOMAIN @ \cup {key} |->
                       IF k \in DOMAIN @ THEN @[k] ELSE value]]
  /\ UNCHANGED subject

\* The keys that a deletion puts into another key's node.
Moves(tree, key) ==
  LET p == Search(tree, key) IN
    IF p \in DOMAIN tree THEN {tree[q].key : q \in Deleted(tree, p)} \ {key} ELSE {}

Delete(key) ==
  /\ Calls("bst")
  /\ object' = u64_bst_delete(object, key)
  /\ ideal' = [map   |-> [k \in DOMAIN ideal.map \ {key} |-> ideal.map[k]],
               moved |-> (ideal.moved \cup Moves(object, key)) \ {key}]
  /\ answer' = "done"
  /\ UNCHANGED subject

Find(key) ==
  /\ Calls("bst")
  /\ LET node == u64_bst_find(object, key) IN
       Returns(IF node = nullptr THEN "refused" ELSE node.value)
  /\ UNCHANGED subject

u64_bst_clear ==
  /\ Calls("bst")
  /\ object' = <<>>
  /\ ideal' = [map |-> <<>>, moved |-> {}]
  /\ answer' = "done"
  /\ UNCHANGED subject

BstNext ==
  \/ \E k \in TreeKeys, v \in Values : Insert(k, v)
  \/ \E k \in TreeKeys : Delete(k) \/ Find(k)
  \/ u64_bst_clear

-----------------------------------------------------------------------------
\* A tree holds the keys inserted and not deleted, each once and in order, finds
\* these and no other, and finds for each the value it was first inserted with,
\* unless a deletion moved the key into the node of another: such a key has the
\* value of a deleted one.
TreeIsMap ==
  subject = "bst" =>
    /\ {object[p].key : p \in DOMAIN object} = DOMAIN ideal.map
    /\ \A p, q \in DOMAIN object :
         /\ object[p].key = object[q].key => p = q
         /\ InLeft(q, p) => object[q].key < object[p].key
         /\ InRight(q, p) => object[q].key > object[p].key
    /\ \A k \in TreeKeys \ DOMAIN ideal.map : u64_bst_find(object, k) = nullptr
    /\ \A k \in DOMAIN ideal.map : u64_bst_find(object, k).key = k
    /\ \A k \in DOMAIN ideal.map \ ideal.moved :
         u64_bst_find(object, k).value = ideal.map[k]
=============================================================================
