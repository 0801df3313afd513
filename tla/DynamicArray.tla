----------------------------- MODULE DynamicArray -----------------------------
(***************************************************************************)
(* containers/darray.c: the arrays with a header before their elements     *)
(* ("darray"), and those that DARRAY_TYPE_NAMED declares in darray.h       *)
(* ("typed"), with their iterators.  slots is the content of the block,    *)
(* with the slots past the length.                                         *)
(*                                                                         *)
(* A block may be refused, by memory_allocate or by the frame allocator of *)
(* the array, and nobody looks.  It is written through null at once, but   *)
(* for a new typed array's, which waits for the first element.             *)
(***************************************************************************)
EXTENDS ContainerState, SequencesExt

CONSTANTS
  ArrayCapacities, \* the capacities that arrays are created and resized with
  MaxLength        \* bound: elements in an array

ASSUME ArrayAssumption == ArrayCapacities \subseteq Nat /\ MaxLength \in Nat

Factor == 2 \* DARRAY_RESIZE_FACTOR

no_array == [length |-> 0, capacity |-> 0, slots |-> nullptr]

no_iterator == [pos |-> 0, dir |-> 0, shrunk |-> FALSE]

(***************************************************************************)
(* ideal.elements is the sequence that the array should hold.  It is not   *)
(* known once memcpy was called on ranges that overlap, until the array    *)
(* has been empty.  ideal.it is the iterator of a caller, with whether the *)
(* array has become shorter since it was made.                             *)
(***************************************************************************)
ArrayInit ==
  /\ subject \in {"darray", "typed"}
  /\ object = no_array
  /\ ideal = [elements |-> <<>>, known |-> TRUE, it |-> no_iterator]
  /\ answer = "none"

There(kind) == Calls(kind) /\ object # no_array

\* The array has its block.
Has(kind) == There(kind) /\ object.slots # nullptr

\* The array is now believed to hold the elements s.
Believes(s, known) ==
  ideal' = [ideal EXCEPT !.elements = s,
              !.known = s = <<>> \/ (@ /\ known),
              !.it.shrunk = @ \/ Len(s) < Len(ideal.elements)]

\* The elements of the block `slots', in a block of n.
Grown(slots, n) ==
  [i \in 0 .. n - 1 |-> IF i \in DOMAIN slots THEN slots[i] ELSE unwritten]

New(n) == [length |-> 0, capacity |-> n, slots |-> Grown(<<>>, n)]

\* Whether an array of no capacity has a block makes no difference.
Bare(n) == [New(n) EXCEPT !.slots = nullptr]

Creates(o) ==
  /\ object = no_array
  /\ object' = o
  /\ answer' = "done"
  /\ UNCHANGED <<subject, ideal>>

Clears(o) ==
  /\ object' = o
  /\ Believes(<<>>, TRUE)
  /\ answer' = "done"
  /\ UNCHANGED subject

-----------------------------------------------------------------------------
(***************************************************************************)
(* The arrays with a header.                                               *)
(***************************************************************************)
_darray_create(n) ==
  /\ Calls("darray")
  /\ \/ object = no_array /\ Crash /\ UNCHANGED subject
     \/ Creates(New(n))

darray_destroy == Has("darray") /\ Clears(no_array)

darray_clear == Has("darray") /\ Clears([object EXCEPT !.length = 0])

\* The new array takes the length of the old one, even if it is smaller.
Resized(o, size) == [o EXCEPT !.capacity = size, !.slots = Grown(@, size)]

darray_resize(size) ==
  /\ Has("darray")
  /\ \/ Crash
     \/ object.length > size /\ Ends("overrun")
     \/ /\ object.length <= size
        /\ object' = Resized(object, size)
        /\ answer' = "done"
        /\ UNCHANGED ideal
  /\ UNCHANGED subject

\* A full array is resized before an element is added.
Roomy == IF object.length >= object.capacity
         THEN Resized(object, object.capacity * Factor) ELSE object

_darray_push(v) ==
  /\ Has("darray")
  /\ object.length < MaxLength
  /\ \/ object.length >= object.capacity /\ Crash
     \/ Roomy.capacity = 0 /\ Ends("overrun")
     \/ /\ Roomy.capacity > 0
        /\ object' = [Roomy EXCEPT !.length = @ + 1, !.slots[object.length] = v]
        /\ Believes(Append(ideal.elements, v), TRUE)
        /\ answer' = "done"
  /\ UNCHANGED subject

darray_pop ==
  /\ Has("darray")
  /\ \/ object.length = 0 /\ Returns("refused")
     \/ /\ object.length > 0
        /\ object' = [object EXCEPT !.length = @ - 1]
        /\ answer' = object.slots[object.length - 1]
        /\ Believes(Front(ideal.elements), TRUE)
  /\ UNCHANGED subject

(***************************************************************************)
(* memcpy of n slots from one index to another.  Ranges that overlap are   *)
(* undefined: they may arrive as they were, or overtaken by the copy.      *)
(***************************************************************************)
Copied(slots, to, from, n) ==
  LET Moved(taken(_)) ==
        [i \in DOMAIN slots |-> IF i \in to .. to + n - 1
                                THEN slots[taken(i - to)] ELSE slots[i]]
      Smeared == IF to > from THEN from ELSE from + n - 1
  IN {Moved(LAMBDA i : from + i)} \cup (IF n > 1 THEN {Moved(LAMBDA i : Smeared)} ELSE {})

\* Not at the end: an index equal to the length is refused.
_darray_insert_at(index, v) ==
  LET n == object.length - index IN
    /\ Has("darray")
    /\ object.length < MaxLength
    /\ \/ index >= object.length /\ Returns("refused")
       \/ index < object.length /\ object.length >= object.capacity /\ Crash
       \/ /\ index < object.length
          /\ \E slots \in Copied(Roomy.slots, index + 1, index, n) :
               object' = [Roomy EXCEPT !.length = @ + 1, !.slots = [slots EXCEPT ![index] = v]]
          /\ Believes(InsertAt(ideal.elements, index + 1, v), n = 1)
          /\ answer' = "done"
    /\ UNCHANGED subject

darray_pop_at(index) ==
  LET n == object.length - (index + 1) IN
    /\ Has("darray")
    /\ \/ index >= object.length /\ Returns("refused")
       \/ /\ index < object.length
          /\ \E slots \in Copied(object.slots, index, index + 1, n) :
               object' = [object EXCEPT !.length = @ - 1, !.slots = slots]
          /\ answer' = object.slots[index]
          /\ Believes(RemoveAt(ideal.elements, index + 1), n <= 1)
    /\ UNCHANGED subject

\* The caller goes on with the copy, of the same capacity and content.
darray_duplicate ==
  /\ Has("darray")
  /\ Crash \/ Returns("done")
  /\ UNCHANGED subject

-----------------------------------------------------------------------------
(***************************************************************************)
(* The typed arrays.                                                       *)
(***************************************************************************)
_kdarray_init(n) ==
  /\ Calls("typed")
  /\ Creates(New(n)) \/ (n > 0 /\ Creates(Bare(n)))

_kdarray_free == There("typed") /\ Clears(no_array)

typed_clear == There("typed") /\ Clears([object EXCEPT !.length = 0])

_kdarray_ensure_size(required) ==
  IF required <= object.capacity THEN object
  ELSE LET doubled == object.capacity * Factor IN
         Resized(object, IF required > doubled THEN required ELSE doubled)

typed_push(v) ==
  LET o == _kdarray_ensure_size(object.length + 1) IN
    /\ There("typed")
    /\ object.length < MaxLength
    /\ \/ (object.slots = nullptr \/ o # object) /\ Crash
       \/ /\ object.slots # nullptr
          /\ object' = [o EXCEPT !.length = @ + 1, !.slots[object.length] = v]
          /\ Believes(Append(ideal.elements, v), TRUE)
          /\ answer' = "done"
    /\ UNCHANGED subject

typed_pop ==
  /\ There("typed")
  /\ \/ object.length < 1 /\ Returns("refused")
     \/ /\ object.length >= 1
        /\ object' = [object EXCEPT !.length = @ - 1]
        /\ answer' = object.slots[object.length - 1]
        /\ Believes(Front(ideal.elements), TRUE)
  /\ UNCHANGED subject

\* The loop moves the slot behind the last element too, or what lies behind
\* the block of a full array, where no element is any more.
typed_pop_at(index) ==
  /\ There("typed")
  /\ \/ index >= object.length /\ Returns("refused")
     \/ /\ index < object.length
        /\ object' = [object EXCEPT !.length = @ - 1,
             !.slots = [i \in DOMAIN @ |->
               CASE i \notin index .. object.length - 1 -> @[i]
                 [] i \in index .. object.length - 1 /\ i + 1 \in DOMAIN @ -> @[i + 1]
                 [] OTHER -> unwritten]]
        /\ answer' = object.slots[index]
        /\ Believes(RemoveAt(ideal.elements, index + 1), TRUE)
  /\ UNCHANGED subject

\* Mutant: the room for the new element is not made.
typed_insert_at_no_room(index, v) ==
  LET o == _kdarray_ensure_size(object.length) IN
    /\ There("typed")
    /\ object.length < MaxLength
    /\ \/ index > object.length /\ Returns("refused")
       \/ index <= object.length /\ (object.slots = nullptr \/ o # object) /\ Crash
       \/ /\ index <= object.length /\ object.slots # nullptr
          /\ object' = [o EXCEPT !.length = @ + 1,
               !.slots = [i \in DOMAIN @ |->
                 CASE i < index \/ i > object.length + 1 -> @[i]
                   [] i = index -> v
                   [] OTHER -> @[i - 1]]]
          /\ Believes(InsertAt(ideal.elements, index + 1, v), TRUE)
          /\ answer' = IF object.length + 1 < o.capacity THEN "done" ELSE "overrun"
    /\ UNCHANGED subject

\* The loop starts at the new length, one slot too far, which for an array
\* that the insertion fills lies behind the block.
typed_insert_at(index, v) ==
  LET o == _kdarray_ensure_size(object.length + 1) IN
    /\ There("typed")
    /\ object.length < MaxLength
    /\ \/ index > object.length /\ Returns("refused")
       \/ index <= object.length /\ (object.slots = nullptr \/ o # object) /\ Crash
       \/ /\ index <= object.length /\ object.slots # nullptr
          /\ object' = [o EXCEPT !.length = @ + 1,
               !.slots = [i \in DOMAIN @ |->
                 CASE i < index \/ i > object.length + 1 -> @[i]
                   [] i = index -> v
                   [] OTHER -> @[i - 1]]]
          /\ Believes(InsertAt(ideal.elements, index + 1, v), TRUE)
          /\ answer' = IF object.length + 1 < o.capacity THEN "done" ELSE "overrun"
    /\ UNCHANGED subject

-----------------------------------------------------------------------------
(***************************************************************************)
(* An iterator over a typed array.  The position of one that starts at the *)
(* end of an empty array is -1, whatever the unsigned length.              *)
(***************************************************************************)
Iterates(it) ==
  /\ There("typed")
  /\ ideal' = [ideal EXCEPT !.it = it]
  /\ answer' = "done"
  /\ UNCHANGED <<subject, object>>

darray_iterator_begin ==
  Iterates([pos |-> 0, dir |-> 1, shrunk |-> FALSE])

darray_iterator_rbegin ==
  Iterates([pos |-> object.length - 1, dir |-> -1, shrunk |-> FALSE])

darray_iterator_end(it) ==
  IF it.dir = 1 THEN it.pos >= object.length ELSE it.pos < 0

\* A caller's loop has an iterator that is not at the end.
Walking == There("typed") /\ ideal.it.dir # 0 /\ ~darray_iterator_end(ideal.it)

\* Mutant: a walk backwards goes on forwards.
darray_iterator_next_forward ==
  Walking /\ Iterates([ideal.it EXCEPT !.pos = @ + 1])

darray_iterator_next ==
  Walking /\ Iterates([ideal.it EXCEPT !.pos = @ + ideal.it.dir])

\* Callers go back only to where they have been.
darray_iterator_prev ==
  /\ Walking
  /\ ideal.it.dir = 1 => ideal.it.pos > 0
  /\ ideal.it.dir = -1 => ideal.it.pos < object.length - 1
  /\ Iterates([ideal.it EXCEPT !.pos = @ - ideal.it.dir])

ArrayNext ==
  \/ \E n \in ArrayCapacities :
       _darray_create(n) \/ darray_resize(n) \/ _kdarray_init(n)
  \/ \E v \in Values : _darray_push(v) \/ typed_push(v)
  \/ \E i \in 0 .. MaxLength : darray_pop_at(i) \/ typed_pop_at(i)
  \/ \E i \in 0 .. MaxLength, v \in Values : _darray_insert_at(i, v) \/ typed_insert_at(i, v)
  \/ darray_pop \/ darray_duplicate \/ darray_clear \/ darray_destroy
  \/ typed_pop \/ typed_clear \/ _kdarray_free
  \/ darray_iterator_begin \/ darray_iterator_rbegin
  \/ darray_iterator_next \/ darray_iterator_prev

ArraySpec == ArrayInit /\ [][ArrayNext]_vars

-----------------------------------------------------------------------------
Arrays == {"darray", "typed"}

\* An array holds what pushes, insertions and removals made of it, across its
\* growth; of an array with a header, until elements are moved by a memcpy
\* whose ranges overlap.
ArrayIsSequence ==
  subject \in Arrays /\ ideal.known =>
    /\ object.length = Len(ideal.elements)
    /\ object.length <= object.capacity
    /\ \A i \in 1 .. object.length : object.slots[i - 1] = ideal.elements[i]

\* What an iterator that is not at its end points to is an element, unless
\* the array became shorter under one that walks backwards.
IteratorInside ==
  subject = "typed" /\ ideal.it.dir # 0 /\ ~darray_iterator_end(ideal.it) =>
    \/ ideal.it.pos \in 0 .. object.length - 1
    \/ ideal.it.dir = -1 /\ ideal.it.shrunk
=============================================================================
