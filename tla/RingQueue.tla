------------------------------- MODULE RingQueue -------------------------------
(***************************************************************************)
(* containers/ring_queue.c: a queue in a block of fixed size, head and     *)
(* tail running around in it.  Elements are addressed by their index, the  *)
(* stride being the same throughout; the block's size in bytes and every   *)
(* index are assumed to fit their 32 bits.                                 *)
(***************************************************************************)
EXTENDS ContainerState

CONSTANTS
  RingCapacities \* the capacities that queues are created with

ASSUME RingAssumption == RingCapacities \subseteq Nat /\ Values # {}

\* The struct after memory_zero, and before ring_queue_create.
no_ring_queue ==
  [length |-> 0, capacity |-> 0, head |-> 0, tail |-> 0,
   block |-> nullptr, owns_memory |-> FALSE]

\* The index an element's place runs on to, after a queue's last to its first.
Following(i) == (i + 1) % object.capacity

RingInit ==
  /\ subject = "ring"
  /\ object = no_ring_queue
  /\ ideal = <<>>
  /\ answer = "none"

(***************************************************************************)
(* The block is the caller's, or one from memory_allocate, which may       *)
(* refuse; nobody looks.                                                   *)
(***************************************************************************)
ring_queue_create(capacity, memory) ==
  /\ Calls("ring")
  /\ object = no_ring_queue
  /\ \E block \in {[i \in 0 .. capacity - 1 |-> unwritten]}
                    \cup (IF memory THEN {} ELSE {nullptr}) :
       object' = [length |-> 0, capacity |-> capacity, head |-> 0, tail |-> -1,
                  block |-> block, owns_memory |-> ~memory]
  /\ answer' = "done"
  /\ UNCHANGED <<subject, ideal>>

\* A block that was refused is freed too, without harm.
ring_queue_destroy ==
  /\ Calls("ring")
  /\ object' = no_ring_queue
  /\ answer' = "done"
  /\ UNCHANGED <<subject, ideal>>

\* Mutant: head and tail run around only after the slot behind the last.
ring_queue_enqueue_late_wrap(v) ==
  /\ Calls("ring")
  /\ \/ object.length = object.capacity /\ Returns("refused")
     \/ object.length < object.capacity /\ object.block = nullptr /\ Crash
     \/ /\ object.length < object.capacity /\ object.block # nullptr
        /\ LET tail == (object.tail + 1) % (object.capacity + 1) IN
             object' = [object EXCEPT !.length = @ + 1, !.tail = tail, !.block[tail] = v]
        /\ answer' = "done"
        /\ UNCHANGED ideal
  /\ UNCHANGED subject

ring_queue_enqueue(v) ==
  /\ Calls("ring")
  /\ \/ object.length = object.capacity /\ Returns("refused")
     \/ object.length < object.capacity /\ object.block = nullptr /\ Crash
     \/ /\ object.length < object.capacity /\ object.block # nullptr
        /\ LET tail == Following(object.tail) IN
             object' = [object EXCEPT !.length = @ + 1, !.tail = tail, !.block[tail] = v]
        /\ answer' = "done"
        /\ UNCHANGED ideal
  /\ UNCHANGED subject

ring_queue_dequeue ==
  /\ Calls("ring")
  /\ \/ object.length = 0 /\ Returns("refused")
     \/ /\ object.length > 0
        /\ answer' = object.block[object.head]
        /\ object' = [object EXCEPT !.length = @ - 1, !.head = Following(@)]
        /\ UNCHANGED ideal
  /\ UNCHANGED subject

ring_queue_peek ==
  /\ Calls("ring")
  /\ \/ object.length = 0 /\ Returns("refused")
     \/ object.length > 0 /\ Returns(object.block[object.head])
  /\ UNCHANGED subject

RingNext ==
  \/ \E c \in RingCapacities, memory \in BOOLEAN : ring_queue_create(c, memory)
  \/ ring_queue_destroy
  \/ \E v \in Values : ring_queue_enqueue(v)
  \/ ring_queue_dequeue
  \/ ring_queue_peek

RingSpec == RingInit /\ [][RingNext]_vars

-----------------------------------------------------------------------------
\* The i-th oldest element's place.
Place(i) == IF object.head + i - 1 < object.capacity
            THEN object.head + i - 1
            ELSE object.head + i - 1 - object.capacity

Contents == [i \in 1 .. object.length |-> object.block[Place(i)]]

Fifo == INSTANCE BoundedFifo WITH room <- object.capacity, queue <- Contents

\* What ring_queue.c does is what a bounded queue does: no value is lost,
\* repeated or overtaken however often head and tail have gone around, and
\* only a full queue refuses one.
RingImplementsFifo == [][subject = "ring" => Fifo!Next]_vars
=============================================================================
