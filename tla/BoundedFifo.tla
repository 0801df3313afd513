------------------------------ MODULE BoundedFifo ------------------------------
(***************************************************************************)
(* What a ring queue promises: values come out in the order in which they  *)
(* went in, a full queue takes none, an empty one gives none.              *)
(***************************************************************************)
EXTENDS Naturals, Sequences

CONSTANTS
  Values

VARIABLES
  room,    \* how many values it can hold
  queue,   \* the values in it, the oldest first
  answer   \* what the last call gave back

vars == <<room, queue, answer>>

Init == room = 0 /\ queue = <<>> /\ answer = "none"

\* A queue comes to be, or goes, which leaves one without room.
Open == room' \in Nat /\ queue' = <<>> /\ answer' = "done"

Enqueue(v) ==
  /\ Len(queue) < room
  /\ queue' = Append(queue, v)
  /\ answer' = "done"
  /\ UNCHANGED room

Dequeue ==
  /\ queue # <<>>
  /\ answer' = Head(queue)
  /\ queue' = Tail(queue)
  /\ UNCHANGED room

Peek ==
  /\ queue # <<>>
  /\ answer' = Head(queue)
  /\ UNCHANGED <<room, queue>>

\* Only a full queue refuses a value, only an empty one refuses to give one.
Refuse ==
  /\ Len(queue) = room \/ queue = <<>>
  /\ answer' = "refused"
  /\ UNCHANGED <<room, queue>>

\* The memory it was to live in was refused.
Break == answer' = "crash" /\ UNCHANGED <<room, queue>>

Next ==
  \/ Open
  \/ \E v \in Values : Enqueue(v)
  \/ Dequeue
  \/ Peek
  \/ Refuse
  \/ Break

Spec == Init /\ [][Next]_vars
=============================================================================
