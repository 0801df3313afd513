--------------------------------- MODULE Queue ---------------------------------
(***************************************************************************)
(* containers/queue.c.  The first element is read at the start of the      *)
(* block; a pop moves what follows it, but as many elements as there are,  *)
(* not the Scale times as many that they are spread over.                  *)
(***************************************************************************)
EXTENDS ElementBlock

QueueInit == InitAs("queue")

queue_create == Calls("queue") /\ Create

queue_destroy == Calls("queue") /\ Destroy

queue_reserve(count) == Calls("queue") /\ Reserve(count)

queue_push(v) == Calls("queue") /\ Push(v)

queue_peek ==
  /\ Calls("queue")
  /\ \/ object.count < 1 /\ Returns("refused")
     \/ object.count >= 1 /\ Returns(object.memory[0])
  /\ UNCHANGED subject

\* Mutant: the elements are moved from where they would be without Scale.
queue_pop_unscaled ==
  /\ Calls("queue")
  /\ \/ object.count < 1 /\ Returns("refused")
     \/ /\ object.count >= 1
        /\ object' = [object EXCEPT !.count = @ - 1,
             !.memory = [i \in DOMAIN @ |->
                IF i < object.count - 1 THEN @[1 + i] ELSE @[i]]]
        /\ answer' = object.memory[0]
        /\ Believed(Tail(ideal.pushed))
  /\ UNCHANGED subject

queue_pop ==
  /\ Calls("queue")
  /\ \/ object.count < 1 /\ Returns("refused")
     \/ /\ object.count >= 1
        /\ object' = [object EXCEPT !.count = @ - 1,
             !.memory = [i \in DOMAIN @ |->
                IF i < object.count - 1 THEN @[Scale + i] ELSE @[i]]]
        /\ answer' = object.memory[0]
        /\ Believed(Tail(ideal.pushed))
  /\ UNCHANGED subject

QueueNext ==
  \/ queue_create
  \/ queue_destroy
  \/ \E n \in Reserves : queue_reserve(n)
  \/ \E v \in Values : queue_push(v)
  \/ queue_peek
  \/ queue_pop

-----------------------------------------------------------------------------
\* While no more than two elements have been in it since it was empty, the
\* value a queue gives next is the oldest one; with three, the third is lost.
QueueKeepsOrder ==
  subject = "queue" /\ ideal.peak \in 1 .. 2 => object.memory[0] = Head(ideal.pushed)
=============================================================================
