--------------------------------- MODULE Stack ---------------------------------
(***************************************************************************)
(* containers/stack.c.  A push writes the n-th element at Scale * n, a     *)
(* peek or a pop reads it at n.                                            *)
(***************************************************************************)
EXTENDS ElementBlock, SequencesExt

StackInit == InitAs("stack")

stack_create == Calls("stack") /\ Create

stack_destroy == Calls("stack") /\ Destroy

stack_reserve(count) == Calls("stack") /\ Reserve(count)

stack_push(v) == Calls("stack") /\ Push(v)

Top == object.memory[object.count - 1]

stack_peek ==
  /\ Calls("stack")
  /\ \/ object.count < 1 /\ Returns("refused")
     \/ object.count >= 1 /\ Returns(Top)
  /\ UNCHANGED subject

stack_pop ==
  /\ Calls("stack")
  /\ \/ object.count < 1 /\ Returns("refused")
     \/ /\ object.count >= 1
        /\ object' = [object EXCEPT !.count = @ - 1]
        /\ answer' = Top
        /\ Believed(Front(ideal.pushed))
  /\ UNCHANGED subject

StackNext ==
  \/ stack_create
  \/ stack_destroy
  \/ \E n \in Reserves : stack_reserve(n)
  \/ \E v \in Values : stack_push(v)
  \/ stack_peek
  \/ stack_pop

-----------------------------------------------------------------------------
\* The bottom of a stack is what was pushed first, and is what the last pop
\* gives; what lies above it is never read where it was written.
StackReadsBottom ==
  subject = "stack" /\ object.count >= 1 =>
    /\ object.memory[0] = ideal.pushed[1]
    /\ object.count \in 2 .. Scale => Top = unwritten
=============================================================================
