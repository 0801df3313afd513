----------------------------- MODULE ElementBlock -----------------------------
(***************************************************************************)
(* What containers/queue.c and containers/stack.c have in common: elements *)
(* in a block that grows.  Addresses and sizes are counted in elements.    *)
(*                                                                         *)
(* A push adds an offset in bytes to a pointer to u64, so the n-th element *)
(* is written at Scale * n, although the block has room for n only.        *)
(***************************************************************************)
EXTENDS ContainerState

CONSTANTS
  Reserves,    \* the counts that a reserve is called with
  MaxElements  \* bound: elements pushed and not popped

\* The counts that blocks have room for.
BlockSizes == Reserves \cup {1} \cup 0 .. MaxElements

\* A null pointer is not a block.
ASSUME ElementAssumption ==
  /\ Reserves \subseteq Nat
  /\ MaxElements \in Nat
  /\ \A n \in BlockSizes : nullptr \notin [0 .. n - 1 -> Values \cup {unwritten}]

Scale == 8 \* sizeof(u64)

no_elements == [count |-> 0, memory |-> nullptr, allocated |-> 0]

(***************************************************************************)
(* ideal.pushed is what was pushed and not popped, ideal.peak the largest  *)
(* number of elements there has been since there was none.                 *)
(***************************************************************************)
Believed(s) ==
  ideal' = [pushed |-> s,
            peak   |-> CASE s = <<>> -> 0
                         [] Len(s) > ideal.peak -> Len(s)
                         [] OTHER -> ideal.peak]

InitAs(container) ==
  /\ subject = container
  /\ object = no_elements
  /\ ideal = [pushed |-> <<>>, peak |-> 0]
  /\ answer = "none"

\* What a block that must hold count elements may become: memory_allocate
\* refuses or gives a zeroed block, to which the old content is copied.
Ensured(o, count) ==
  IF o.allocated >= count THEN {o}
  ELSE {[o EXCEPT !.allocated = count,
           !.memory = [i \in 0 .. count - 1 |->
              IF o.memory # nullptr /\ i < o.allocated THEN o.memory[i] ELSE unwritten]]}
       \cup (IF o.memory = nullptr THEN {[o EXCEPT !.allocated = count]} ELSE {})

\* The block is to grow, and is copied to the null that memory_allocate gave.
CopiedToNull(count) == object.memory # nullptr /\ object.allocated < count

Create ==
  /\ object = no_elements
  /\ object' \in Ensured(no_elements, 1)
  /\ answer' = "done"
  /\ UNCHANGED <<subject, ideal>>

Destroy ==
  /\ object' = no_elements
  /\ Believed(<<>>)
  /\ answer' = "done"
  /\ UNCHANGED subject

Reserve(count) ==
  /\ object # no_elements
  /\ \/ CopiedToNull(count) /\ Crash
     \/ /\ object' \in Ensured(object, count)
        /\ answer' = "done"
        /\ UNCHANGED ideal
  /\ UNCHANGED subject

Push(v) ==
  /\ object # no_elements
  /\ object.count < MaxElements
  /\ \/ CopiedToNull(object.count + 1) /\ Crash
     \/ \E o \in Ensured(object, object.count + 1) :
          \/ o.memory = nullptr /\ Crash
          \/ o.memory # nullptr /\ Scale * o.count >= o.allocated /\ Ends("overrun")
          \/ /\ o.memory # nullptr /\ Scale * o.count < o.allocated
             /\ object' = [o EXCEPT !.count = @ + 1, !.memory[Scale * o.count] = v]
             /\ Believed(Append(ideal.pushed, v))
             /\ answer' = "done"
  /\ UNCHANGED subject
=============================================================================
