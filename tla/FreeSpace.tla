------------------------------ MODULE FreeSpace -----------------------------
(***************************************************************************)
(* What the free list promises, without its nodes: a set of free bytes and *)
(* a set of blocks handed out.  An allocation takes the lowest range that  *)
(* fits and is refused only when none does; a free returns its bytes.      *)
(***************************************************************************)
EXTENDS Integers

CONSTANTS
  TotalSize,   \* the bytes under management
  Sizes        \* the request sizes of the callers

VARIABLES
  free,        \* the free bytes
  live,        \* the blocks [at, size] handed out
  answer       \* what the last call returned

vars == <<free, live, answer>>

Span(o, n) == o .. o + n - 1

\* A size of zero fits where there is a free byte at all.
Fits(n) == {o \in free : Span(o, n) \subseteq free}

Answer(call, ok, n, o) == [call |-> call, ok |-> ok, size |-> n, at |-> o]

Fresh(call) ==
  /\ free' = 0 .. TotalSize - 1
  /\ live' = {}
  /\ answer' = Answer(call, TRUE, 0, 0)

Init ==
  /\ free = 0 .. TotalSize - 1
  /\ live = {}
  /\ answer = Answer("create", TRUE, 0, 0)

Allocate(n) ==
  \E o \in Fits(n) :
    /\ \A p \in Fits(n) : o <= p
    /\ free' = free \ Span(o, n)
    /\ live' = live \cup {[at |-> o, size |-> n]}
    /\ answer' = Answer("allocate", TRUE, n, o)

AllocateRefused(n) ==
  /\ Fits(n) = {}
  /\ answer' = Answer("allocate", FALSE, n, 0)
  /\ UNCHANGED <<free, live>>

Free(b) ==
  /\ free' = free \cup Span(b.at, b.size)
  /\ live' = live \ {b}
  /\ answer' = Answer("free", TRUE, b.size, b.at)

FreeRefused(n, o) ==
  /\ n > 0 => (free = {} /\ live = {}) \/ Span(o, n) \subseteq free
  /\ answer' = Answer("free", FALSE, n, o)
  /\ UNCHANGED <<free, live>>

\* A destroyed list has no bytes, and no blocks, until it is created again.
Destroy ==
  /\ free' = {}
  /\ live' = {}
  /\ answer' = Answer("destroy", TRUE, 0, 0)

Next ==
  \/ \E n \in Sizes : Allocate(n)
  \/ \E n \in Sizes : AllocateRefused(n)
  \/ \E b \in live : Free(b)
  \/ \E n \in Sizes \cup {0}, o \in 0 .. TotalSize - 1 : FreeRefused(n, o)
  \/ \E call \in {"create", "clear"} : Fresh(call)
  \/ Destroy

Spec == Init /\ [][Next]_vars
=============================================================================
