------------------------------ MODULE Containers ------------------------------
(***************************************************************************)
(* One container of the engine, whichever it is, and any sequence of calls *)
(* on it.  A second container is no part of the behaviour: they share      *)
(* nothing.                                                                *)
(***************************************************************************)
EXTENDS RingQueue, LinearAllocator, QueueStack, Hashtable, U64Bst, DynamicArray

Init ==
  \/ RingInit
  \/ LinearInit
  \/ ElementInit
  \/ HashtableInit
  \/ BstInit
  \/ ArrayInit

Next ==
  \/ RingNext
  \/ LinearNext
  \/ ElementNext
  \/ HashtableNext
  \/ BstNext
  \/ ArrayNext

Spec == Init /\ [][Next]_vars
=============================================================================
