------------------------------ MODULE QueueStack ------------------------------
(***************************************************************************)
(* The two containers of ElementBlock side by side: a behaviour is about   *)
(* a queue or about a stack.                                               *)
(***************************************************************************)
EXTENDS Queue, Stack

ElementInit == QueueInit \/ StackInit

ElementNext == QueueNext \/ StackNext

ElementSpec == ElementInit /\ [][ElementNext]_vars

\* What is written behind a queue's or a stack's block is never its first
\* element, and each gives back what it should as long as it has few of them.
FewElementsKeepOrder ==
  /\ QueueKeepsOrder
  /\ StackReadsBottom
  /\ subject \in {"queue", "stack"} /\ answer = "overrun" => object.count >= 1
=============================================================================
