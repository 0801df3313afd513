---------------------------- MODULE ContainerState ----------------------------
(***************************************************************************)
(* What the models of the containers share.  Each of them is one C struct  *)
(* and the calls on it.  The modules that extend this one describe a       *)
(* container each; Containers chooses one of them at the start, so that    *)
(* one run covers them all.                                                *)
(***************************************************************************)
EXTENDS Integers, Sequences, FiniteSets

CONSTANTS
  Values,   \* what callers put into containers
  unwritten, \* the content of memory nothing was put into
  nullptr

ASSUME ValuesAssumption ==
  "crash" \notin Values \cup {unwritten} /\ "overrun" \notin Values \cup {unwritten}

VARIABLES
  subject,  \* which container this behaviour is about
  object,   \* its C struct and the block it points to
  ideal,    \* what its callers may believe to be in it
  answer    \* what the last call gave back

vars == <<subject, object, ideal, answer>>

\* The container is the one named, and the program is still what it was: no
\* null pointer was dereferenced and nothing written behind a block.
Calls(container) == subject = container /\ answer \notin {"crash", "overrun"}

Ends(how) == answer' = how /\ UNCHANGED <<object, ideal>>

Crash == Ends("crash")

\* The call returns a without having done anything.
Returns(a) == answer' = a /\ UNCHANGED <<object, ideal>>
=============================================================================
