------------------------------- MODULE PureCall -------------------------------
(***************************************************************************)
(* One call of a function whose result depends on its arguments alone.     *)
(* The modules that extend this one hold such functions, one action each.  *)
(***************************************************************************)
CONSTANT pending \* the result of a call that has not returned

VARIABLES
  call,  \* the function, `f', and its arguments
  result

vars == <<call, result>>

Called(f) == call.f = f /\ result = pending

Gives(r) == result' = r /\ UNCHANGED call

Returned(f) == call.f = f /\ result # pending
=============================================================================
