--------------------------------- MODULE Input ---------------------------------
(***************************************************************************)
(* core/input.c: which keys and buttons are down and where the mouse is,   *)
(* now and when input_update was last called.  A process function that     *)
(* changes something fires an event; here it says which, and Engine lets   *)
(* the listeners run.                                                      *)
(***************************************************************************)
EXTENDS Naturals

CONSTANTS
  Keys,    \* the values of `keys' in use
  Buttons,
  Points   \* of the mouse, {0, 0} among them

VARIABLES
  keys, buttons, mouse, \* keyboard_current and mouse_current
  previous              \* keyboard_previous and mouse_previous

input_vars == <<keys, buttons, mouse, previous>>

origin == <<0, 0>>

no_event == "none"

InputInit ==
  /\ keys = [k \in Keys |-> FALSE]
  /\ buttons = [b \in Buttons |-> FALSE]
  /\ mouse = origin
  /\ previous = [keys |-> keys, buttons |-> buttons, mouse |-> mouse]

input_update ==
  /\ previous' = [keys |-> keys, buttons |-> buttons, mouse |-> mouse]
  /\ UNCHANGED <<keys, buttons, mouse>>

KeyEvent(key, pressed) ==
  CASE keys[key] = pressed -> no_event
    [] keys[key] # pressed -> IF pressed THEN "KEY_PRESSED" ELSE "KEY_RELEASED"

input_process_key(key, pressed) ==
  keys' = [keys EXCEPT ![key] = pressed] /\ UNCHANGED <<buttons, mouse, previous>>

input_process_button(button, pressed) ==
  buttons' = [buttons EXCEPT ![button] = pressed] /\ UNCHANGED <<keys, mouse, previous>>

input_process_mouse_move(p) ==
  mouse' = p /\ UNCHANGED <<keys, buttons, previous>>

input_is_key_down(key) == keys[key]
=============================================================================
