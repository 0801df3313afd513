------------------------------- MODULE Platform -------------------------------
(***************************************************************************)
(* platform/platform_linux.c: the windows it knows and the X events that   *)
(* wait for it.  A window is the number of its creation; a slot of the     *)
(* array `windows' holds a window or null.  A slot is never removed.       *)
(***************************************************************************)
EXTENDS Naturals, Sequences, FiniteSetsExt

CONSTANTS
  Syms,       \* the key symbols of the keyboard
  KeyOf,      \* the keys of those that translate_keycode knows
  Sizes,      \* of windows
  MaxWindows, \* bound: windows created in a run
  MaxEvents,  \* bound: X events in a run
  MaxQueue    \* bound: X events waiting

ASSUME PlatformAssumption ==
  /\ MaxWindows \in Nat /\ MaxEvents \in Nat /\ MaxQueue \in Nat
  /\ \A sym \in DOMAIN KeyOf : KeyOf[sym] # 0

VARIABLES
  windows,   \* state_ptr->windows
  sizes,     \* the size each window believes to have
  quit_fragged,
  xqueue,    \* the X server's: the events sent and not polled,
  heard,     \* how many there were,
  held       \* and the keys that are down according to them

platform_vars == <<windows, sizes, quit_fragged, xqueue, heard, held>>

null == 0

PlatformInit ==
  /\ windows = <<>>
  /\ sizes = <<>>
  /\ quit_fragged = FALSE
  /\ xqueue = <<>>
  /\ heard = 0
  /\ held = {}

Registered(w) == \E i \in DOMAIN windows : windows[i] = w

Live == {w \in 1 .. MaxWindows : Registered(w)}

-----------------------------------------------------------------------------
(***************************************************************************)
(* The X server.  `sent' is the bit 0x80 of an event that another client   *)
(* made up.                                                                *)
(***************************************************************************)
KeyEvents == [type : {"key_press", "key_release"}, sym : Syms, sent : BOOLEAN]

XSends(e) ==
  /\ Len(xqueue) < MaxQueue /\ heard < MaxEvents
  /\ xqueue' = Append(xqueue, e)
  /\ heard' = heard + 1
  /\ held' = CASE e.type = "key_press" /\ ~ e.sent   -> held \cup {e.sym}
               [] e.type = "key_release" /\ ~ e.sent -> held \ {e.sym}
               [] OTHER -> held
  /\ UNCHANGED <<windows, sizes, quit_fragged>>

Polled(e) == xqueue # <<>> /\ e = Head(xqueue) /\ xqueue' = Tail(xqueue)

-----------------------------------------------------------------------------
(***************************************************************************)
(* Parts of platform_pump_messages.                                        *)
(***************************************************************************)
\* Mutant: the bit is masked out here too, as in the switch.
Pressed_masked(e) == e.type = "key_press"

\* Compared without masking the bit out.
Pressed(e) == e.type = "key_press" /\ ~ e.sent

\* Some symbols share a key, and so do all that it does not know.
translate_keycode(sym) == IF sym \in DOMAIN KeyOf THEN KeyOf[sym] ELSE 0

\* window_from_handle reads the window of each slot until it finds x.
MeetsNullSlot(x) ==
  \E i \in DOMAIN windows : windows[i] = null /\ \A j \in 1 .. i : windows[j] # x

Resizes(w, size) == sizes' = [sizes EXCEPT ![w] = size]

\* The slot of a window that is destroyed stays, as null.
Unregister(w) ==
  windows' = [i \in DOMAIN windows |-> IF windows[i] = w THEN null ELSE windows[i]]
=============================================================================
