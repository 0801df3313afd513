---------------------------- MODULE EventSystem ----------------------------
(***************************************************************************)
(* core/event.c: listeners registered per event code, and event_fire,      *)
(* which calls them in order until one of them consumes the event.         *)
(*                                                                         *)
(* A callback runs in the middle of event_fire's loop and may call back:   *)
(* it may register and unregister listeners and fire further events, of    *)
(* the same code too (the editor's game_on_key_up fires                    *)
(* APPLICATION_QUIT from inside KEY_RELEASED).  event_fire captured the    *)
(* number of listeners before its loop and indexes the array afresh in     *)
(* each iteration, so it may read slots that have moved, or that lie       *)
(* beyond the present length.  The model keeps those slots.                *)
(*                                                                         *)
(* A removal moves the entries behind it with memcpy.  If there are two or *)
(* more of them the ranges overlap, and in which order their words are     *)
(* copied is up to the library: an entry may come out twice, or with the   *)
(* listener of one and the callback of another.                            *)
(***************************************************************************)
EXTENDS Naturals, Sequences, SequencesExt

CONSTANTS
  Codes,       \* the event codes in use
  Listeners,   \* the listener pointers
  Callbacks,   \* the callback functions
  SystemCodes, \* those below SYSTEM_EVENT_MAX_CODE, which shutdown covers
  MaxDepth,    \* bound: event_fire calls active at a time
  MaxLength,   \* bound: entries of one code
  none,        \* the content of a slot no listener was ever written to
  no_call      \* of an event_fire between two calls

ASSUME EventAssumption == MaxDepth \in Nat /\ MaxLength \in Nat /\ SystemCodes \subseteq Codes

VARIABLES
  up,          \* between event_system_initialize and event_system_shutdown
  registered,  \* state.registered: a darray per code, or nullptr
  frames,      \* the active event_fire calls, the innermost last
  blurred      \* history: the codes with a removal by an overlapping copy

vars == <<up, registered, frames, blurred>>

Entry == [listener : Listeners, callback : Callbacks]

nullptr == [length |-> 0, slots |-> <<>>]

Live(c) == SubSeq(registered[c].slots, 1, registered[c].length)

Current == Last(frames)

\* Code runs outside event_fire, or in a callback of the innermost one.
Outside == up /\ (frames # <<>> => Current.calling # no_call)

-----------------------------------------------------------------------------
(***************************************************************************)
(* The darray operations event.c uses.  A darray starts with one slot and  *)
(* doubles when it is full, which drops nothing.  A pop moves the slots    *)
(* behind it down by one and leaves the last as it is.  Each word that it  *)
(* writes is the one behind, or one that was copied there before, from     *)
(* further behind: of the arrays that can come of it event.c gets one.     *)
(***************************************************************************)
darray_create == [length |-> 0, slots |-> <<none>>]

darray_push(a, e) ==
  LET room == IF a.length >= Len(a.slots)
              THEN a.slots \o [i \in 1 .. Len(a.slots) |-> none]
              ELSE a.slots
  IN [length |-> a.length + 1, slots |-> [room EXCEPT ![a.length + 1] = e]]

\* Where the slots from i on can have a word from.
Sources(a, i) ==
  {from \in [i .. a.length - 1 -> 2 .. a.length] : \A j \in DOMAIN from : from[j] > j}

\* Mutant: the slot that is no longer in use is wiped.
darray_pop_wipes(a, i) ==
  {[length |-> a.length - 1,
    slots  |-> [j \in 1 .. Len(a.slots) |->
                  IF j = a.length THEN none
                  ELSE IF j >= i /\ j < a.length THEN a.slots[j + 1] ELSE a.slots[j]]]}

darray_pop_at(a, i) ==
  {[length |-> a.length - 1,
    slots  |-> [j \in 1 .. Len(a.slots) |->
                  IF j \in i .. a.length - 1
                  THEN [listener |-> a.slots[l[j]].listener, callback |-> a.slots[f[j]].callback]
                  ELSE a.slots[j]]] : l, f \in Sources(a, i)}

-----------------------------------------------------------------------------
Init ==
  /\ up = TRUE
  /\ registered = [c \in Codes |-> nullptr]
  /\ frames = <<>>
  /\ blurred = {}

(***************************************************************************)
(* Each active event_fire carries, beside its locals, what the properties  *)
(* speak of: the listeners there were when it began, those that were       *)
(* registered at any time since, and whether one has left.                 *)
(***************************************************************************)
Joined(c, e) ==
  [k \in DOMAIN frames |->
     IF frames[k].code = c THEN [frames[k] EXCEPT !.known = @ \cup {e}]
                           ELSE frames[k]]

Departed(c) ==
  [k \in DOMAIN frames |->
     IF frames[k].code = c
     THEN [frames[k] EXCEPT !.departed = TRUE, !.began = <<>>]
     ELSE frames[k]]

\* Mutant: the scan for the same listener misses the last slot.
event_register_misses_last(c, l, f) ==
  /\ Outside
  /\ registered[c].length < MaxLength
  /\ \A i \in 1 .. registered[c].length - 1 : Live(c)[i].listener # l
  /\ LET e == [listener |-> l, callback |-> f] IN
       /\ registered' = [registered EXCEPT ![c] =
                           darray_push(IF @ = nullptr THEN darray_create ELSE @, e)]
       /\ frames' = Joined(c, e)
  /\ UNCHANGED <<up, blurred>>

event_register(c, l, f) ==
  /\ Outside
  /\ registered[c].length < MaxLength
  /\ \A i \in 1 .. registered[c].length : Live(c)[i].listener # l
  /\ LET e == [listener |-> l, callback |-> f] IN
       /\ registered' = [registered EXCEPT ![c] =
                           darray_push(IF @ = nullptr THEN darray_create ELSE @, e)]
       /\ frames' = Joined(c, e)
  /\ UNCHANGED <<up, blurred>>

event_unregister(c, l, f) ==
  /\ Outside
  /\ \E i \in 1 .. registered[c].length :
       /\ Live(c)[i] = [listener |-> l, callback |-> f]
       /\ \A j \in 1 .. i - 1 : Live(c)[j] # Live(c)[i]
       /\ \E b \in darray_pop_at(registered[c], i) : registered' = [registered EXCEPT ![c] = b]
       /\ blurred' = IF registered[c].length - i >= 2 THEN blurred \cup {c} ELSE blurred
  /\ frames' = Departed(c)
  /\ UNCHANGED up

(***************************************************************************)
(* event_fire.                                                             *)
(***************************************************************************)
event_fire(c) ==
  /\ Outside
  /\ registered[c] # nullptr
  /\ Len(frames) < MaxDepth
  /\ frames' = Append(frames,
       [code |-> c, i |-> 0, registered_count |-> registered[c].length,
        calling |-> no_call,
        began |-> Live(c), known |-> Range(Live(c)), departed |-> FALSE])
  /\ UNCHANGED <<up, registered, blurred>>

\* Mutant: the loop follows the array's present length.
FireCallsPresent ==
  /\ frames # <<>> /\ Current.calling = no_call
  /\ Current.i < registered[Current.code].length
  /\ frames' = [frames EXCEPT ![Len(frames)].calling =
                  registered[Current.code].slots[Current.i + 1]]
  /\ UNCHANGED <<up, registered, blurred>>

FireCalls ==
  /\ frames # <<>> /\ Current.calling = no_call
  /\ Current.i < Current.registered_count
  /\ frames' = [frames EXCEPT ![Len(frames)].calling =
                  registered[Current.code].slots[Current.i + 1]]
  /\ UNCHANGED <<up, registered, blurred>>

\* Mutant: the loop does not move on.
CallbackDeclinesAgain ==
  /\ frames # <<>> /\ Current.calling # no_call
  /\ frames' = [frames EXCEPT ![Len(frames)].calling = no_call]
  /\ UNCHANGED <<up, registered, blurred>>

CallbackDeclines ==
  /\ frames # <<>> /\ Current.calling # no_call
  /\ frames' = [frames EXCEPT ![Len(frames)].calling = no_call,
                              ![Len(frames)].i = @ + 1]
  /\ UNCHANGED <<up, registered, blurred>>

CallbackConsumes ==
  /\ frames # <<>> /\ Current.calling # no_call
  /\ frames' = Front(frames)
  /\ UNCHANGED <<up, registered, blurred>>

FireReturnsFalse ==
  /\ frames # <<>> /\ Current.calling = no_call
  /\ Current.i >= Current.registered_count
  /\ frames' = Front(frames)
  /\ UNCHANGED <<up, registered, blurred>>

event_system_shutdown ==
  /\ up /\ frames = <<>>
  /\ up' = FALSE
  /\ registered' = [c \in Codes |-> IF c \in SystemCodes THEN nullptr
                                                      ELSE registered[c]]
  /\ UNCHANGED <<frames, blurred>>

event_system_initialize ==
  /\ ~ up
  /\ up' = TRUE
  /\ registered' = [c \in Codes |-> nullptr]
  /\ blurred' = {}
  /\ UNCHANGED frames

Next ==
  \/ \E c \in Codes, l \in Listeners, f \in Callbacks :
       event_register(c, l, f) \/ event_unregister(c, l, f)
  \/ \E c \in Codes : event_fire(c)
  \/ FireCalls \/ CallbackDeclines \/ CallbackConsumes \/ FireReturnsFalse
  \/ event_system_shutdown \/ event_system_initialize

(***************************************************************************)
(* event_fire goes on by itself, and a callback returns.                   *)
(***************************************************************************)
Running == FireCalls \/ FireReturnsFalse \/ CallbackDeclines \/ CallbackConsumes

Spec == Init /\ [][Next]_vars /\ WF_vars(Running)

-----------------------------------------------------------------------------
Frame ==
  [code : Codes, i : Nat, registered_count : Nat, calling : Entry \cup {none, no_call},
   began : Seq(Entry), known : SUBSET Entry, departed : BOOLEAN]

(***************************************************************************)
(* Every variable has its type.  The slots in use hold listeners, each of  *)
(* them once (event.c:43-46), however often others come and go, from       *)
(* inside callbacks too, unless one was removed from before two others: it *)
(* is undefined then what the copy leaves there (darray.c:133-137).        *)
(***************************************************************************)
TypeOK ==
  /\ up \in BOOLEAN
  /\ \A c \in Codes :
       /\ registered[c] \in [length : Nat, slots : Seq(Entry \cup {none})]
       /\ registered[c].length <= Len(registered[c].slots)
       /\ Live(c) \in Seq(Entry)
       /\ c \notin blurred =>
            \A i, j \in DOMAIN Live(c) : i # j => Live(c)[i].listener # Live(c)[j].listener
  /\ frames \in Seq(Frame)
  /\ blurred \subseteq Codes

(***************************************************************************)
(* event_fire never calls through a slot that holds nothing, nor a         *)
(* listener that had left before the event was fired: although its count   *)
(* (line 81) may lie beyond the array's length by the time it reads a slot *)
(* (line 83), what lies there was registered while the event was           *)
(* delivered.  After a removal by an overlapping copy that is so of the    *)
(* listener and of the callback, each for itself.                          *)
(***************************************************************************)
MadeOf(e, known) ==
  /\ e \in Entry
  /\ \E k \in known : k.listener = e.listener
  /\ \E k \in known : k.callback = e.callback

CalledWasRegistered ==
  [][FireCalls => LET called == Last(frames').calling IN
       /\ MadeOf(called, Current.known)
       /\ Current.code \notin blurred => called \in Current.known]_vars

(***************************************************************************)
(* As long as nobody unregisters, an event goes to the listeners there     *)
(* were when it was fired, each in its turn, and to none that a callback   *)
(* adds on the way.                                                        *)
(***************************************************************************)
EachInTurn ==
  \A k \in DOMAIN frames :
    LET f == frames[k] IN
    f.calling # no_call /\ ~ f.departed =>
      f.i < Len(f.began) /\ f.calling = f.began[f.i + 1]

(***************************************************************************)
(* Every event_fire returns, whatever its callbacks register, unregister   *)
(* and fire, unless they never stop firing events.                         *)
(***************************************************************************)
FiresNoMore == <>[][\A c \in Codes : ~ event_fire(c)]_vars

FiresReturn == FiresNoMore => (frames # <<>> ~> frames = <<>>)
=============================================================================
