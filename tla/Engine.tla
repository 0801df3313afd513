-------------------------------- MODULE Engine --------------------------------
(***************************************************************************)
(* core/engine.c and entry.h: main, with the subsystems it composes and    *)
(* the game that it calls.  Events are handled where they are fired: QUIT  *)
(* and the events of windows by engine_on_event, KEY_RELEASED by the       *)
(* editor's game_on_key_up.                                                *)
(*                                                                         *)
(* A game may open and close windows of its own, with the functions of     *)
(* platform.h, from its update.  Undefined behaviour and traps end a       *)
(* behaviour, with their name in `fault'.                                  *)
(***************************************************************************)
EXTENDS Input, Platform, Renderer

CONSTANT escape \* KEY_ESCAPE

VARIABLES
  pc,         \* where main is
  is_running,
  created,    \* windows created so far
  games,      \* those that the game holds
  fault

engine_vars == <<pc, is_running, created, games, fault>>

vars == <<input_vars, platform_vars, renderer_vars, engine_vars>>

main_window == 1

Init ==
  /\ InputInit /\ PlatformInit /\ RendererInit
  /\ pc = "initialize"
  /\ is_running = FALSE
  /\ created = 0
  /\ games = {}
  /\ fault = no_fault

At(place) == pc = place /\ fault = no_fault

Dies(cause) ==
  /\ cause # no_fault
  /\ fault' = cause
  /\ UNCHANGED <<input_vars, platform_vars, renderer_vars, pc, is_running, created, games>>

Goes(place) == pc' = place /\ UNCHANGED <<is_running, created, games, fault>>

-----------------------------------------------------------------------------
(***************************************************************************)
(* engine_initialize and the game's initialize.  A failure returns from    *)
(* main at once.                                                           *)
(***************************************************************************)
\* The connection is asked of a display that may not have been opened, and the
\* screens are counted to a number that nothing has set.
InitializeSystems ==
  /\ At("initialize")
  /\ \/ /\ \E connected \in BOOLEAN : Goes(IF connected THEN "renderer" ELSE "exit")
        /\ UNCHANGED <<input_vars, platform_vars, renderer_vars>>
     \/ Dies("no_display")
     \/ Dies("no_screen")

InitializeRenderer ==
  /\ At("renderer")
  /\ \/ renderer_system_initialize /\ Goes("main_window") /\ UNCHANGED <<input_vars, platform_vars>>
     \/ Dies("assertion")

\* platform_window_create, up to the flush that fails or to its end.  The line
\* that says it failed takes the number of the error for a string.
FlushFault == "wrong_format"

WindowFails(w) ==
  /\ objects' = objects \cup {<<"xwindow", w>>}
  /\ created' = w
  /\ sizes' = Append(sizes, Max(Sizes))
  /\ UNCHANGED <<windows, quit_fragged, xqueue, heard, held>>
  /\ UNCHANGED <<gpus, initialized, device, backends, support, reported, memory_failed, orphaned>>

WindowOpens(w, failing, formats, modes) ==
  /\ CreatedFault(failing, formats, modes) = no_fault
  /\ vulkan_renderer_on_window_created(w, failing, formats, modes)
  /\ windows' = Append(windows, w)
  /\ sizes' = Append(sizes, Max(Sizes))
  /\ created' = w
  /\ UNCHANGED <<quit_fragged, xqueue, heard, held>>

Driver == [failing : WindowCalls \cup {"no call"}, formats : FormatCounts, modes : ModeCounts]

OpenMainWindow ==
  /\ At("main_window")
  /\ \/ WindowFails(main_window) /\ pc' = "exit" /\ UNCHANGED <<input_vars, is_running, games, fault>>
     \/ Dies(FlushFault)
     \/ \E d \in Driver :
          \/ /\ WindowOpens(main_window, d.failing, d.formats, d.modes)
             /\ pc' = "game" /\ is_running' = TRUE
             /\ UNCHANGED <<input_vars, games, fault>>
          \/ Dies(CreatedFault(d.failing, d.formats, d.modes))

InitializeGame ==
  /\ At("game")
  /\ \E ok \in BOOLEAN : Goes(IF ok THEN "pump" ELSE "exit")
  /\ UNCHANGED <<input_vars, platform_vars, renderer_vars>>

-----------------------------------------------------------------------------
(***************************************************************************)
(* platform_pump_messages, one X event a step.                             *)
(***************************************************************************)
\* engine_on_event: QUIT.  The handlers of other events do nothing.
Handled(event, key) ==
  is_running' = (is_running /\ ~ (event = "KEY_RELEASED" /\ key = escape))

Pumps(types) == At("pump") /\ xqueue # <<>> /\ Head(xqueue).type \in types

Unpumped == <<windows, heard, held>>

PumpKey ==
  /\ Pumps({"key_press", "key_release"})
  /\ LET e == Head(xqueue)
         key == translate_keycode(e.sym)
     IN /\ Polled(e)
        /\ input_process_key(key, Pressed(e))
        /\ Handled(KeyEvent(key, Pressed(e)), key)
  /\ UNCHANGED <<Unpumped, sizes, quit_fragged, renderer_vars, pc, created, games, fault>>

\* The buttons that have no name are left out.
PumpButton ==
  /\ Pumps({"button"})
  /\ LET e == Head(xqueue) IN
       /\ Polled(e)
       /\ IF e.button \in Buttons THEN input_process_button(e.button, e.pressed)
                                  ELSE UNCHANGED input_vars
  /\ UNCHANGED <<Unpumped, sizes, quit_fragged, renderer_vars, engine_vars>>

PumpMotion ==
  /\ Pumps({"motion"})
  /\ Polled(Head(xqueue)) /\ input_process_mouse_move(Head(xqueue).point)
  /\ UNCHANGED <<Unpumped, sizes, quit_fragged, renderer_vars, engine_vars>>

\* A window that is not found ends the pump, and the loop.
PumpConfigure ==
  /\ Pumps({"configure"})
  /\ LET e == Head(xqueue) IN
       \/ MeetsNullSlot(e.window) /\ Dies("null_slot")
       \/ /\ ~ MeetsNullSlot(e.window)
          /\ Polled(e)
          /\ IF Registered(e.window)
             THEN Resizes(e.window, e.size) /\ UNCHANGED <<pc, is_running>>
             ELSE pc' = "update" /\ is_running' = FALSE /\ UNCHANGED sizes
          /\ UNCHANGED <<Unpumped, quit_fragged, input_vars, renderer_vars, created, games, fault>>

PumpClose ==
  /\ Pumps({"close"})
  /\ Polled(Head(xqueue)) /\ quit_fragged' = TRUE
  /\ UNCHANGED <<Unpumped, sizes, input_vars, renderer_vars, engine_vars>>

\* Mutant: what the pump found is not looked at.
PumpReturns_unheeded ==
  /\ At("pump") /\ xqueue = <<>>
  /\ quit_fragged' = FALSE
  /\ pc' = "update"
  /\ UNCHANGED <<Unpumped, sizes, xqueue, input_vars, renderer_vars, is_running, created, games, fault>>

PumpReturns ==
  /\ At("pump") /\ xqueue = <<>>
  /\ is_running' = (is_running /\ ~ quit_fragged)
  /\ quit_fragged' = FALSE
  /\ pc' = "update"
  /\ UNCHANGED <<Unpumped, sizes, xqueue, input_vars, renderer_vars, created, games, fault>>

-----------------------------------------------------------------------------
(***************************************************************************)
(* The game's update and render.                                           *)
(***************************************************************************)
GameOpens ==
  /\ At("update") /\ created < MaxWindows
  /\ LET w == created + 1 IN
       \/ WindowFails(w) /\ games' = games \cup {w} /\ UNCHANGED <<input_vars, pc, is_running, fault>>
       \/ Dies(FlushFault)
       \/ \E d \in Driver :
            \/ /\ WindowOpens(w, d.failing, d.formats, d.modes)
               /\ games' = games \cup {w}
               /\ UNCHANGED <<input_vars, pc, is_running, fault>>
            \/ Dies(CreatedFault(d.failing, d.formats, d.modes))

platform_window_destroy(w) ==
  /\ Unregister(w)
  /\ vulkan_renderer_on_window_destroyed(w)
  /\ UNCHANGED <<sizes, quit_fragged, xqueue, heard, held, input_vars>>

WindowFault(w) == IF Registered(w) THEN DestroyedFault(w) ELSE no_fault

GameCloses ==
  /\ At("update")
  /\ \E w \in games :
       \/ /\ WindowFault(w) = no_fault
          /\ platform_window_destroy(w)
          /\ games' = games \ {w}
          /\ UNCHANGED <<pc, is_running, created, fault>>
       \/ Dies(WindowFault(w))

\* The engine itself never calls it.
GameUpdatesInput ==
  At("update") /\ input_update /\ UNCHANGED <<platform_vars, renderer_vars, engine_vars>>

\* Mutant: the main window is left open.
GameReturns_unclosed ==
  /\ At("update")
  /\ Goes(IF is_running THEN "pump" ELSE "stop_renderer")
  /\ UNCHANGED <<input_vars, platform_vars, renderer_vars>>

GameReturns ==
  /\ At("update")
  /\ Goes(IF is_running THEN "pump" ELSE "close_main")
  /\ UNCHANGED <<input_vars, platform_vars, renderer_vars>>

-----------------------------------------------------------------------------
(***************************************************************************)
(* The end of engine_run.                                                  *)
(***************************************************************************)
CloseMainWindow ==
  /\ At("close_main")
  /\ \/ /\ WindowFault(main_window) = no_fault
        /\ platform_window_destroy(main_window)
        /\ Goes("stop_renderer")
     \/ Dies(WindowFault(main_window))

StopRenderer ==
  /\ At("stop_renderer")
  /\ \/ /\ ShutdownFault = no_fault
        /\ renderer_system_shutdown
        /\ Goes("stop_platform")
        /\ UNCHANGED <<input_vars, platform_vars>>
     \/ Dies(ShutdownFault)

\* Destroys the windows that are left.  The other systems only forget.
StopPlatform ==
  /\ At("stop_platform")
  /\ \/ Live = {} /\ windows' = <<>> /\ Goes("ended")
        /\ UNCHANGED <<sizes, quit_fragged, xqueue, heard, held, input_vars, renderer_vars>>
     \/ Live # {} /\ Dies(DestroyedFault(Min(Live)))

-----------------------------------------------------------------------------
\* X events come at any time of the loop, for any window there is.
XEvents ==
  KeyEvents
    \cup [type : {"button"}, button : Buttons \cup {"unnamed"}, pressed : BOOLEAN]
    \cup [type : {"motion"}, point : Points]
    \cup [type : {"configure"}, window : {o[2] : o \in {o \in objects : o[1] = "xwindow"}}, size : Sizes]
    \cup [type : {"close"}]

UserActs ==
  /\ pc \in {"pump", "update"} /\ fault = no_fault
  /\ \E e \in XEvents : XSends(e)
  /\ UNCHANGED <<input_vars, renderer_vars, engine_vars>>

Pump == PumpKey \/ PumpButton \/ PumpMotion \/ PumpConfigure \/ PumpClose \/ PumpReturns

Steps ==
  \/ InitializeSystems \/ InitializeRenderer \/ OpenMainWindow \/ InitializeGame
  \/ Pump \/ GameReturns
  \/ CloseMainWindow \/ StopRenderer \/ StopPlatform

Next == Steps \/ GameOpens \/ GameCloses \/ GameUpdatesInput \/ UserActs

(***************************************************************************)
(* main goes on, and the game's update returns (it can open and close only *)
(* so many windows, and what it does else changes nothing).                *)
(***************************************************************************)
Spec == Init /\ [][Next]_vars /\ WF_vars(Steps)

-----------------------------------------------------------------------------
(***************************************************************************)
(* What four kinds of death presuppose (engine.c:53-136): one by freed or  *)
(* too small arrays of formats a window that the game opens, one by the    *)
(* renderer that is gone a window that the game has left open, one by the  *)
(* null in the array of windows a lost window of the game, and one by the  *)
(* device that is not there a machine without a suitable one.  An engine   *)
(* with no window but its own and such a device dies of none of these.     *)
(***************************************************************************)
EngineSurvives ==
  /\ fault \in {"freed_support", "support_overrun"} => pc = "update"
  /\ fault = "null_backend" => games \cap Live # {}
  /\ fault = "null_slot" => \E w \in 2 .. created : ~ Registered(w)
  /\ fault = "no_device" =>
       \A i \in DOMAIN gpus : ~ physical_device_meets_requirements(gpus[i])

(***************************************************************************)
(* Nothing that the driver or the X server made outlives what it was made  *)
(* from, and nothing is left in the end, as long as the game closes its    *)
(* windows (renderer/vulkan, platform_linux.c:346-384).                    *)
(***************************************************************************)
OrderedTeardown ==
  /\ orphaned # {} => games \cap Live # {}
  /\ pc = "ended" => \A o \in objects : o[1] = "xwindow" /\ o[2] \in games

(***************************************************************************)
(* The bytes that are reported as memory of the GPU are those that images  *)
(* hold, unless one was refused them (vulkan_image.c:57-67, 100-102).  The *)
(* count of allocations is another matter: destroying a window that has no *)
(* image reports that 0 bytes are free, which lowers the count only.       *)
(***************************************************************************)
GpuReportsBalance ==
  ~ memory_failed => reported = Cardinality({o \in objects : o[1] = "memory"})

(***************************************************************************)
(* When all events are handled, a key is down only if one of the symbols   *)
(* that mean it is held, and an event that another client made up never    *)
(* presses one (platform_linux.c:148-158, 690-981, input.c:41-49).  Held   *)
(* is what the events delivered say: of a key released while the window    *)
(* has no focus, which nobody asks to be told of (246-252), none is.       *)
(***************************************************************************)
DownKeysAreHeld ==
  At("update") /\ xqueue = <<>> =>
    \A k \in Keys : input_is_key_down(k) => \E sym \in held : translate_keycode(sym) = k

(***************************************************************************)
(* Closing a window and releasing Escape end the program, whatever else    *)
(* happens (platform_linux.c:208-214, editor/src/entry.c:11-20,            *)
(* engine.c:104-136).                                                      *)
(***************************************************************************)
QuitWanted ==
  /\ pc \in {"pump", "update"}
  /\ \E i \in DOMAIN xqueue :
       \/ xqueue[i].type = "close"
       \/ xqueue[i].type = "key_release" /\ translate_keycode(xqueue[i].sym) = escape /\ input_is_key_down(escape)

QuitEnds == QuitWanted ~> (pc = "ended" \/ fault # no_fault)
=============================================================================
