------------------------------- MODULE Renderer -------------------------------
(***************************************************************************)
(* renderer/: the front end, and of the Vulkan back end the objects that   *)
(* it makes of the driver, for itself and for each window.  The driver may *)
(* refuse each call.  An action here is what a call does if nothing        *)
(* undefined happens in it; the operators named ...Fault say what would.   *)
(***************************************************************************)
EXTENDS VulkanDevice, SequencesExt

CONSTANTS
  GpuLists, \* the physical devices a machine may have
  FormatCounts, ModeCounts \* formats and present modes of a surface

\* A machine's devices are numbered.
ASSUME GpuAssumption == \A list \in GpuLists : Len(list) \in Nat /\ DOMAIN list = 1 .. Len(list)
ASSUME CountsAssumption == FormatCounts \subseteq Nat /\ ModeCounts \subseteq Nat

VARIABLES
  gpus,
  initialized,   \* of the front end; its backend is null without
  device,        \* the physical device chosen, or none
  objects,       \* the driver's and the X server's: <<kind, window or 0>>
  backends,      \* the windows that have a backend_state
  support,       \* device.swapchain_support: room in its arrays; whether freed
  reported,      \* memory of MEMORY_TAG_GPU_LOCAL reported, in images
  memory_failed, \* an image was refused memory
  orphaned       \* objects whose parent was destroyed before them

renderer_vars ==
  <<gpus, initialized, device, objects, backends, support, reported, memory_failed, orphaned>>

no_fault == "none"

RendererInit ==
  /\ gpus \in GpuLists
  /\ initialized = FALSE
  /\ device = none
  /\ objects = {}
  /\ backends = {}
  /\ support = [formats |-> 0, modes |-> 0, freed |-> FALSE]
  /\ reported = 0
  /\ memory_failed = FALSE
  /\ orphaned = {}

-----------------------------------------------------------------------------
(***************************************************************************)
(* What must be destroyed before what.                                     *)
(***************************************************************************)
ParentKinds(kind) ==
  CASE kind = "surface"                         -> {"xwindow", "instance"}
    [] kind = "swapchain"                       -> {"surface", "device"}
    [] kind = "views"                           -> {"swapchain", "device"}
    [] kind = "depth_view"                      -> {"image", "device"}
    [] kind \in {"image", "memory", "pool"}     -> {"device"}
    [] kind \in {"device", "messenger"}         -> {"instance"}
    [] OTHER                                    -> {}

Children(o) ==
  {c \in objects : o[1] \in ParentKinds(c[1]) /\ o[2] \in {0, c[2]}}

\* Destroys what there is of a sequence of objects, in its order.
Destroys(order) ==
  LET Later(i) == {order[j] : j \in i .. Len(order)}
  IN /\ objects' = objects \ Range(order)
     /\ orphaned' = orphaned \cup UNION
          {Children(order[i]) \cap (Later(i) \cup (objects \ Range(order))) :
             i \in {i \in DOMAIN order : order[i] \in objects}}

-----------------------------------------------------------------------------
(***************************************************************************)
(* Start and end.  That no device was chosen goes unnoticed.               *)
(***************************************************************************)
renderer_system_initialize ==
  /\ device' = select_physical_device(gpus)
  /\ objects' = objects \cup {<<"instance", 0>>, <<"messenger", 0>>}
                  \cup (IF device' = none THEN {} ELSE {<<"device", 0>>, <<"pool", 0>>})
  /\ initialized' = TRUE
  /\ UNCHANGED <<gpus, backends, support, reported, memory_failed, orphaned>>

renderer_system_shutdown ==
  /\ Destroys(<<<<"pool", 0>>, <<"device", 0>>, <<"messenger", 0>>, <<"instance", 0>>>>)
  /\ initialized' = FALSE
  /\ UNCHANGED <<gpus, device, backends, support, reported, memory_failed>>

ShutdownFault == IF initialized /\ device = none THEN "no_device" ELSE no_fault

-----------------------------------------------------------------------------
(***************************************************************************)
(* vulkan_renderer_on_window_created, up to the call `failing' that the    *)
(* driver refuses, with vulkan_swapchain_create and vulkan_image_create.   *)
(* The arrays of formats and modes have the room that the first surface    *)
(* needed.  They are freed when a surface offers nothing, and kept.        *)
(***************************************************************************)
WindowCalls ==
  {"surface", "query", "swapchain", "images", "views", "image", "memory", "bind", "depth_view"}

\* Those whose failure is a trap.
Checked == {"query", "views", "image", "bind", "depth_view"}

SupportFault(formats, modes) ==
  CASE support.freed                            -> "freed_support"
    [] formats = 0 /\ support.formats = 0       -> "no_formats"
    [] \/ support.formats \in 1 .. formats - 1
       \/ support.modes \in 1 .. modes - 1      -> "support_overrun"
    [] OTHER                                    -> no_fault

DepthFault ==
  CASE device = none                                              -> no_fault
    [] device # none /\ vulkan_device_detect_depth_format(gpus[device]) = none
                                                                  -> "no_depth_format"
    [] OTHER ->
         IF find_memory_index(gpus[device], DOMAIN gpus[device].memory, {"device_local"}) = none
         THEN "no_memory_type" ELSE no_fault

\* The first of these that is the case ends the creation, well or not.
CreatedFault(failing, formats, modes) ==
  LET unsupported == SupportFault(formats, modes)
      ends == <<
        <<failing = "surface",                   no_fault>>,
        <<device = none,                         "no_device">>,
        <<failing = "query",                     "assertion">>,
        <<unsupported # no_fault,                unsupported>>,
        <<0 \in {formats, modes},                no_fault>>,
        <<failing \in {"swapchain", "images"},   no_fault>>,
        <<failing = "views",                     "assertion">>,
        <<DepthFault # no_fault,                 DepthFault>>,
        <<failing \in Checked,                   "assertion">>,
        <<TRUE,                                  no_fault>> >>
  IN ends[Min({i \in DOMAIN ends : ends[i][1]})][2]

\* What the driver has made of a window by then.
Made(failing) ==
  CASE failing = "surface"   -> {}
    [] failing = "swapchain" -> {"surface"}
    [] failing = "images"    -> {"surface", "swapchain"}
    [] failing = "memory"    -> {"surface", "swapchain", "views", "image"}
    [] OTHER -> {"surface", "swapchain", "views", "image", "memory", "depth_view"}

vulkan_renderer_on_window_created(w, failing, formats, modes) ==
  LET asked == failing # "surface"
      nothing == asked /\ 0 \in {formats, modes}
      made == IF nothing THEN Made("swapchain") ELSE Made(failing)
      Room(r, n) == IF asked /\ r = 0 THEN n ELSE r
  IN /\ backends' = backends \cup {w}
     /\ objects' = objects \cup {<<kind, w>> : kind \in made \cup {"xwindow"}}
     /\ support' = [formats |-> Room(support.formats, formats),
                    modes |-> Room(support.modes, modes),
                    freed |-> support.freed \/ nothing]
     /\ reported' = IF "memory" \in made THEN reported + 1 ELSE reported
     /\ memory_failed' = (memory_failed \/ (failing = "memory" /\ ~ nothing))
     /\ UNCHANGED <<gpus, initialized, device, orphaned>>

-----------------------------------------------------------------------------
(***************************************************************************)
(* vulkan_renderer_on_window_destroyed, with vulkan_swapchain_destroy and  *)
(* vulkan_image_destroy, and the end of the X window after it.  What an    *)
(* image takes is reported free, whether or not it was given memory.       *)
(***************************************************************************)
\* Mutant: the X window goes before the event is fired.
teardown_xwindow_first(w) ==
  [i \in 1 .. 7 |->
     <<<<"xwindow", "depth_view", "memory", "image", "views", "swapchain", "surface">>[i], w>>]

teardown(w) ==
  [i \in 1 .. 7 |->
     <<<<"depth_view", "memory", "image", "views", "swapchain", "surface", "xwindow">>[i], w>>]

\* Mutant: nothing is reported.
vulkan_renderer_on_window_destroyed_silently(w) ==
  /\ Destroys(teardown(w))
  /\ backends' = backends \ {w}
  /\ UNCHANGED <<gpus, initialized, device, support, reported, memory_failed>>

vulkan_renderer_on_window_destroyed(w) ==
  /\ Destroys(teardown(w))
  /\ backends' = backends \ {w}
  /\ reported' = IF <<"image", w>> \in objects THEN reported - 1 ELSE reported
  /\ UNCHANGED <<gpus, initialized, device, support, memory_failed>>

DestroyedFault(w) ==
  CASE ~ initialized                                  -> "null_backend"
    [] initialized /\ w \in backends /\ device = none -> "no_device"
    [] OTHER                                          -> no_fault
=============================================================================
