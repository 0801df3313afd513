----------------------------- MODULE VulkanDevice -----------------------------
(***************************************************************************)
(* renderer/vulkan/vulkan_device.c: the choice of a physical device and of *)
(* its queue families, and what is asked of the driver when the logical    *)
(* device is created.                                                      *)
(*                                                                         *)
(* A physical device is what the driver reports: its kind, queue families, *)
(* extensions, features, memory types and depth formats.  Devices and      *)
(* families are numbered from 1, so that `none' stands for the code's -1.  *)
(***************************************************************************)
EXTENDS Integers, Sequences, FiniteSetsExt

none == 0

First(S) == IF S = {} THEN none ELSE Min(S)

-----------------------------------------------------------------------------
(***************************************************************************)
(* Queue families.                                                         *)
(***************************************************************************)
Able(d, ability) == {i \in DOMAIN d.families : ability \in d.families[i].can}

graphics_family_index(d) == First(Able(d, "graphics"))

\* The graphics family, if it presents; it is not chosen for that.
present_family_index(d) ==
  LET g == graphics_family_index(d) IN
    IF g \in Able(d, "present") THEN g ELSE First(Able(d, "present"))

\* What else a family is for.  Later graphics families than the first do not
\* count as such.
current_transfer_score(d, i) ==
  Cardinality({a \in {"graphics", "present"} :
                 i = graphics_family_index(d) /\ a \in d.families[i].can})
    + (IF i \in Able(d, "compute") THEN 1 ELSE 0)

\* The last of those with the lowest score.
transfer_family_index(d) ==
  LET T == Able(d, "transfer")
      Score(i) == current_transfer_score(d, i)
  IN IF T = {} THEN none
     ELSE Max({i \in T : \A j \in T : Score(i) <= Score(j)})

-----------------------------------------------------------------------------
(***************************************************************************)
(* Selection.  A device that lists no extensions is not asked for any.     *)
(***************************************************************************)
physical_device_meets_requirements(d) ==
  /\ d.discrete
  /\ graphics_family_index(d) # none
  /\ present_family_index(d) # none
  /\ transfer_family_index(d) # none
  /\ d.extensions # {} => "swapchain" \in d.extensions
  /\ "anisotropy" \in d.features

select_physical_device(devices) ==
  First({i \in DOMAIN devices : physical_device_meets_requirements(devices[i])})

-----------------------------------------------------------------------------
(***************************************************************************)
(* vulkan_device_create.                                                   *)
(***************************************************************************)
present_shares_graphics_queue(d) ==
  graphics_family_index(d) = present_family_index(d)

\* Mutant: two queues are asked of a family that may have only one.
queueCount_always_two(d, f) ==
  IF present_shares_graphics_queue(d) /\ f = present_family_index(d)
       /\ d.families[f].count >= 1
  THEN 2 ELSE 1

queueCount(d, f) ==
  IF present_shares_graphics_queue(d) /\ f = present_family_index(d)
       /\ d.families[f].count > 1
  THEN 2 ELSE 1

\* The families in the order in which queues are asked of them.
indices(d) ==
  LET Unless(shared, i) == IF shared THEN <<>> ELSE <<i>>
      t == transfer_family_index(d)
  IN <<graphics_family_index(d)>>
       \o Unless(present_shares_graphics_queue(d), present_family_index(d))
       \o Unless(t = graphics_family_index(d), t)

\* The queues fetched from the device: family and index in it.
fetched(d) ==
  LET p == present_family_index(d)
      second == present_shares_graphics_queue(d) /\ queueCount(d, p) = 2
  IN [graphics |-> <<graphics_family_index(d), 0>>,
      present  |-> <<p, IF second THEN 1 ELSE 0>>,
      transfer |-> <<transfer_family_index(d), 0>>]

\* Of the dynamic state extensions only the first goes by what the device has.
extension_names(d) ==
  {"swapchain"}
    \cup (d.extensions \cap {"portability_subset"})
    \cup (IF d.api_minor <= 2 /\ "dynamic_state" \in d.features
          THEN {"extended_dynamic_state", "dynamic_rendering"} ELSE {})
    \cup (IF "smooth_lines" \in d.features THEN {"line_rasterization"} ELSE {})

vulkan_device_create(d) ==
  [queues     |-> [i \in DOMAIN indices(d) |->
                     [family |-> indices(d)[i], count |-> queueCount(d, indices(d)[i])]],
   extensions |-> extension_names(d)]

-----------------------------------------------------------------------------
vulkan_device_detect_depth_format(d) ==
  LET candidates == <<"D32_SFLOAT_S8_UINT", "D24_UNORM_S8_UINT">>
  IN First({i \in DOMAIN candidates : candidates[i] \in d.depth_formats})

(***************************************************************************)
(* vulkan_backend.c: the first memory type among those of type_filter that *)
(* has all the flags.                                                      *)
(***************************************************************************)
find_memory_index(d, type_filter, property_flags) ==
  First({i \in DOMAIN d.memory : i \in type_filter /\ property_flags \subseteq d.memory[i]})

-----------------------------------------------------------------------------
(***************************************************************************)
(* What a driver may demand of the requests.                               *)
(***************************************************************************)
QueuesFit(d, asked) ==
  /\ \A i \in DOMAIN asked : asked[i].count <= d.families[asked[i].family].count
  /\ \A role \in {"graphics", "present", "transfer"} :
       \E i \in DOMAIN asked :
         /\ asked[i].family = fetched(d)[role][1]
         /\ fetched(d)[role][2] < asked[i].count

Distinct(asked) ==
  \A i \in DOMAIN asked, j \in DOMAIN asked : i # j => asked[i].family # asked[j].family

\* The one case in which a family is named twice.
NamedTwice(d) ==
  present_family_index(d) = transfer_family_index(d) /\ ~ present_shares_graphics_queue(d)

\* The cases in which an extension is asked for that there need not be.
Unlisted(d) ==
  \/ d.extensions = {}
  \/ /\ d.api_minor <= 2 /\ "dynamic_state" \in d.features
     /\ "dynamic_rendering" \notin d.extensions
=============================================================================
