---------------------------- MODULE MCPureFunctions ----------------------------
EXTENDS PureFunctions

Strings(C, n) == UNION {[1 .. k -> C] : k \in 0 .. n}

\* a, space, slash, dot.
MCTexts == Strings({97, 32, 47, 46}, 5)

\* a, A, b.
MCShortTexts == Strings({97, 65, 98}, 3)

\* The ends of each range that is encoded alike.
MCCodepoints == {1, 126, 127, 128, 2047, 2048, 65535, 65536, 1114111}

MCNumbers == Strings({0, -1, 127, 300, junk}, 2)

Family(can, count) == [can |-> can, count |-> count]

GpuWith(families, extensions, features, minor) ==
  [discrete |-> TRUE, families |-> families, extensions |-> extensions,
   features |-> features, api_minor |-> minor]

SomeFamilies == {Family(can, n) : can \in SUBSET {"graphics", "present", "compute", "transfer"}, n \in 1 .. 2}

Everything == Family({"graphics", "present", "compute", "transfer"}, 1)

\* A device has the extensions of its features.
MCDevices ==
  {GpuWith(fs, {"swapchain"}, {"anisotropy"}, 3) : fs \in [1 .. 2 -> SomeFamilies] \cup [1 .. 3 -> {f \in SomeFamilies : f.count = 1}]}
    \cup {d \in {GpuWith(<<Everything>>, x, {"anisotropy"} \cup f, minor) :
                   x \in SUBSET {"swapchain", "portability_subset", "extended_dynamic_state",
                                 "dynamic_rendering", "line_rasterization"},
                   f \in SUBSET {"dynamic_state", "smooth_lines"}, minor \in 2 .. 3} :
            /\ "smooth_lines" \in d.features => "line_rasterization" \in d.extensions
            /\ "dynamic_state" \in d.features /\ d.api_minor <= 2
                 => "extended_dynamic_state" \in d.extensions}

wanted == <<"B8G8R8A8_UNORM", "SRGB_NONLINEAR">>
other == <<"R8G8B8A8_UNORM", "SRGB_NONLINEAR">>

MCSurfaces ==
  [formats       : {<<other, wanted>>, <<wanted>>, <<other>>},
   present_modes : {{"fifo"}, {"fifo", "mailbox"}, {"fifo", "immediate"}},
   capabilities  : {c \in [minImageCount : 1 .. 3, maxImageCount : 0 .. 4, minImageExtent : {1, 4},
                           maxImageExtent : {4, 8}, currentExtent : {4, U32_MAX}] :
                      c.maxImageCount = 0 \/ c.minImageCount <= c.maxImageCount}]

MCFlags == SUBSET {"vsync", "power_saving"}

MCSides == 1 .. 9

MCMipLevels == 1 .. 4
=============================================================================
