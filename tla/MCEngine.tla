-------------------------------- MODULE MCEngine --------------------------------
EXTENDS Engine

\* KEY_ESCAPE and KEY_LSUPER, which has two symbols; "equal" has no key.
MCKeys == {0, 27, 91}

MCSyms == {"Escape", "Meta_L", "Super_L", "equal"}

MCKeyOf == [sym \in MCSyms \ {"equal"} |-> IF sym = "Escape" THEN 27 ELSE 91]

Gpu(extensions, depth_formats, memory) ==
  [discrete |-> TRUE,
   families |-> <<[can |-> {"graphics", "present", "compute", "transfer"}, count |-> 1]>>,
   extensions |-> extensions, features |-> {"anisotropy"}, api_minor |-> 3,
   depth_formats |-> depth_formats, memory |-> memory]

Good == Gpu({"swapchain"}, {"D24_UNORM_S8_UINT"}, <<{"host_visible"}, {"device_local"}>>)

MCGpuLists ==
  {<<>>, <<Gpu({"other"}, {}, <<>>), Good>>,
   <<Gpu({"swapchain"}, {}, <<{"device_local"}>>)>>,
   <<Gpu({"swapchain"}, {"D24_UNORM_S8_UINT"}, <<{"host_visible"}>>)>>}

MCPoints == {origin, <<1, 0>>}
=============================================================================
