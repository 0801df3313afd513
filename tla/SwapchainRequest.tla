--------------------------- MODULE SwapchainRequest ---------------------------
(***************************************************************************)
(* renderer/vulkan/vulkan_swapchain.c: what is asked of the driver for a   *)
(* swapchain, given what the surface supports and the flags of the         *)
(* renderer.  The only caller passes no flags.                             *)
(***************************************************************************)
EXTENDS Integers, Sequences, FiniteSetsExt

\* The width of a surface that leaves it to the swapchain.
U32_MAX == 2^16 - 1

MCLAMP(value, min, max) == IF value <= min THEN min ELSE IF value >= max THEN max ELSE value

\* The index of the format wanted, or of the first; there is none of no formats.
image_format(formats) ==
  LET wanted == {i \in DOMAIN formats : formats[i] = <<"B8G8R8A8_UNORM", "SRGB_NONLINEAR">>}
  IN IF wanted = {} THEN 1 ELSE Min(wanted)

present_mode(flags, present_modes) ==
  CASE "vsync" \notin flags -> "immediate"
    [] "vsync" \in flags /\ "power_saving" \notin flags /\ "mailbox" \in present_modes -> "mailbox"
    [] OTHER -> "fifo"

\* The window's size counts only for a surface that leaves it open.
swapchain_extent(size, capabilities) ==
  LET wanted == IF capabilities.currentExtent # U32_MAX
                THEN capabilities.currentExtent ELSE size
  IN MCLAMP(wanted, capabilities.minImageExtent, capabilities.maxImageExtent)

\* Mutant: the maximum is not heeded.
image_count_unbounded(capabilities) == capabilities.minImageCount + 1

\* A maximum of 0 stands for none.
image_count(capabilities) ==
  LET n == capabilities.minImageCount + 1 IN
    IF capabilities.maxImageCount > 0 /\ n > capabilities.maxImageCount
    THEN capabilities.minImageCount ELSE n

\* The mode IMMEDIATE is asked for without a look at the surface's modes
\* (lines 86 and 141), and without vsync, which the only caller never sets
\* (vulkan_backend.c:132), nothing else is: only FIFO is sure to be there.
Unchecked(flags, surface) ==
  "vsync" \notin flags /\ "immediate" \notin surface.present_modes

\* The format is one of the surface's, it allows the number of the images and
\* their size, and it has the present mode but where that was not looked for.
SwapchainFits(size, flags, surface) ==
  LET c == surface.capabilities
      n == image_count(c)
      extent == swapchain_extent(size, c)
  IN /\ image_format(surface.formats) \in DOMAIN surface.formats
     /\ n >= c.minImageCount
     /\ c.maxImageCount > 0 => n <= c.maxImageCount
     /\ c.minImageExtent <= extent /\ extent <= c.maxImageExtent
     /\ \/ present_mode(flags, surface.present_modes) \in surface.present_modes
        \/ Unchecked(flags, surface)
=============================================================================
