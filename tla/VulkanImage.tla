------------------------------ MODULE VulkanImage ------------------------------
(***************************************************************************)
(* renderer/vulkan/vulkan_image.c: the commands that take an image from    *)
(* one layout to another and fill its mip levels.  They are recorded here  *)
(* and executed by the driver, in order.  Levels are numbered from 0.      *)
(* Creation and destruction of images are in Renderer.                     *)
(***************************************************************************)
EXTENDS Integers, Sequences, SequencesExt

Barrier(level, old, new) == [cmd |-> "barrier", level |-> level, old |-> old, new |-> new]

\* Reads a level, of the size given, and writes the next.
Blit(level, source, target) ==
  [cmd |-> "blit", level |-> level, source |-> source, target |-> target]

\* The transitions there are, of all levels at once.  Any other is refused.
Transitions ==
  {<<"undefined", "transfer_dst">>, <<"transfer_dst", "shader_read">>,
   <<"transfer_src", "shader_read">>, <<"undefined", "transfer_src">>}

vulkan_image_transition_layout(mip_levels, old_layout, new_layout) ==
  IF <<old_layout, new_layout>> \in Transitions
  THEN [i \in 1 .. mip_levels |-> Barrier(i - 1, old_layout, new_layout)]
  ELSE <<>>

-----------------------------------------------------------------------------
\* Mutant: a side of one pixel is halved too.
Halved_always(n) == n \div 2

Halved(n) == IF n > 1 THEN n \div 2 ELSE 1

\* mip_width or mip_height when the loop comes to level i.
SideAt(side, i) == FoldLeft(LAMBDA n, j : Halved(n), side, [j \in 1 .. i |-> j])

(***************************************************************************)
(* vulkan_image_mipmaps_generate: refused for one level and for a format   *)
(* that cannot be filtered.  Each level is blitted from the one before.    *)
(***************************************************************************)
MipCommands(i, width, height) ==
  LET w == SideAt(width, i - 1)
      h == SideAt(height, i - 1)
  IN <<Barrier(i - 1, "transfer_dst", "transfer_src"),
       Blit(i - 1, <<w, h>>, <<Halved(w), Halved(h)>>),
       Barrier(i - 1, "transfer_src", "shader_read")>>

vulkan_image_mipmaps_generate(width, height, mip_levels, filters) ==
  IF mip_levels <= 1 \/ ~ filters THEN <<>>
  ELSE FlattenSeq([i \in 1 .. mip_levels - 1 |-> MipCommands(i, width, height)])
         \o <<Barrier(mip_levels - 1, "transfer_dst", "shader_read")>>

(***************************************************************************)
(* The copies between a buffer and level 0, of the whole image or of a     *)
(* region, demand a layout and lead to none.                               *)
(***************************************************************************)
Copy(layout, x, y, width, height) ==
  [cmd |-> "copy", level |-> 0, layout |-> layout, at |-> <<x, y>>, size |-> <<width, height>>]

vulkan_image_copy_from_buffer(width, height) == Copy("transfer_dst", 0, 0, width, height)

vulkan_image_copy_to_buffer(width, height) == Copy("transfer_src", 0, 0, width, height)

vulkan_image_copy_region_to_buffer(x, y, width, height) ==
  Copy("transfer_src", x, y, width, height)

-----------------------------------------------------------------------------
(***************************************************************************)
(* What the driver makes of a command, given the layout of each level, or  *)
(* `invalid' if the command does not fit the layouts it meets.             *)
(***************************************************************************)
invalid == <<>>

Execute(layouts, c) ==
  LET Layout(level) == layouts[level + 1]
      fits ==
        /\ layouts # invalid
        /\ c.level < Len(layouts)
        /\ CASE c.cmd = "barrier" -> Layout(c.level) = c.old \/ c.old = "undefined"
             [] c.cmd = "copy"    -> Layout(c.level) = c.layout
             [] c.cmd = "blit"    -> /\ Layout(c.level) = "transfer_src"
                                     /\ c.level + 1 < Len(layouts)
                                     /\ Layout(c.level + 1) = "transfer_dst"
  IN CASE ~ fits -> invalid
       [] fits /\ c.cmd = "barrier" -> [layouts EXCEPT ![c.level + 1] = c.new]
       [] OTHER -> layouts

Executed(layouts, commands) == FoldLeft(Execute, layouts, commands)

Uniform(layout, mip_levels) == [i \in 1 .. mip_levels |-> layout]

(***************************************************************************)
(* The way of a texture: its levels become targets, the first is uploaded, *)
(* the others are made from it.  Every command meets the layouts it needs, *)
(* and all levels can be sampled at the end, but for a single one, which   *)
(* no call of these takes there.  Nobody calls them yet: Upload and        *)
(* Download are the orders of the calls that their layouts allow.          *)
(***************************************************************************)
Upload(width, height, mip_levels) ==
  vulkan_image_transition_layout(mip_levels, "undefined", "transfer_dst")
    \o <<vulkan_image_copy_from_buffer(width, height)>>
    \o vulkan_image_mipmaps_generate(width, height, mip_levels, TRUE)

\* The way back: the pixels are copied out, those in a corner once more.
Download(width, height, mip_levels) ==
  vulkan_image_transition_layout(mip_levels, "undefined", "transfer_src")
    \o <<vulkan_image_copy_to_buffer(width, height),
         vulkan_image_copy_region_to_buffer(width - 1, height - 1, 1, 1)>>
    \o vulkan_image_transition_layout(mip_levels, "transfer_src", "shader_read")

\* Level i of an image has 1 / 2^i of each side, and at least one pixel.
LevelSide(side, i) == IF side \div 2^i > 0 THEN side \div 2^i ELSE 1

ChainIsReadable(width, height, mip_levels, commands) ==
  /\ Executed(Uniform("undefined", mip_levels), commands)
       = Uniform(IF mip_levels > 1 THEN "shader_read" ELSE "transfer_dst", mip_levels)
  /\ \A k \in DOMAIN commands : commands[k].cmd = "blit" =>
       LET i == commands[k].level IN
       /\ commands[k].source = <<LevelSide(width, i), LevelSide(height, i)>>
       /\ commands[k].target = <<LevelSide(width, i + 1), LevelSide(height, i + 1)>>
=============================================================================
