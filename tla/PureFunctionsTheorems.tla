------------------------- MODULE PureFunctionsTheorems -------------------------
(***************************************************************************)
(* What is asked of the driver fits what it reports, for every device and  *)
(* surface, and the levels of a texture can be sampled, for every size of  *)
(* image and number of levels.  The functions of string.c answer what they *)
(* are for, for every text, number and codepoint.                          *)
(***************************************************************************)
EXTENDS PureFunctions, Induction

-----------------------------------------------------------------------------
(***************************************************************************)
(* A call that has returned gave the function's value for its arguments.   *)
(***************************************************************************)
Answered ==
  /\ call \in Calls
  /\ Returned("vulkan_device_create") => result = vulkan_device_create(call.d)
  /\ Returned("vulkan_swapchain_create") =>
       LET c == call.surface.capabilities IN
         result = [images |-> image_count(c), extent |-> swapchain_extent(call.size, c),
                   format |-> image_format(call.surface.formats),
                   mode   |-> present_mode(call.flags, call.surface.present_modes)]
  /\ Returned("mipmaps") => result = Upload(call.w, call.h, call.n)
  /\ Returned("read_back") => result = Download(call.w, call.h, call.n)

LEMMA InitAnswered == Init => Answered
  BY DEF Init, Answered, Returned

LEMMA NextAnswered == Answered /\ [Next]_vars => Answered'
<1> SUFFICES ASSUME Answered, [Next]_vars PROVE Answered'
  OBVIOUS
<1> USE DEF Called, Gives, Returned
<1>1. call.f \notin {"vulkan_device_create", "vulkan_swapchain_create", "mipmaps", "read_back"}
        /\ UNCHANGED call => Answered'
  BY <1>1 DEF Answered
<1>2. CASE TrimText
  BY <1>1, <1>2 DEF TrimText
<1>3. CASE FindByte
  BY <1>1, <1>3 DEF FindByte
<1>4. CASE SplitPath
  BY <1>1, <1>4 DEF SplitPath
<1>5. CASE SplitText
  BY <1>1, <1>5 DEF SplitText
<1>6. CASE Compare
  BY <1>1, <1>6 DEF Compare
<1>7. CASE Starts
  BY <1>1, <1>7 DEF Starts
<1>8. CASE FindText
  BY <1>1, <1>8 DEF FindText
<1>9. CASE InsertText
  <2>1. call.f = "cstr_insert_str_at" /\ UNCHANGED call
    BY <1>9 DEF InsertText
  <2> QED BY <1>1, <2>1
<1>10. CASE CopyText
  BY <1>1, <1>10 DEF CopyText
<1>11. CASE ChangeCase
  BY <1>1, <1>11 DEF ChangeCase
<1>12. CASE ParseText
  BY <1>1, <1>12 DEF ParseText
<1>13. CASE DecodeText
  <2>1. call.f = "cstr_utf8" /\ UNCHANGED call
    BY <1>13 DEF DecodeText
  <2> QED BY <1>1, <2>1
<1>14. CASE CreateDevice
  BY <1>14 DEF CreateDevice, Answered
<1>15. CASE CreateSwapchain
  BY <1>15 DEF CreateSwapchain, Answered
<1>16. CASE GenerateMipmaps
  BY <1>16 DEF GenerateMipmaps, Answered
<1>17. CASE ReadBack
  BY <1>17 DEF ReadBack, Answered
<1>18. CASE UNCHANGED vars
  BY <1>18 DEF vars, Answered
<1> QED
  BY <1>2, <1>3, <1>4, <1>5, <1>6, <1>7, <1>8, <1>9, <1>10, <1>11, <1>12, <1>13, <1>14,
     <1>15, <1>16, <1>17, <1>18 DEF Next

\* The arguments that each call can have.
LEMMA DeviceArgument ==
  ASSUME call \in Calls, call.f = "vulkan_device_create"
  PROVE  call.d \in Devices /\ physical_device_meets_requirements(call.d)
  BY DEF Calls

LEMMA SurfaceArgument ==
  ASSUME call \in Calls, call.f = "vulkan_swapchain_create"
  PROVE  call.surface \in Surfaces /\ call.size \in Nat
  BY DEF Calls

LEMMA ImageArgument ==
  ASSUME call \in Calls, call.f \in {"mipmaps", "read_back"}
  PROVE  call.w \in Sides /\ call.h \in Sides /\ call.n \in MipLevels
  BY DEF Calls

-----------------------------------------------------------------------------
(***************************************************************************)
(* The requests.                                                           *)
(***************************************************************************)
LEMMA LargestIsThere ==
  ASSUME NEW S, NEW n \in Nat, S \subseteq 0 .. n, S # {}
  PROVE  Max(S) \in S /\ \A x \in S : x <= Max(S)
<1>1. PICK x \in S : \A y \in S : x >= y
  BY LargestNatural
<1> QED BY <1>1 DEF Max

LEMMA LeastIsThere ==
  ASSUME NEW S, S \subseteq Nat, S # {}
  PROVE  Min(S) \in S /\ \A x \in S : Min(S) <= x
<1>1. PICK x \in S : \A y \in S : x <= y
  BY LeastNatural
<1> QED BY <1>1 DEF Min

LEMMA SequenceFacts ==
  ASSUME NEW S, NEW s \in Seq(S)
  PROVE  DOMAIN s = 1 .. Len(s) /\ Len(s) \in Nat /\ \A i \in DOMAIN s : s[i] \in S
  OBVIOUS

LEMMA SequenceOf ==
  ASSUME NEW n \in Nat, NEW S, NEW s \in [1 .. n -> S]
  PROVE  s \in Seq(S) /\ Len(s) = n
  OBVIOUS

LEMMA ConcatFacts ==
  ASSUME NEW S, NEW s \in Seq(S), NEW t \in Seq(S)
  PROVE  /\ s \o t \in Seq(S)
         /\ Len(s \o t) = Len(s) + Len(t)
         /\ \A i \in 1 .. Len(s) : (s \o t)[i] = s[i]
         /\ \A i \in 1 .. Len(t) : (s \o t)[Len(s) + i] = t[i]
  OBVIOUS

\* u is t behind s.
Joins(u, s, t, S) ==
  /\ u \in Seq(S)
  /\ Len(u) = Len(s) + Len(t)
  /\ \A i \in 1 .. Len(s) : u[i] = s[i]
  /\ \A i \in 1 .. Len(t) : u[Len(s) + i] = t[i]

LEMMA ConcatJoins ==
  ASSUME NEW S, NEW s \in Seq(S), NEW t \in Seq(S)
  PROVE  Joins(s \o t, s, t, S)
  BY ConcatFacts DEF Joins

LEMMA SameSequence ==
  ASSUME NEW S, NEW s \in Seq(S), NEW t \in Seq(S), Len(s) = Len(t),
         \A i \in 1 .. Len(s) : s[i] = t[i]
  PROVE  s = t
  OBVIOUS

LEMMA TupleFacts ==
  ASSUME NEW S, NEW x \in S, NEW y \in S, NEW z \in S
  PROVE  /\ <<x>> \o <<>> \o <<>> = <<x>>
         /\ <<x>> \o <<>> \o <<y>> = <<x, y>>
         /\ <<x>> \o <<y>> \o <<>> = <<x, y>>
         /\ <<x>> \o <<y>> \o <<z>> = <<x, y, z>>
<1>1. /\ <<>> \in Seq(S) /\ <<x>> \in Seq(S) /\ <<y>> \in Seq(S) /\ <<z>> \in Seq(S)
      /\ <<x, y>> \in Seq(S) /\ <<x, y, z>> \in Seq(S)
  OBVIOUS
<1>2. \A s \in Seq(S) : s \o <<>> = s
  <2>1. ASSUME NEW s \in Seq(S) PROVE s \o <<>> = s
    <3>1. s \o <<>> \in Seq(S) /\ Len(s \o <<>>) = Len(s)
          /\ \A i \in 1 .. Len(s) : (s \o <<>>)[i] = s[i]
      BY <1>1, ConcatFacts
    <3> QED BY <3>1, SameSequence
  <2> QED BY <2>1
<1>3. \A u, v \in S : <<u>> \o <<v>> = <<u, v>>
  <2>1. ASSUME NEW u \in S, NEW v \in S PROVE <<u>> \o <<v>> = <<u, v>>
    <3>1. <<u>> \in Seq(S) /\ <<v>> \in Seq(S) /\ <<u, v>> \in Seq(S)
      OBVIOUS
    <3>2. /\ <<u>> \o <<v>> \in Seq(S) /\ Len(<<u>> \o <<v>>) = 2
          /\ (<<u>> \o <<v>>)[1] = u /\ (<<u>> \o <<v>>)[1 + 1] = v
      BY <3>1, ConcatFacts
    <3>3. \A i \in 1 .. 2 : (<<u>> \o <<v>>)[i] = <<u, v>>[i]
      BY <3>2
    <3> QED BY <3>1, <3>2, <3>3, SameSequence
  <2> QED BY <2>1
<1>4. <<x, y>> \o <<z>> = <<x, y, z>>
  <2>1. /\ <<x, y>> \o <<z>> \in Seq(S) /\ Len(<<x, y>> \o <<z>>) = 3
        /\ (<<x, y>> \o <<z>>)[1] = x /\ (<<x, y>> \o <<z>>)[2] = y
        /\ (<<x, y>> \o <<z>>)[2 + 1] = z
    BY <1>1, ConcatFacts
  <2>2. \A i \in 1 .. 3 : (<<x, y>> \o <<z>>)[i] = <<x, y, z>>[i]
    BY <2>1
  <2> QED BY <1>1, <2>1, <2>2, SameSequence
<1> QED BY <1>1, <1>2, <1>3, <1>4

\* The three families of a device that is chosen are families of it.
LEMMA FamiliesAreThere ==
  ASSUME NEW d \in Devices, physical_device_meets_requirements(d)
  PROVE  /\ DOMAIN d.families \subseteq Nat \ {0}
         /\ \A i \in DOMAIN d.families : d.families[i].count \in Nat \ {0}
         /\ graphics_family_index(d) \in DOMAIN d.families
         /\ present_family_index(d) \in DOMAIN d.families
         /\ transfer_family_index(d) \in DOMAIN d.families
<1> DEFINE D == DOMAIN d.families
           G == Able(d, "graphics")
           P == Able(d, "present")
           T == Able(d, "transfer")
<1>1. d.families \in Seq([can : SUBSET STRING, count : Nat \ {0}])
  BY DevicesAssumption
<1>2. /\ D = 1 .. Len(d.families) /\ Len(d.families) \in Nat
      /\ \A i \in D : d.families[i].count \in Nat \ {0}
  <2>1. D = 1 .. Len(d.families) /\ Len(d.families) \in Nat
        /\ \A i \in D : d.families[i] \in [can : SUBSET STRING, count : Nat \ {0}]
    BY <1>1, SequenceFacts
  <2> QED BY <2>1
<1>3. G \subseteq D /\ P \subseteq D /\ T \subseteq D
  BY DEF Able
<1>4. G # {} /\ graphics_family_index(d) \in G
  <2>1. graphics_family_index(d) # none
    BY DEF physical_device_meets_requirements
  <2>2. G # {} /\ graphics_family_index(d) = Min(G)
    BY <2>1 DEF graphics_family_index, First
  <2>3. G \subseteq Nat
    BY <1>2, <1>3
  <2> QED BY <2>2, <2>3, LeastIsThere
<1>5. present_family_index(d) \in P
  <2>1. present_family_index(d) # none
    BY DEF physical_device_meets_requirements
  <2>2. P \subseteq Nat
    BY <1>2, <1>3
  <2>3. CASE graphics_family_index(d) \in P
    BY <2>3 DEF present_family_index
  <2>4. CASE graphics_family_index(d) \notin P
    <3>1. P # {} /\ present_family_index(d) = Min(P)
      BY <2>1, <2>4 DEF present_family_index, First
    <3> QED BY <2>2, <3>1, LeastIsThere
  <2> QED BY <2>3, <2>4
<1>6. transfer_family_index(d) \in T
  <2> DEFINE Score(i) == current_transfer_score(d, i)
             Best == {i \in T : \A j \in T : Score(i) <= Score(j)}
  <2>1. transfer_family_index(d) # none
    BY DEF physical_device_meets_requirements
  <2>2. T # {} /\ transfer_family_index(d) = Max(Best)
    BY <2>1 DEF transfer_family_index
  <2>3. \A i \in T : Score(i) \in Nat
    <3>1. ASSUME NEW i PROVE Score(i) \in Nat
      <4> DEFINE A == {a \in {"graphics", "present"} :
                         i = graphics_family_index(d) /\ a \in d.families[i].can}
      <4>1. IsFiniteSet({"graphics", "present"}) /\ A \subseteq {"graphics", "present"}
        <5>1. IsFiniteSet({"graphics"}) /\ IsFiniteSet({"present"})
          BY FS_Singleton
        <5>2. IsFiniteSet({"graphics"} \cup {"present"})
          BY <5>1, FS_Union
        <5>3. {"graphics"} \cup {"present"} = {"graphics", "present"}
          OBVIOUS
        <5> QED BY <5>2, <5>3
      <4>2. Cardinality(A) \in Nat
        BY <4>1, FS_Subset, FS_CardinalityType
      <4> HIDE DEF A
      <4>3. Score(i) = Cardinality(A) + (IF i \in Able(d, "compute") THEN 1 ELSE 0)
        BY DEF current_transfer_score, A
      <4> HIDE DEF Score
      <4> QED BY <4>2, <4>3
    <3> QED BY <3>1
  <2> HIDE DEF Score
  <2>4. PICK i \in T : \A j \in T : Score(i) <= Score(j)
    <3> DEFINE V == {Score(i) : i \in T}
    <3>1. V \subseteq Nat /\ V # {}
      BY <2>2, <2>3
    <3>2. PICK v \in V : \A w \in V : v <= w
      <4> HIDE DEF V
      <4> QED BY <3>1, LeastNatural
    <3> QED BY <3>2
  <2>5. Best \subseteq 0 .. Len(d.families) /\ Best # {}
    BY <1>2, <1>3, <2>4
  <2> HIDE DEF Best
  <2>6. Max(Best) \in Best
    BY <1>2, <2>5, LargestIsThere
  <2> QED BY <2>2, <2>6 DEF Best
<1> HIDE DEF G, P, T, D
<1> QED
  <2>1. D \subseteq Nat \ {0}
    BY <1>2
  <2> QED BY <1>2, <1>3, <1>4, <1>5, <1>6, <2>1 DEF D

LEMMA DeviceRequestFits ==
  ASSUME NEW d \in Devices, physical_device_meets_requirements(d)
  PROVE  LET asked == vulkan_device_create(d) IN
           /\ QueuesFit(d, asked.queues)
           /\ Distinct(asked.queues) \/ NamedTwice(d)
           /\ asked.extensions \subseteq d.extensions \/ Unlisted(d)
<1> DEFINE g == graphics_family_index(d)
           p == present_family_index(d)
           t == transfer_family_index(d)
           F == d.families
           n(f) == queueCount(d, f)
           asked == vulkan_device_create(d).queues
<1>1. /\ g \in DOMAIN F /\ p \in DOMAIN F /\ t \in DOMAIN F
      /\ \A i \in DOMAIN F : F[i].count \in Nat \ {0}
  BY FamiliesAreThere
<1>2. \A i \in DOMAIN F : n(i) \in {1, 2} /\ n(i) <= F[i].count
  BY <1>1 DEF queueCount
<1>3. /\ indices(d) = <<g>> \o (IF g = p THEN <<>> ELSE <<p>>) \o (IF t = g THEN <<>> ELSE <<t>>)
      /\ asked = [i \in DOMAIN indices(d) |->
                    [family |-> indices(d)[i], count |-> n(indices(d)[i])]]
  BY DEF indices, present_shares_graphics_queue, vulkan_device_create
<1>4. fetched(d) = [graphics |-> <<g, 0>>, present |-> <<p, IF g = p /\ n(p) = 2 THEN 1 ELSE 0>>,
                    transfer |-> <<t, 0>>]
  BY DEF fetched, present_shares_graphics_queue
<1> HIDE DEF g, p, t, F, n, asked
<1>5. /\ \A i \in DOMAIN indices(d) : indices(d)[i] \in {g, p, t}
      /\ \E i \in DOMAIN indices(d) : indices(d)[i] = g
      /\ \E i \in DOMAIN indices(d) : indices(d)[i] = p
      /\ \E i \in DOMAIN indices(d) : indices(d)[i] = t
      /\ (\A i, j \in DOMAIN indices(d) : i # j => indices(d)[i] # indices(d)[j])
           \/ (p = t /\ p # g)
  <2>1. CASE p = g /\ t = g
    <3>1. indices(d) = <<g>>
      BY <1>3, <2>1
    <3> QED BY <2>1, <3>1
  <2>2. CASE p = g /\ t # g
    <3>1. indices(d) = <<g, t>>
      <4>1. indices(d) = <<g>> \o <<>> \o <<t>>
        BY <1>3, <2>2
      <4>2. <<g>> \o <<>> \o <<t>> = <<g, t>>
        BY <1>1, TupleFacts
      <4> QED BY <4>1, <4>2
    <3> QED BY <2>2, <3>1
  <2>3. CASE p # g /\ t = g
    <3>1. indices(d) = <<g, p>>
      <4>1. indices(d) = <<g>> \o <<p>> \o <<>>
        BY <1>3, <2>3
      <4>2. <<g>> \o <<p>> \o <<>> = <<g, p>>
        BY <1>1, TupleFacts
      <4> QED BY <4>1, <4>2
    <3> QED BY <2>3, <3>1
  <2>4. CASE p # g /\ t # g
    <3>1. indices(d) = <<g, p, t>>
      <4>1. indices(d) = <<g>> \o <<p>> \o <<t>>
        BY <1>3, <2>4
      <4>2. <<g>> \o <<p>> \o <<t>> = <<g, p, t>>
        BY <1>1, TupleFacts
      <4> QED BY <4>1, <4>2
    <3> QED BY <2>4, <3>1
  <2> QED BY <2>1, <2>2, <2>3, <2>4
<1>6. /\ DOMAIN asked = DOMAIN indices(d)
      /\ \A i \in DOMAIN indices(d) :
           asked[i].family = indices(d)[i] /\ asked[i].count = n(indices(d)[i])
  BY <1>3
<1>7. QueuesFit(d, asked)
  <2>1. \A i \in DOMAIN asked : asked[i].count <= F[asked[i].family].count
    BY <1>1, <1>2, <1>5, <1>6
  <2>2. \A role \in {"graphics", "present", "transfer"} :
          fetched(d)[role][1] \in {g, p, t} /\ fetched(d)[role][2] \in Nat
            /\ fetched(d)[role][2] < n(fetched(d)[role][1])
    BY <1>1, <1>2, <1>4
  <2>3. \A role \in {"graphics", "present", "transfer"} :
          \E i \in DOMAIN asked : /\ asked[i].family = fetched(d)[role][1]
                                  /\ fetched(d)[role][2] < asked[i].count
    BY <1>5, <1>6, <2>2
  <2> QED BY <2>1, <2>3 DEF QueuesFit, F
<1>8. Distinct(asked) \/ NamedTwice(d)
  BY <1>5, <1>6 DEF Distinct, NamedTwice, present_shares_graphics_queue, g, p, t
<1>9. vulkan_device_create(d).extensions \subseteq d.extensions \/ Unlisted(d)
  BY DevicesAssumption
     DEF vulkan_device_create, extension_names, Unlisted, physical_device_meets_requirements
<1> QED BY <1>7, <1>8, <1>9 DEF asked

LEMMA SurfaceRequestFits ==
  ASSUME NEW surface \in Surfaces, NEW size \in Nat, NEW flags
  PROVE  SwapchainFits(size, flags, surface)
<1> DEFINE c == surface.capabilities
<1>1. /\ c \in [minImageCount : Nat, maxImageCount : Nat, minImageExtent : Nat,
                maxImageExtent : Nat, currentExtent : Nat]
      /\ c.minImageExtent <= c.maxImageExtent
      /\ c.maxImageCount > 0 => c.minImageCount <= c.maxImageCount
  BY SurfacesAssumption
<1>2. image_format(surface.formats) \in DOMAIN surface.formats
  <2> DEFINE W == {i \in DOMAIN surface.formats :
                     surface.formats[i] = <<"B8G8R8A8_UNORM", "SRGB_NONLINEAR">>}
  <2>1. DOMAIN surface.formats = 1 .. Len(surface.formats) /\ Len(surface.formats) \in Nat \ {0}
    BY SurfacesAssumption
  <2>2. CASE W = {}
    BY <2>1, <2>2 DEF image_format
  <2>3. CASE W # {}
    <3>1. image_format(surface.formats) = Min(W)
      BY <2>3 DEF image_format
    <3>2. W \subseteq DOMAIN surface.formats /\ W \subseteq Nat
      BY <2>1
    <3> HIDE DEF W
    <3> QED BY <2>3, <3>1, <3>2, LeastIsThere
  <2> QED BY <2>2, <2>3
<1> HIDE DEF c
<1>3. /\ image_count(c) >= c.minImageCount
      /\ c.maxImageCount > 0 => image_count(c) <= c.maxImageCount
  BY <1>1 DEF image_count
<1>4. c.minImageExtent <= swapchain_extent(size, c) /\ swapchain_extent(size, c) <= c.maxImageExtent
  <2> DEFINE w == IF c.currentExtent # U32_MAX THEN c.currentExtent ELSE size
  <2>1. w \in Nat /\ swapchain_extent(size, c) = MCLAMP(w, c.minImageExtent, c.maxImageExtent)
    BY <1>1 DEF swapchain_extent
  <2> HIDE DEF w
  <2> QED BY <1>1, <2>1 DEF MCLAMP
<1>5. \/ present_mode(flags, surface.present_modes) \in surface.present_modes
      \/ Unchecked(flags, surface)
  BY SurfacesAssumption DEF present_mode, Unchecked
<1> QED BY <1>2, <1>3, <1>4, <1>5 DEF SwapchainFits, c

(***************************************************************************)
(* Whatever a device and a surface report, no queue is asked for that a    *)
(* family lacks, every queue fetched was asked for, and the swapchain has  *)
(* a format, a size and images that the surface allows, and a mode that it *)
(* has, but for the three cases of the property: a family named twice, an  *)
(* extension and the mode IMMEDIATE asked for unseen, the last whenever    *)
(* vsync is not set, as by the only caller.                                *)
(***************************************************************************)
THEOREM RequestsAreMet == Spec => []RequestsFit
<1>1. Answered => RequestsFit
  <2> SUFFICES ASSUME Answered PROVE RequestsFit
    OBVIOUS
  <2>1. ASSUME Returned("vulkan_device_create")
        PROVE  /\ QueuesFit(call.d, result.queues)
               /\ Distinct(result.queues) \/ NamedTwice(call.d)
               /\ result.extensions \subseteq call.d.extensions \/ Unlisted(call.d)
    <3>1. call.d \in Devices /\ physical_device_meets_requirements(call.d)
      BY <2>1, DeviceArgument DEF Answered, Returned
    <3>2. result = vulkan_device_create(call.d)
      BY <2>1 DEF Answered
    <3> QED BY <3>1, <3>2, DeviceRequestFits
  <2>2. ASSUME Returned("vulkan_swapchain_create")
        PROVE  SwapchainFits(call.size, call.flags, call.surface)
    <3>1. call.surface \in Surfaces /\ call.size \in Nat
      BY <2>2, SurfaceArgument DEF Answered, Returned
    <3> QED BY <3>1, SurfaceRequestFits
  <2> QED BY <2>1, <2>2 DEF RequestsFit
<1> QED BY <1>1, InitAnswered, NextAnswered, PTL DEF Spec

-----------------------------------------------------------------------------
(***************************************************************************)
(* Halving a side again and again.  A power of two is the number of        *)
(* subsets, which doubles with one more element.                           *)
(***************************************************************************)
LEMMA PowersOfTwo ==
  ASSUME NEW n \in Nat
  PROVE  2^n \in Nat \ {0} /\ 2^(n + 1) = 2 * 2^n
<1> DEFINE S == SUBSET (1 .. n)
           T == {s \cup {n + 1} : s \in S}
<1>1. \A k \in Nat : IsFiniteSet(SUBSET (1 .. k)) /\ Cardinality(SUBSET (1 .. k)) = 2^k
  <2>1. ASSUME NEW k \in Nat PROVE IsFiniteSet(SUBSET (1 .. k)) /\ Cardinality(SUBSET (1 .. k)) = 2^k
    <3>1. IsFiniteSet(1 .. k) /\ Cardinality(1 .. k) = k
      BY FS_Interval
    <3> QED BY <3>1, FS_SUBSET
  <2> QED BY <2>1
<1>2. \A s \in S : n + 1 \notin s
  OBVIOUS
<1>3. SUBSET (1 .. n + 1) = S \cup T
  <2>1. ASSUME NEW s \in SUBSET (1 .. n + 1) PROVE s \in S \cup T
    <3>1. CASE n + 1 \notin s
      <4>1. \A x \in s : x \in 1 .. n
        BY <3>1
      <4> QED BY <4>1
    <3>2. CASE n + 1 \in s
      <4>1. \A x \in s \ {n + 1} : x \in 1 .. n
        BY <3>2
      <4>2. s \ {n + 1} \in S /\ s = (s \ {n + 1}) \cup {n + 1}
        BY <3>2, <4>1
      <4> QED BY <4>2
    <3> QED BY <3>1, <3>2
  <2>2. 1 .. n \subseteq 1 .. n + 1 /\ n + 1 \in 1 .. n + 1
    OBVIOUS
  <2>3. S \cup T \subseteq SUBSET (1 .. n + 1)
    BY <2>2
  <2> QED BY <2>1, <2>3
<1>4. S \cap T = {}
  BY <1>2
<1>5. IsFiniteSet(S) /\ Cardinality(S) = 2^n
  BY <1>1
<1>6. IsFiniteSet(T) /\ Cardinality(T) = Cardinality(S)
  <2> DEFINE f == [s \in S |-> s \cup {n + 1}]
  <2>1. \A s, t \in S : f[s] = f[t] => s = t
    BY <1>2
  <2>2. f \in [S -> T] /\ \A t \in T : \E s \in S : f[s] = t
    OBVIOUS
  <2> HIDE DEF f, S, T
  <2>3. f \in Bijection(S, T)
    BY <2>1, <2>2 DEF Bijection, Injection, Surjection, IsInjective
  <2>4. ExistsBijection(S, T)
    BY <2>3 DEF ExistsBijection
  <2> QED BY <1>5, <2>4, FS_Bijection
<1> HIDE DEF S, T
<1>7. Cardinality(S \cup T) = Cardinality(S) + Cardinality(T) - Cardinality({})
  BY <1>4, <1>5, <1>6, FS_Union
<1>8. Cardinality({}) = 0 /\ Cardinality(S) \in Nat
  BY <1>5, FS_EmptySet, FS_CardinalityType
<1>9. 2^(n + 1) = Cardinality(S \cup T)
  <2>1. n + 1 \in Nat
    OBVIOUS
  <2>2. Cardinality(SUBSET (1 .. n + 1)) = 2^(n + 1)
    BY <1>1, <2>1, Zenon
  <2> QED BY <1>3, <2>2, Zenon
<1>10. {} \in S
  BY DEF S
<1>11. Cardinality(S) # 0
  BY <1>5, <1>10, FS_EmptySet
<1> QED BY <1>5, <1>6, <1>7, <1>8, <1>9, <1>11

LEMMA LevelSides ==
  ASSUME NEW side \in Nat \ {0}
  PROVE  /\ LevelSide(side, 0) = side
         /\ \A i \in Nat : /\ LevelSide(side, i) \in Nat \ {0}
                          /\ LevelSide(side, i + 1) = Halved(LevelSide(side, i))
<1>1. LevelSide(side, 0) = side
  <2>1. 2^0 = 1
    <3>1. IsFiniteSet({}) /\ Cardinality({}) = 0
      BY FS_EmptySet
    <3>2. Cardinality(SUBSET {}) = 2^0
      BY <3>1, FS_SUBSET
    <3>3. SUBSET {} = {{}} /\ Cardinality({{}}) = 1
      BY FS_Singleton
    <3> QED BY <3>2, <3>3
  <2> DEFINE p == 2^0
  <2>2. p = 1
    BY <2>1
  <2> HIDE DEF p
  <2>3. side \div p = side
    BY <2>2
  <2> QED BY <2>3 DEF LevelSide, p
<1>2. ASSUME NEW i \in Nat
      PROVE  /\ LevelSide(side, i) \in Nat \ {0}
             /\ LevelSide(side, i + 1) = Halved(LevelSide(side, i))
  <2> DEFINE p == 2^i
             q == 2^(i + 1)
             a == side \div p
             b == side \div q
  <2>1. p \in Nat \ {0} /\ q = 2 * p
    BY PowersOfTwo
  <2>2. LevelSide(side, i) = (IF a > 0 THEN a ELSE 1) /\ LevelSide(side, i + 1) = (IF b > 0 THEN b ELSE 1)
    BY DEF LevelSide
  <2> HIDE DEF p, q
  <2>3. a \in Nat /\ b = a \div 2
    BY <2>1
  <2> HIDE DEF a, b
  <2> QED BY <2>2, <2>3 DEF Halved
<1> QED BY <1>1, <1>2

-----------------------------------------------------------------------------
(***************************************************************************)
(* Recursion along 1 .. n.                                                 *)
(***************************************************************************)
LEMMA LargestFacts ==
  ASSUME NEW n \in Nat
  PROVE  /\ \A s \in SUBSET (1 .. n) : s # {} => Max(s) \in s
         /\ \A k \in 1 .. n : /\ 1 .. k \in SUBSET (1 .. n) /\ 1 .. k # {}
                             /\ Max(1 .. k) = k /\ (1 .. k) \ {k} = 1 .. k - 1
         /\ 1 .. 0 = {}
<1>1. ASSUME NEW s \in SUBSET (1 .. n), s # {} PROVE Max(s) \in s
  <2>1. s \subseteq 0 .. n
    OBVIOUS
  <2> QED BY <1>1, <2>1, LargestIsThere
<1>2. ASSUME NEW k \in 1 .. n
      PROVE  /\ 1 .. k \in SUBSET (1 .. n) /\ 1 .. k # {}
             /\ Max(1 .. k) = k /\ (1 .. k) \ {k} = 1 .. k - 1
  <2>1. 1 .. k \subseteq 0 .. k /\ k \in 1 .. k /\ k \in Nat
    OBVIOUS
  <2>2. Max(1 .. k) \in 1 .. k /\ k <= Max(1 .. k)
    BY <2>1, LargestIsThere
  <2>3. Max(1 .. k) = k
    BY <2>1, <2>2
  <2> QED BY <2>1, <2>3
<1> QED BY <1>1, <1>2

\* A function on sets that takes the greatest element last.
IsFold(f, n, base, step) ==
  \A t \in SUBSET (1 .. n) : f[t] = IF t = {} THEN base ELSE step[Max(t)][f[t \ {Max(t)}]]

LEMMA FoldExists ==
  ASSUME NEW n \in Nat, NEW V, NEW base \in V, NEW step, \A k \in 1 .. n, v \in V : step[k][v] \in V
  PROVE  \E f \in [SUBSET (1 .. n) -> V] : IsFold(f, n, base, step)
<1> DEFINE S == 1 .. n
           pick == [t \in SUBSET S |-> Max(t)]
           steps == [t \in SUBSET S |-> step[Max(t)]]
<1>1. \A t \in SUBSET S : t # {} => pick[t] \in t
  BY LargestFacts
<1>2. \A t \in SUBSET S, v \in V : t # {} => steps[t][v] \in V
  BY LargestFacts
<1>3. IsFiniteSet(S)
  BY FS_Interval
<1>4. \E f : f \in [SUBSET S -> V] /\ Folds(f, S, base, pick, steps)
  <2> HIDE DEF S, pick, steps
  <2> QED BY <1>1, <1>2, <1>3, SubsetRecursion
<1>5. PICK f \in [SUBSET S -> V] :
        \A t \in SUBSET S : f[t] = IF t = {} THEN base ELSE steps[t][f[t \ {pick[t]}]]
  BY <1>4 DEF Folds
<1>6. \A t \in SUBSET S : pick[t] = Max(t) /\ steps[t] = step[Max(t)]
  OBVIOUS
<1> HIDE DEF pick, steps
<1>7. IsFold(f, n, base, step)
  BY <1>5, <1>6, Zenon DEF IsFold
<1> QED BY <1>7

IsChain(g, n, base, step) == g[0] = base /\ \A k \in 1 .. n : g[k] = step[k][g[k - 1]]

LEMMA ChainRecursion ==
  ASSUME NEW n \in Nat, NEW V, NEW base \in V, NEW step,
         \A k \in 1 .. n, v \in V : step[k][v] \in V
  PROVE  \E g \in [0 .. n -> V] : IsChain(g, n, base, step)
<1> DEFINE S == 1 .. n
<1>1. PICK f \in [SUBSET S -> V] :
        \A t \in SUBSET S : f[t] = IF t = {} THEN base ELSE step[Max(t)][f[t \ {Max(t)}]]
  <2>1. \E f \in [SUBSET S -> V] : IsFold(f, n, base, step)
    <3> HIDE DEF S
    <3> QED BY FoldExists, Zenon DEF S
  <2> QED BY <2>1, Zenon DEF IsFold
<1> DEFINE g == [k \in 0 .. n |-> f[1 .. k]]
<1>2. g[0] = base
  <2>1. g[0] = f[1 .. 0] /\ 1 .. 0 = {} /\ {} \in SUBSET S
    BY LargestFacts
  <2>2. f[{}] = base
    BY <1>1
  <2> QED BY <2>1, <2>2, Zenon
<1>3. ASSUME NEW k \in 1 .. n PROVE g[k] = step[k][g[k - 1]]
  <2>1. /\ 1 .. k \in SUBSET S /\ 1 .. k # {} /\ Max(1 .. k) = k
        /\ (1 .. k) \ {k} = 1 .. k - 1
    BY LargestFacts
  <2>2. f[1 .. k] = step[k][f[1 .. k - 1]]
    <3> HIDE DEF S
    <3> QED BY <1>1, <2>1
  <2>3. g[k] = f[1 .. k] /\ g[k - 1] = f[1 .. k - 1]
    BY <1>3
  <2> QED BY <2>2, <2>3
<1>4. \A k \in 0 .. n : 1 .. k \in SUBSET S
  OBVIOUS
<1>5. g \in [0 .. n -> V]
  BY <1>1, <1>4
<1> HIDE DEF g
<1> QED BY <1>2, <1>3, <1>5 DEF IsChain

\* The side at the loop's turn i is that of level i.
LEMMA SidesAreHalved ==
  ASSUME NEW side \in Nat \ {0}, NEW n \in Nat
  PROVE  SideAt(side, n) = LevelSide(side, n)
<1> DEFINE S == 1 .. n
           seq == [j \in 1 .. n |-> j]
           pick == [s \in SUBSET S |-> Max(s)]
           V == Nat \ {0}
           step == [s \in SUBSET S |-> [v \in V |-> Halved(v)]]
           iter == CHOOSE f : f = [s \in SUBSET S |->
                     IF s = {} THEN side ELSE Halved(f[s \ {Max(s)}])]
<1>1. DOMAIN seq = S
  OBVIOUS
<1>2. \A v \in V : Halved(v) \in V
  BY DEF Halved
<1>3. \E f : f \in [SUBSET S -> V] /\ Folds(f, S, side, pick, step)
  <2>1. \A s \in SUBSET S : s # {} => pick[s] \in s
    BY LargestFacts
  <2>2. \A s \in SUBSET S, v \in V : s # {} => step[s][v] \in V
    BY <1>2
  <2>3. IsFiniteSet(S) /\ side \in V
    BY FS_Interval
  <2> HIDE DEF S, V, pick, step
  <2> QED BY <2>1, <2>2, <2>3, SubsetRecursion
<1>4. PICK f \in [SUBSET S -> V] :
        \A s \in SUBSET S : f[s] = IF s = {} THEN side ELSE step[s][f[s \ {pick[s]}]]
  BY <1>3 DEF Folds
<1>5. \A s \in SUBSET S : f[s] = IF s = {} THEN side ELSE Halved(f[s \ {Max(s)}])
  <2>1. ASSUME NEW s \in SUBSET S, s # {} PROVE f[s] = Halved(f[s \ {Max(s)}])
    <3>1. pick[s] = Max(s) /\ s \ {Max(s)} \in SUBSET S
      OBVIOUS
    <3>2. f[s \ {Max(s)}] \in V
      <4> HIDE DEF S, V
      <4> QED BY <1>4, <3>1
    <3>3. step[s][f[s \ {Max(s)}]] = Halved(f[s \ {Max(s)}])
      <4> HIDE DEF S, V
      <4> QED BY <3>2
    <3>4. f[s] = step[s][f[s \ {pick[s]}]]
      <4> HIDE DEF S, V, step, pick
      <4> QED BY <1>4, <2>1
    <3> HIDE DEF step, S, V, pick
    <3> QED BY <3>1, <3>3, <3>4
  <2> HIDE DEF step, S, V, pick
  <2> QED BY <1>4, <2>1
<1>6. iter = [s \in SUBSET S |-> IF s = {} THEN side ELSE Halved(iter[s \ {Max(s)}])]
  <2>1. f = [s \in SUBSET S |-> IF s = {} THEN side ELSE Halved(f[s \ {Max(s)}])]
    <3> HIDE DEF S, V
    <3> QED BY <1>4, <1>5
  <2> QED BY <2>1
<1>7. SideAt(side, n) = iter[S]
  BY <1>1 DEF SideAt, FoldLeft, MapThenFoldSet
<1> HIDE DEF iter
<1> DEFINE T == {k \in Nat : k <= n => iter[1 .. k] = LevelSide(side, k)}
<1>8. 0 \in T
  <2>1. iter[{}] = side
    BY <1>6
  <2> QED BY <2>1, LargestFacts, LevelSides
<1>9. ASSUME NEW k \in Nat, k \in T PROVE k + 1 \in T
  <2> SUFFICES ASSUME k + 1 <= n PROVE iter[1 .. k + 1] = LevelSide(side, k + 1)
    OBVIOUS
  <2>1. k + 1 \in 1 .. n /\ (k + 1) - 1 = k
    OBVIOUS
  <2>2. /\ 1 .. k + 1 \in SUBSET S /\ 1 .. k + 1 # {} /\ Max(1 .. k + 1) = k + 1
        /\ (1 .. k + 1) \ {k + 1} = 1 .. k
    BY <2>1, LargestFacts
  <2>3. iter[1 .. k + 1] = Halved(iter[1 .. k])
    <3> HIDE DEF S
    <3> QED BY <1>6, <2>2
  <2>4. iter[1 .. k] = LevelSide(side, k)
    BY <1>9
  <2> QED BY <2>3, <2>4, LevelSides
<1>10. n \in T
  <2> HIDE DEF T
  <2> QED BY <1>8, <1>9, AllNaturals
<1> QED BY <1>7, <1>10

-----------------------------------------------------------------------------
(***************************************************************************)
(* Executing commands one after the other.                                 *)
(***************************************************************************)
Names == {"undefined", "transfer_dst", "transfer_src", "shader_read"}

Layouts(n) == [1 .. n -> Names]

Writes(c) == c.cmd = "barrier" => c.new \in Names

LEMMA ExecuteStays ==
  ASSUME NEW n \in Nat, NEW v \in Layouts(n) \cup {invalid}, NEW c, Writes(c)
  PROVE  Execute(v, c) \in Layouts(n) \cup {invalid}
  BY DEF Execute, Layouts, Writes

\* g[k] is what the first k commands make of the layouts.
Trace(g, layouts, commands) ==
  /\ g[0] = layouts
  /\ \A k \in 1 .. Len(commands) : g[k] = Execute(g[k - 1], commands[k])
  /\ Executed(layouts, commands) = g[Len(commands)]

LEMMA TraceExists ==
  ASSUME NEW m \in Nat, NEW layouts \in Layouts(m), NEW C, NEW cmds \in Seq(C),
         \A c \in C : Writes(c)
  PROVE  \E g : Trace(g, layouts, cmds)
<1> DEFINE n == Len(cmds)
           S == 1 .. n
           pick == [s \in SUBSET S |-> Max(s)]
           V == Layouts(m) \cup {invalid}
           step == [s \in SUBSET S |-> [v \in V |-> Execute(v, cmds[Max(s)])]]
           iter == CHOOSE f : f = [s \in SUBSET S |->
                     IF s = {} THEN layouts ELSE Execute(f[s \ {Max(s)}], cmds[Max(s)])]
<1>1. DOMAIN cmds = S /\ n \in Nat /\ \A i \in S : cmds[i] \in C
  OBVIOUS
<1>2. \A v \in V, i \in S : Execute(v, cmds[i]) \in V
  BY <1>1, ExecuteStays
<1> HIDE DEF n
<1>3. \E f : f \in [SUBSET S -> V] /\ Folds(f, S, layouts, pick, step)
  <2>1. \A s \in SUBSET S : s # {} => pick[s] \in s
    BY <1>1, LargestFacts
  <2>2. \A s \in SUBSET S, v \in V : s # {} => step[s][v] \in V
    <3>1. ASSUME NEW s \in SUBSET S, NEW v \in V, s # {} PROVE step[s][v] \in V
      <4>1. Max(s) \in S
        BY <1>1, <3>1, LargestFacts
      <4>2. step[s][v] = Execute(v, cmds[Max(s)])
        <5> HIDE DEF S, V
        <5> QED OBVIOUS
      <4> HIDE DEF S, V, step
      <4> QED BY <1>2, <4>1, <4>2
    <3> HIDE DEF S, V, step
    <3> QED BY <3>1
  <2>3. IsFiniteSet(S) /\ layouts \in V
    BY <1>1, FS_Interval
  <2> HIDE DEF S, V, pick, step
  <2> QED BY <2>1, <2>2, <2>3, SubsetRecursion
<1>4. PICK f \in [SUBSET S -> V] :
        \A s \in SUBSET S : f[s] = IF s = {} THEN layouts ELSE step[s][f[s \ {pick[s]}]]
  BY <1>3 DEF Folds
<1>5. \A s \in SUBSET S :
        f[s] = IF s = {} THEN layouts ELSE Execute(f[s \ {Max(s)}], cmds[Max(s)])
  <2>1. ASSUME NEW s \in SUBSET S, s # {} PROVE f[s] = Execute(f[s \ {Max(s)}], cmds[Max(s)])
    <3>1. pick[s] = Max(s) /\ s \ {Max(s)} \in SUBSET S
      OBVIOUS
    <3>2. f[s \ {Max(s)}] \in V
      <4> HIDE DEF S, V
      <4> QED BY <1>4, <3>1
    <3>3. step[s][f[s \ {Max(s)}]] = Execute(f[s \ {Max(s)}], cmds[Max(s)])
      <4> HIDE DEF S, V
      <4> QED BY <3>2
    <3>4. f[s] = step[s][f[s \ {pick[s]}]]
      <4> HIDE DEF S, V, step, pick
      <4> QED BY <1>4, <2>1
    <3> HIDE DEF step, S, V, pick
    <3> QED BY <3>1, <3>3, <3>4
  <2> HIDE DEF step, S, V, pick
  <2> QED BY <1>4, <2>1
<1>6. iter = [s \in SUBSET S |->
                IF s = {} THEN layouts ELSE Execute(iter[s \ {Max(s)}], cmds[Max(s)])]
  <2>1. f = [s \in SUBSET S |->
               IF s = {} THEN layouts ELSE Execute(f[s \ {Max(s)}], cmds[Max(s)])]
    <3> HIDE DEF S, V
    <3> QED BY <1>4, <1>5
  <2> QED BY <2>1
<1>7. Executed(layouts, cmds) = iter[S]
  BY <1>1 DEF Executed, FoldLeft, MapThenFoldSet
<1> HIDE DEF iter
<1> DEFINE g == [k \in 0 .. n |-> iter[1 .. k]]
<1>8. g[0] = layouts
  <2>1. g[0] = iter[1 .. 0] /\ 1 .. 0 = {} /\ {} \in SUBSET S
    BY <1>1, LargestFacts
  <2>2. iter[{}] = layouts
    BY <1>6
  <2> QED BY <2>1, <2>2, Zenon
<1>9. ASSUME NEW k \in 1 .. n PROVE g[k] = Execute(g[k - 1], cmds[k])
  <2>1. /\ 1 .. k \in SUBSET S /\ 1 .. k # {} /\ Max(1 .. k) = k
        /\ (1 .. k) \ {k} = 1 .. k - 1
    BY <1>1, LargestFacts
  <2>2. iter[1 .. k] = Execute(iter[1 .. k - 1], cmds[k])
    <3> HIDE DEF S
    <3> QED BY <1>6, <2>1
  <2>3. g[k] = iter[1 .. k] /\ g[k - 1] = iter[1 .. k - 1]
    BY <1>1, <1>9
  <2> QED BY <2>2, <2>3
<1>10. Executed(layouts, cmds) = g[n]
  BY <1>1, <1>7
<1> HIDE DEF g
<1>11. Trace(g, layouts, cmds)
  BY <1>8, <1>9, <1>10 DEF Trace, n
<1> QED BY <1>11

-----------------------------------------------------------------------------
(***************************************************************************)
(* The commands, one by one.                                               *)
(***************************************************************************)
Command ==
  [cmd : {"barrier"}, level : Nat, old : Names, new : Names]
    \cup [cmd : {"blit"}, level : Nat, source : Int \X Int, target : Int \X Int]
    \cup [cmd : {"copy"}, level : {0}, layout : Names, at : Int \X Int, size : Int \X Int]

LEMMA NamesFacts ==
  /\ "undefined" \in Names /\ "transfer_dst" \in Names
  /\ "transfer_src" \in Names /\ "shader_read" \in Names
  BY DEF Names

LEMMA CommandsWrite == \A c \in Command : Writes(c)
  BY DEF Command, Writes

\* F has the sequences of three one after the other.
AreTriples(F, seqs, m, C) ==
  /\ F \in Seq(C) /\ Len(F) = 3 * m
  /\ \A i \in 1 .. m, j \in 1 .. 3 : F[3 * (i - 1) + j] = seqs[i][j]

LEMMA TriplesInARow ==
  ASSUME NEW C, NEW m \in Nat \ {0}, NEW seqs \in [1 .. m -> Seq(C)],
         \A i \in 1 .. m : Len(seqs[i]) = 3
  PROVE  AreTriples(FlattenSeq(seqs), seqs, m, C)
<1> DEFINE flatten == CHOOSE f : f = [i \in 1 .. m |->
                        IF i = 1 THEN seqs[i] ELSE f[i - 1] \o seqs[i]]
           step == [k \in 1 .. m - 1 |-> [v \in Seq(C) |-> v \o seqs[k + 1]]]
<1>1. Len(seqs) = m
  <2>1. seqs \in Seq(Seq(C)) /\ DOMAIN seqs = 1 .. m
    OBVIOUS
  <2> QED BY <2>1
<1>2. \A k \in 1 .. m : seqs[k] \in Seq(C)
  OBVIOUS
<1>3. \E g \in [0 .. m - 1 -> Seq(C)] :
        g[0] = seqs[1] /\ \A k \in 1 .. m - 1 : g[k] = step[k][g[k - 1]]
  <2>1. \A k \in 1 .. m - 1, v \in Seq(C) : step[k][v] \in Seq(C)
    <3>1. ASSUME NEW k \in 1 .. m - 1, NEW v \in Seq(C) PROVE step[k][v] \in Seq(C)
      <4>1. k + 1 \in 1 .. m
        OBVIOUS
      <4>2. step[k][v] = v \o seqs[k + 1]
        OBVIOUS
      <4> QED BY <1>2, <4>1, <4>2, ConcatFacts
    <3> QED BY <3>1
  <2> DEFINE N == m - 1
             V == Seq(C)
             first == seqs[1]
  <2>2. N \in Nat /\ first \in V
    OBVIOUS
  <2>3. \A k \in 1 .. N, v \in V : step[k][v] \in V
    BY <2>1
  <2> HIDE DEF step, N, V, first
  <2>4. \E g \in [0 .. N -> V] : IsChain(g, N, first, step)
    BY <2>2, <2>3, ChainRecursion, Zenon
  <2> QED BY <2>4 DEF IsChain, N, V, first
<1>4. PICK g \in [0 .. m - 1 -> Seq(C)] :
        g[0] = seqs[1] /\ \A k \in 1 .. m - 1 : g[k] = g[k - 1] \o seqs[k + 1]
  <2>1. PICK g \in [0 .. m - 1 -> Seq(C)] :
          g[0] = seqs[1] /\ \A k \in 1 .. m - 1 : g[k] = step[k][g[k - 1]]
    BY <1>3
  <2>2. ASSUME NEW k \in 1 .. m - 1 PROVE g[k] = g[k - 1] \o seqs[k + 1]
    <3>1. k - 1 \in 0 .. m - 1
      OBVIOUS
    <3>2. g[k - 1] \in Seq(C)
      BY <3>1
    <3>3. step[k][g[k - 1]] = g[k - 1] \o seqs[k + 1]
      BY <3>2
    <3> QED BY <2>1, <3>3
  <2> QED BY <2>1, <2>2
<1>5. flatten = [i \in 1 .. m |-> IF i = 1 THEN seqs[i] ELSE flatten[i - 1] \o seqs[i]]
  <2> DEFINE f == [i \in 1 .. m |-> g[i - 1]]
  <2>1. ASSUME NEW i \in 1 .. m, i # 1 PROVE f[i] = f[i - 1] \o seqs[i]
    <3>1. i - 1 \in 1 .. m - 1 /\ (i - 1) + 1 = i /\ i - 1 \in 1 .. m
      BY <2>1
    <3>2. g[i - 1] = g[(i - 1) - 1] \o seqs[(i - 1) + 1]
      BY <1>4, <3>1
    <3> QED BY <3>1, <3>2
  <2>2. f[1] = seqs[1]
    BY <1>4
  <2> HIDE DEF f
  <2>3. f = [i \in 1 .. m |-> IF i = 1 THEN seqs[i] ELSE f[i - 1] \o seqs[i]]
    <3>1. f = [i \in 1 .. m |-> f[i]]
      BY DEF f
    <3> QED BY <2>1, <2>2, <3>1
  <2> QED BY <2>3
<1>6. FlattenSeq(seqs) = flatten[m]
  BY <1>1 DEF FlattenSeq
<1> HIDE DEF flatten, step
<1> DEFINE Good(k) == /\ flatten[k] \in Seq(C)
                      /\ Len(flatten[k]) = 3 * k
                      /\ \A i \in 1 .. k, j \in 1 .. 3 : flatten[k][3 * (i - 1) + j] = seqs[i][j]
           T == {k \in Nat : k + 1 <= m => Good(k + 1)}
<1>7. 0 \in T
  <2>1. flatten[1] = seqs[1]
    BY <1>5
  <2>2. Good(1)
    BY <1>2, <2>1
  <2> QED BY <2>2
<1>8. ASSUME NEW k \in Nat, k \in T PROVE k + 1 \in T
  <2> SUFFICES ASSUME k + 2 <= m PROVE Good(k + 2)
    OBVIOUS
  <2>1. Good(k + 1)
    BY <1>8
  <2>2. flatten[k + 2] = flatten[k + 1] \o seqs[k + 2]
    <3>1. k + 2 \in 1 .. m /\ k + 2 # 1 /\ (k + 2) - 1 = k + 1
      OBVIOUS
    <3> QED BY <1>5, <3>1
  <2>3. seqs[k + 2] \in Seq(C) /\ Len(seqs[k + 2]) = 3
    <3>1. k + 2 \in 1 .. m
      OBVIOUS
    <3> QED BY <1>2, <3>1
  <2>4. /\ flatten[k + 2] \in Seq(C)
        /\ Len(flatten[k + 2]) = Len(flatten[k + 1]) + 3
        /\ \A i \in 1 .. Len(flatten[k + 1]) : flatten[k + 2][i] = flatten[k + 1][i]
        /\ \A i \in 1 .. 3 : flatten[k + 2][Len(flatten[k + 1]) + i] = seqs[k + 2][i]
    <3> DEFINE a == flatten[k + 1]
               b == seqs[k + 2]
    <3>1. a \in Seq(C) /\ b \in Seq(C) /\ Len(b) = 3 /\ flatten[k + 2] = a \o b
      BY <2>1, <2>2, <2>3
    <3> HIDE DEF a, b
    <3>2. Joins(a \o b, a, b, C)
      BY <3>1, ConcatJoins, Zenon
    <3> QED BY <3>1, <3>2 DEF Joins, a, b
  <2>5. Len(flatten[k + 2]) = 3 * (k + 2)
    BY <2>1, <2>4
  <2>6. ASSUME NEW i \in 1 .. k + 2, NEW j \in 1 .. 3
        PROVE  flatten[k + 2][3 * (i - 1) + j] = seqs[i][j]
    <3>1. CASE i = k + 2
      <4>1. 3 * (i - 1) + j = Len(flatten[k + 1]) + j
        BY <2>1, <3>1
      <4> QED BY <2>4, <3>1, <4>1
    <3>2. CASE i \in 1 .. k + 1
      <4>1. 3 * (i - 1) + j \in 1 .. Len(flatten[k + 1])
        BY <2>1, <3>2
      <4>2. flatten[k + 1][3 * (i - 1) + j] = seqs[i][j]
        BY <2>1, <3>2
      <4> QED BY <2>4, <4>1, <4>2
    <3> QED BY <3>1, <3>2
  <2> QED BY <2>4, <2>5, <2>6
<1>9. m - 1 \in T
  <2>1. Nat \subseteq T
    <3> HIDE DEF T
    <3> QED BY <1>7, <1>8, AllNaturals
  <2>2. m - 1 \in Nat
    OBVIOUS
  <2> HIDE DEF T
  <2> QED BY <2>1, <2>2
<1>10. Good(m)
  <2>1. (m - 1) + 1 = m
    OBVIOUS
  <2> HIDE DEF Good
  <2> QED BY <1>9, <2>1
<1> QED BY <1>6, <1>10 DEF AreTriples

\* A transition has a barrier for each level.
IsTransition(T, n, old, new) ==
  /\ T \in Seq(Command) /\ Len(T) = n
  /\ \A k \in 1 .. n : T[k] = Barrier(k - 1, old, new)

LEMMA TransitionFacts ==
  ASSUME NEW n \in Nat \ {0}, NEW old \in Names, NEW new \in Names, <<old, new>> \in Transitions
  PROVE  IsTransition(vulkan_image_transition_layout(n, old, new), n, old, new)
<1> DEFINE T == vulkan_image_transition_layout(n, old, new)
<1>1. T = [i \in 1 .. n |-> Barrier(i - 1, old, new)]
  BY DEF vulkan_image_transition_layout
<1>2. \A i \in 1 .. n : Barrier(i - 1, old, new) \in Command
  BY DEF Barrier, Command
<1>3. T \in [1 .. n -> Command]
  BY <1>1, <1>2
<1> HIDE DEF T
<1>4. T \in Seq(Command) /\ Len(T) = n
  BY <1>3, SequenceOf
<1>5. \A k \in 1 .. n : T[k] = Barrier(k - 1, old, new)
  BY <1>1
<1> QED BY <1>4, <1>5 DEF T, IsTransition

LEMMA BarrierIsCommand ==
  ASSUME NEW level \in Nat, NEW old \in Names, NEW new \in Names
  PROVE  Barrier(level, old, new) \in Command
  BY DEF Barrier, Command

LEMMA CopyIsCommand ==
  ASSUME NEW layout \in Names, NEW x \in Int, NEW y \in Int, NEW w \in Int, NEW h \in Int
  PROVE  Copy(layout, x, y, w, h) \in Command
  BY DEF Copy, Command

\* The commands for the levels come after the first n + 1.
IsUpload(U, width, height, n) ==
  /\ U \in Seq(Command)
  /\ Len(U) = IF n = 1 THEN n + 1 ELSE n + 1 + (3 * (n - 1) + 1)
  /\ \A k \in 1 .. n : U[k] = Barrier(k - 1, "undefined", "transfer_dst")
  /\ U[n + 1] = vulkan_image_copy_from_buffer(width, height)
  /\ n > 1 => /\ \A i \in 1 .. n - 1, j \in 1 .. 3 :
                   U[n + 1 + (3 * (i - 1) + j)] = MipCommands(i, width, height)[j]
              /\ U[n + 1 + (3 * (n - 1) + 1)] = Barrier(n - 1, "transfer_dst", "shader_read")

LEMMA UploadCommands ==
  ASSUME NEW width \in Nat \ {0}, NEW height \in Nat \ {0}, NEW n \in Nat \ {0}
  PROVE  IsUpload(Upload(width, height, n), width, height, n)
<1> DEFINE T == vulkan_image_transition_layout(n, "undefined", "transfer_dst")
           copy == vulkan_image_copy_from_buffer(width, height)
           seqs == [i \in 1 .. n - 1 |-> MipCommands(i, width, height)]
           last == Barrier(n - 1, "transfer_dst", "shader_read")
           F == FlattenSeq(seqs)
           G == vulkan_image_mipmaps_generate(width, height, n, TRUE)
           U == Upload(width, height, n)
<1>1. /\ T \in Seq(Command) /\ Len(T) = n
      /\ \A k \in 1 .. n : T[k] = Barrier(k - 1, "undefined", "transfer_dst")
  <2>1. <<"undefined", "transfer_dst">> \in Transitions
    BY DEF Transitions
  <2>2. IsTransition(vulkan_image_transition_layout(n, "undefined", "transfer_dst"),
                     n, "undefined", "transfer_dst")
    BY <2>1, NamesFacts, TransitionFacts, Zenon
  <2> HIDE DEF T
  <2> QED BY <2>2 DEF T, IsTransition
<1>2. copy \in Command /\ last \in Command
  <2>1. n - 1 \in Nat /\ 0 \in Int
    OBVIOUS
  <2>2. last \in Command
    BY <2>1, NamesFacts, BarrierIsCommand, Zenon
  <2>3. width \in Int /\ height \in Int
    OBVIOUS
  <2>4. Copy("transfer_dst", 0, 0, width, height) \in Command
    BY <2>1, <2>3, NamesFacts, CopyIsCommand, Zenon
  <2> QED BY <2>2, <2>4 DEF vulkan_image_copy_from_buffer
<1>3. U = (T \o <<copy>>) \o G
  BY DEF Upload
<1>4. n > 1 => G = F \o <<last>>
  BY DEF vulkan_image_mipmaps_generate
<1>5. n = 1 => G = <<>>
  BY DEF vulkan_image_mipmaps_generate
<1>6. ASSUME NEW i \in 1 .. n - 1
      PROVE  MipCommands(i, width, height) \in Seq(Command) /\ Len(MipCommands(i, width, height)) = 3
  <2> DEFINE w == SideAt(width, i - 1)
             h == SideAt(height, i - 1)
  <2>1. w \in Nat /\ h \in Nat /\ i - 1 \in Nat
    <3>1. i - 1 \in Nat
      OBVIOUS
    <3>2. w = LevelSide(width, i - 1) /\ h = LevelSide(height, i - 1)
      BY <3>1, SidesAreHalved
    <3>3. LevelSide(width, i - 1) \in Nat /\ LevelSide(height, i - 1) \in Nat
      BY <3>1, LevelSides
    <3> HIDE DEF w, h
    <3> QED BY <3>1, <3>2, <3>3
  <2> HIDE DEF w, h
  <2>2. Halved(w) \in Nat /\ Halved(h) \in Nat
    BY <2>1 DEF Halved
  <2>3. /\ Barrier(i - 1, "transfer_dst", "transfer_src") \in Command
        /\ Barrier(i - 1, "transfer_src", "shader_read") \in Command
    BY <2>1, NamesFacts, BarrierIsCommand, Zenon
  <2>4. Blit(i - 1, <<w, h>>, <<Halved(w), Halved(h)>>) \in Command
    <3>1. <<w, h>> \in Int \X Int /\ <<Halved(w), Halved(h)>> \in Int \X Int
      BY <2>1, <2>2
    <3> QED BY <2>1, <3>1 DEF Blit, Command
  <2> QED BY <2>3, <2>4 DEF MipCommands, w, h
<1>7. /\ T \o <<copy>> \in Seq(Command) /\ Len(T \o <<copy>>) = n + 1
      /\ \A k \in 1 .. n : (T \o <<copy>>)[k] = T[k]
      /\ (T \o <<copy>>)[n + 1] = copy
  <2>1. <<copy>> \in Seq(Command) /\ Len(<<copy>>) = 1 /\ <<copy>>[1] = copy
    BY <1>2
  <2> HIDE DEF T, copy
  <2> QED BY <1>1, <2>1, ConcatFacts
<1>8. n > 1 => /\ G \in Seq(Command) /\ Len(G) = 3 * (n - 1) + 1
               /\ \A i \in 1 .. n - 1, j \in 1 .. 3 :
                    G[3 * (i - 1) + j] = MipCommands(i, width, height)[j]
               /\ G[3 * (n - 1) + 1] = last
  <2> SUFFICES ASSUME n > 1
               PROVE  /\ G \in Seq(Command) /\ Len(G) = 3 * (n - 1) + 1
                      /\ \A i \in 1 .. n - 1, j \in 1 .. 3 :
                           G[3 * (i - 1) + j] = MipCommands(i, width, height)[j]
                      /\ G[3 * (n - 1) + 1] = last
    OBVIOUS
  <2>1. /\ n - 1 \in Nat \ {0} /\ seqs \in [1 .. n - 1 -> Seq(Command)]
        /\ \A i \in 1 .. n - 1 : Len(seqs[i]) = 3 /\ seqs[i] = MipCommands(i, width, height)
    BY <1>6
  <2>2. <<last>> \in Seq(Command) /\ Len(<<last>>) = 1 /\ <<last>>[1] = last
    BY <1>2
  <2> HIDE DEF seqs, last, G
  <2>3. /\ F \in Seq(Command) /\ Len(F) = 3 * (n - 1)
        /\ \A i \in 1 .. n - 1, j \in 1 .. 3 : F[3 * (i - 1) + j] = seqs[i][j]
    <3> DEFINE m == n - 1
    <3>1. /\ m \in Nat \ {0} /\ seqs \in [1 .. m -> Seq(Command)]
          /\ \A i \in 1 .. m : Len(seqs[i]) = 3
      BY <2>1
    <3> HIDE DEF m
    <3>2. AreTriples(FlattenSeq(seqs), seqs, m, Command)
      BY <3>1, TriplesInARow, Zenon
    <3> QED BY <3>2 DEF AreTriples, m
  <2> HIDE DEF F
  <2>4. /\ G \in Seq(Command) /\ Len(G) = Len(F) + 1
        /\ \A k \in 1 .. Len(F) : G[k] = F[k]
        /\ G[Len(F) + 1] = last
    <3> DEFINE t == <<last>>
    <3>1. /\ t \in Seq(Command) /\ Len(t) = 1 /\ t[1] = last /\ 1 \in 1 .. 1
      BY <2>2
    <3>2. G = F \o t
      BY <1>4
    <3> HIDE DEF t
    <3>3. Joins(F \o t, F, t, Command)
      BY <2>3, <3>1, ConcatJoins, Zenon
    <3> QED BY <3>1, <3>2, <3>3 DEF Joins
  <2>5. ASSUME NEW i \in 1 .. n - 1, NEW j \in 1 .. 3
        PROVE  G[3 * (i - 1) + j] = MipCommands(i, width, height)[j]
    <3>1. 3 * (i - 1) + j \in 1 .. Len(F)
      BY <2>3
    <3> QED BY <2>1, <2>3, <2>4, <3>1
  <2> QED BY <2>3, <2>4, <2>5
<1> HIDE DEF T, copy, seqs, last, F, G, U
<1>9. G \in Seq(Command) /\ Len(G) = IF n = 1 THEN 0 ELSE 3 * (n - 1) + 1
  <2>1. CASE n = 1
    <3>1. <<>> \in Seq(Command) /\ Len(<<>>) = 0
      OBVIOUS
    <3> QED BY <1>5, <2>1, <3>1
  <2>2. CASE n > 1
    BY <1>8, <2>2
  <2> QED BY <2>1, <2>2
<1>10. /\ U \in Seq(Command) /\ Len(U) = n + 1 + Len(G)
       /\ \A k \in 1 .. n + 1 : U[k] = (T \o <<copy>>)[k]
       /\ \A k \in 1 .. Len(G) : U[n + 1 + k] = G[k]
  <2> DEFINE A == T \o <<copy>>
  <2>1. A \in Seq(Command) /\ Len(A) = n + 1 /\ U = A \o G
    BY <1>3, <1>7
  <2> HIDE DEF A
  <2>2. Joins(A \o G, A, G, Command)
    BY <1>9, <2>1, ConcatJoins, Zenon
  <2> QED BY <2>1, <2>2 DEF Joins, A
<1>11. \A k \in 1 .. n : U[k] = Barrier(k - 1, "undefined", "transfer_dst")
  BY <1>1, <1>7, <1>10
<1>12. U[n + 1] = copy
  BY <1>7, <1>10
<1>13. ASSUME n > 1, NEW i \in 1 .. n - 1, NEW j \in 1 .. 3
       PROVE  U[n + 1 + (3 * (i - 1) + j)] = MipCommands(i, width, height)[j]
  <2>1. 3 * (i - 1) + j \in 1 .. Len(G)
    BY <1>9, <1>13
  <2> QED BY <1>8, <1>10, <1>13, <2>1
<1>14. n > 1 => U[n + 1 + (3 * (n - 1) + 1)] = last
  <2>1. n > 1 => 3 * (n - 1) + 1 \in 1 .. Len(G)
    BY <1>9
  <2> QED BY <1>8, <1>10, <2>1
<1>15. Len(U) = IF n = 1 THEN n + 1 ELSE n + 1 + (3 * (n - 1) + 1)
  BY <1>9, <1>10
<1>16. n > 1 => \A i \in 1 .. n - 1, j \in 1 .. 3 :
                  U[n + 1 + (3 * (i - 1) + j)] = MipCommands(i, width, height)[j]
  BY <1>13
<1> QED
  <2>1. U \in Seq(Command)
    BY <1>10
  <2> QED BY <2>1, <1>11, <1>12, <1>14, <1>15, <1>16, Zenon DEF copy, last, U, IsUpload

-----------------------------------------------------------------------------
(***************************************************************************)
(* What the commands do to the layouts.                                    *)
(***************************************************************************)
LEMMA LayoutsFacts ==
  ASSUME NEW n \in Nat \ {0}, NEW v \in Layouts(n)
  PROVE  v # invalid /\ Len(v) = n /\ DOMAIN v = 1 .. n
<1>1. v \in Seq(Names) /\ Len(v) = n
  BY SequenceOf DEF Layouts
<1>2. DOMAIN v = 1 .. n
  BY DEF Layouts
<1>3. v # invalid
  BY <1>1 DEF invalid
<1> QED BY <1>1, <1>2, <1>3

LEMMA BarrierExecuted ==
  ASSUME NEW n \in Nat \ {0}, NEW v \in Layouts(n), NEW k \in 1 .. n, NEW old, NEW new,
         v[k] = old \/ old = "undefined"
  PROVE  Execute(v, Barrier(k - 1, old, new)) = [v EXCEPT ![k] = new]
<1> DEFINE c == Barrier(k - 1, old, new)
<1>1. c.cmd = "barrier" /\ c.level = k - 1 /\ c.old = old /\ c.new = new
  BY DEF Barrier
<1> HIDE DEF c
<1>2. c.level + 1 = k /\ c.level < Len(v) /\ v # invalid
  BY <1>1, LayoutsFacts
<1> QED BY <1>1, <1>2 DEF Execute, c

LEMMA CopyExecuted ==
  ASSUME NEW n \in Nat \ {0}, NEW v \in Layouts(n), NEW c, c.cmd = "copy", c.level = 0,
         v[1] = c.layout
  PROVE  Execute(v, c) = v
<1>1. c.level + 1 = 1 /\ c.level < Len(v) /\ v # invalid
  BY LayoutsFacts
<1> QED BY <1>1 DEF Execute

LEMMA BlitExecuted ==
  ASSUME NEW n \in Nat \ {0}, NEW v \in Layouts(n), NEW k \in 1 .. n - 1, NEW source, NEW target,
         v[k] = "transfer_src", v[k + 1] = "transfer_dst"
  PROVE  Execute(v, Blit(k - 1, source, target)) = v
<1> DEFINE c == Blit(k - 1, source, target)
<1>1. c.cmd = "blit" /\ c.level = k - 1
  BY DEF Blit
<1> HIDE DEF c
<1>2. /\ c.level + 1 = k /\ c.level < Len(v) /\ v # invalid
      /\ c.level + 1 < Len(v) /\ (c.level + 1) + 1 = k + 1
  BY <1>1, LayoutsFacts
<1> QED BY <1>1, <1>2 DEF Execute, c

\* The first m levels are in one layout, the others in another.
Split(n, m, a, b) == [l \in 1 .. n |-> IF l <= m THEN a ELSE b]

LEMMA SplitFacts ==
  ASSUME NEW n \in Nat, NEW a \in Names, NEW b \in Names
  PROVE  /\ \A m \in Nat : Split(n, m, a, b) \in Layouts(n)
         /\ Split(n, 0, a, b) = Uniform(b, n)
         /\ Split(n, n, a, b) = Uniform(a, n)
         /\ \A m \in Nat : [Split(n, m, a, b) EXCEPT ![m + 1] = a] = Split(n, m + 1, a, b)
<1>1. \A m \in Nat : Split(n, m, a, b) \in Layouts(n)
  BY DEF Split, Layouts
<1>2. Split(n, 0, a, b) = Uniform(b, n) /\ Split(n, n, a, b) = Uniform(a, n)
  BY DEF Split, Uniform
<1>3. ASSUME NEW m \in Nat
      PROVE  [Split(n, m, a, b) EXCEPT ![m + 1] = a] = Split(n, m + 1, a, b)
  <2> DEFINE s == [Split(n, m, a, b) EXCEPT ![m + 1] = a]
  <2>1. s = [l \in 1 .. n |-> IF l = m + 1 THEN a ELSE IF l <= m THEN a ELSE b]
    BY DEF Split
  <2>2. \A l \in 1 .. n : (l = m + 1 \/ l <= m) <=> l <= m + 1
    OBVIOUS
  <2> HIDE DEF s
  <2>3. s = [l \in 1 .. n |-> IF l <= m + 1 THEN a ELSE b]
    BY <2>1, <2>2
  <2> QED BY <2>3 DEF s, Split
<1> QED BY <1>1, <1>2, <1>3

\* The commands from o + 1 on are a transition.
TransitionAt(cmds, o, n, old, new) ==
  /\ o + n <= Len(cmds)
  /\ \A k \in 1 .. n : cmds[o + k] = Barrier(k - 1, old, new)

LEMMA TransitionExecuted ==
  ASSUME NEW n \in Nat \ {0}, NEW g, NEW layouts, NEW C, NEW cmds \in Seq(C), NEW o \in Nat,
         NEW old \in Names, NEW new \in Names,
         Trace(g, layouts, cmds), TransitionAt(cmds, o, n, old, new),
         g[o] = Uniform(old, n)
  PROVE  g[o + n] = Uniform(new, n)
<1> DEFINE T == {k \in Nat : k <= n => g[o + k] = Split(n, k, new, old)}
<1>1. 0 \in T
  BY SplitFacts
<1>2. ASSUME NEW k \in Nat, k \in T PROVE k + 1 \in T
  <2> SUFFICES ASSUME k + 1 <= n PROVE g[o + (k + 1)] = Split(n, k + 1, new, old)
    OBVIOUS
  <2> DEFINE v == Split(n, k, new, old)
  <2>1. g[o + k] = v
    BY <1>2
  <2>2. v \in Layouts(n) /\ [v EXCEPT ![k + 1] = new] = Split(n, k + 1, new, old)
    BY SplitFacts
  <2>3. v[k + 1] = old
    BY DEF Split
  <2> HIDE DEF v
  <2>4. k + 1 \in 1 .. n /\ o + (k + 1) \in 1 .. Len(cmds) /\ (o + (k + 1)) - 1 = o + k
    BY DEF TransitionAt
  <2>5. g[o + (k + 1)] = Execute(v, cmds[o + (k + 1)])
    BY <2>1, <2>4 DEF Trace
  <2>6. cmds[o + (k + 1)] = Barrier((k + 1) - 1, old, new)
    BY <2>4 DEF TransitionAt
  <2>7. Execute(v, Barrier((k + 1) - 1, old, new)) = [v EXCEPT ![k + 1] = new]
    BY <2>2, <2>3, <2>4, BarrierExecuted
  <2> QED BY <2>2, <2>5, <2>6, <2>7
<1>3. n \in T
  <2> HIDE DEF T
  <2>1. Nat \subseteq T
    BY <1>1, <1>2, AllNaturals
  <2> QED BY <2>1
<1> QED BY <1>3, SplitFacts

\* From one level to the next, all of the levels before can be sampled.
LEMMA LevelMade ==
  ASSUME NEW width \in Nat \ {0}, NEW height \in Nat \ {0}, NEW n \in Nat \ {0},
         NEW U, IsUpload(U, width, height, n), NEW g, NEW layouts, Trace(g, layouts, U),
         NEW i \in 1 .. n - 1, n > 1,
         g[n + 1 + 3 * (i - 1)] = Split(n, i - 1, "shader_read", "transfer_dst")
  PROVE  g[n + 1 + 3 * i] = Split(n, i, "shader_read", "transfer_dst")
<1> DEFINE o == n + 1 + 3 * (i - 1)
           w == SideAt(width, i - 1)
           h == SideAt(height, i - 1)
           v == Split(n, i - 1, "shader_read", "transfer_dst")
           u == [v EXCEPT ![i] = "transfer_src"]
<1>1. /\ o \in Nat /\ n + 1 + 3 * i = o + 3 /\ o + 3 <= Len(U)
      /\ \A j \in 1 .. 3 : o + j \in 1 .. Len(U)
  BY DEF IsUpload
<1>2. \A j \in 1 .. 3 : U[o + j] = MipCommands(i, width, height)[j]
  <2>1. \A j \in 1 .. 3 : n + 1 + (3 * (i - 1) + j) = o + j
    OBVIOUS
  <2>2. \A j \in 1 .. 3 : U[n + 1 + (3 * (i - 1) + j)] = MipCommands(i, width, height)[j]
    BY DEF IsUpload
  <2> HIDE DEF o
  <2> QED BY <2>1, <2>2
<1>3. g[o] = v
  OBVIOUS
<1>4. v \in Layouts(n) /\ v[i] = "transfer_dst" /\ v[i + 1] = "transfer_dst"
  <2>1. i - 1 \in Nat
    OBVIOUS
  <2>2. v \in Layouts(n)
    BY <2>1, SplitFacts, NamesFacts
  <2>3. i \in 1 .. n /\ i + 1 \in 1 .. n /\ ~ (i <= i - 1) /\ ~ (i + 1 <= i - 1)
    OBVIOUS
  <2> QED BY <2>2, <2>3 DEF Split
<1>5. Split(n, i, "shader_read", "transfer_dst") = [v EXCEPT ![i] = "shader_read"]
  <2>1. i - 1 \in Nat /\ (i - 1) + 1 = i
    OBVIOUS
  <2>2. \A m \in Nat : [Split(n, m, "shader_read", "transfer_dst") EXCEPT ![m + 1] = "shader_read"]
                        = Split(n, m + 1, "shader_read", "transfer_dst")
    BY SplitFacts, NamesFacts
  <2>3. [Split(n, i - 1, "shader_read", "transfer_dst") EXCEPT ![(i - 1) + 1] = "shader_read"]
          = Split(n, (i - 1) + 1, "shader_read", "transfer_dst")
    BY <2>1, <2>2, Zenon
  <2> QED BY <2>1, <2>3
<1> HIDE DEF o, v, w, h
<1>6. /\ U[o + 1] = Barrier(i - 1, "transfer_dst", "transfer_src")
      /\ U[o + 2] = Blit(i - 1, <<w, h>>, <<Halved(w), Halved(h)>>)
      /\ U[o + 3] = Barrier(i - 1, "transfer_src", "shader_read")
  BY <1>2 DEF MipCommands, w, h
<1>7. /\ g[o + 1] = Execute(g[o], U[o + 1])
      /\ g[o + 2] = Execute(g[o + 1], U[o + 2])
      /\ g[o + 3] = Execute(g[o + 2], U[o + 3])
  <2>1. (o + 1) - 1 = o /\ (o + 2) - 1 = o + 1 /\ (o + 3) - 1 = o + 2
    BY <1>1
  <2> QED BY <1>1, <2>1 DEF Trace
<1>8. g[o + 1] = u
  <2>1. i \in 1 .. n
    OBVIOUS
  <2>2. Execute(v, Barrier(i - 1, "transfer_dst", "transfer_src")) = u
    BY <1>4, <2>1, BarrierExecuted
  <2> QED BY <1>3, <1>6, <1>7, <2>2
<1>9. u \in Layouts(n) /\ u[i] = "transfer_src" /\ u[i + 1] = "transfer_dst"
  <2>1. i \in 1 .. n /\ i + 1 \in 1 .. n /\ i + 1 # i
    OBVIOUS
  <2> QED BY <1>4, <2>1, NamesFacts DEF Layouts
<1> HIDE DEF u
<1>10. g[o + 2] = u
  <2>1. Execute(u, Blit(i - 1, <<w, h>>, <<Halved(w), Halved(h)>>)) = u
    BY <1>9, BlitExecuted
  <2> QED BY <1>6, <1>7, <1>8, <2>1
<1>11. g[o + 3] = [u EXCEPT ![i] = "shader_read"]
  <2>1. i \in 1 .. n
    OBVIOUS
  <2>2. Execute(u, Barrier(i - 1, "transfer_src", "shader_read")) = [u EXCEPT ![i] = "shader_read"]
    BY <1>9, <2>1, BarrierExecuted
  <2> QED BY <1>6, <1>7, <1>10, <2>2
<1>12. [u EXCEPT ![i] = "shader_read"] = [v EXCEPT ![i] = "shader_read"]
  BY <1>4 DEF u, Layouts
<1> QED BY <1>1, <1>5, <1>11, <1>12

LEMMA UniformFacts ==
  ASSUME NEW n \in Nat \ {0}, NEW a \in Names
  PROVE  Uniform(a, n) \in Layouts(n) /\ \A i \in 1 .. n : Uniform(a, n)[i] = a
  BY DEF Uniform, Layouts

\* All levels can be sampled at the end, or the only one is left as it was uploaded.
LEMMA UploadExecuted ==
  ASSUME NEW width \in Nat \ {0}, NEW height \in Nat \ {0}, NEW n \in Nat \ {0}
  PROVE  Executed(Uniform("undefined", n), Upload(width, height, n))
           = Uniform(IF n > 1 THEN "shader_read" ELSE "transfer_dst", n)
<1> DEFINE U == Upload(width, height, n)
           start == Uniform("undefined", n)
           dst == Uniform("transfer_dst", n)
<1>1. IsUpload(U, width, height, n)
  BY UploadCommands
<1>2. start \in Layouts(n) /\ dst \in Layouts(n) /\ dst[1] = "transfer_dst" /\ dst[n] = "transfer_dst"
  <2>1. 1 \in 1 .. n /\ n \in 1 .. n
    OBVIOUS
  <2> QED BY <2>1, UniformFacts, NamesFacts
<1> HIDE DEF U
<1>3. U \in Seq(Command)
  BY <1>1 DEF IsUpload
<1>4. PICK g : Trace(g, start, U)
  BY <1>2, <1>3, CommandsWrite, TraceExists
<1>5. g[n] = dst
  <2>1. TransitionAt(U, 0, n, "undefined", "transfer_dst")
    BY <1>1 DEF IsUpload, TransitionAt
  <2>2. g[0] = Uniform("undefined", n)
    BY <1>4 DEF Trace
  <2>3. g[0 + n] = Uniform("transfer_dst", n)
    BY <1>3, <1>4, <2>1, <2>2, NamesFacts, TransitionExecuted
  <2>4. 0 + n = n
    OBVIOUS
  <2> QED BY <2>3, <2>4
<1> HIDE DEF start
<1>6. g[n + 1] = dst
  <2> DEFINE c == vulkan_image_copy_from_buffer(width, height)
  <2>1. n + 1 \in 1 .. Len(U) /\ (n + 1) - 1 = n /\ U[n + 1] = c
    BY <1>1 DEF IsUpload
  <2>2. g[n + 1] = Execute(dst, c)
    <3> HIDE DEF c, dst
    <3> QED BY <1>4, <1>5, <2>1 DEF Trace
  <2>3. c.cmd = "copy" /\ c.level = 0 /\ c.layout = "transfer_dst"
    BY DEF vulkan_image_copy_from_buffer, Copy
  <2> HIDE DEF c, dst
  <2>4. Execute(dst, c) = dst
    BY <1>2, <2>3, CopyExecuted
  <2> QED BY <2>2, <2>4
<1>7. CASE n = 1
  <2>1. Len(U) = n + 1
    BY <1>1, <1>7 DEF IsUpload
  <2>2. Executed(start, U) = dst
    BY <1>4, <1>6, <2>1 DEF Trace
  <2> QED BY <1>7, <2>2 DEF start, dst, U
<1>8. CASE n > 1
  <2> DEFINE T == {i \in Nat : i <= n - 1 =>
                    g[n + 1 + 3 * i] = Split(n, i, "shader_read", "transfer_dst")}
  <2>1. 0 \in T
    <3>1. n + 1 + 3 * 0 = n + 1
      OBVIOUS
    <3>2. Split(n, 0, "shader_read", "transfer_dst") = dst
      BY SplitFacts, NamesFacts
    <3> HIDE DEF dst
    <3> QED BY <1>6, <3>1, <3>2
  <2>2. ASSUME NEW i \in Nat, i \in T PROVE i + 1 \in T
    <3> SUFFICES ASSUME i + 1 <= n - 1
                 PROVE  g[n + 1 + 3 * (i + 1)] = Split(n, i + 1, "shader_read", "transfer_dst")
      OBVIOUS
    <3> DEFINE k == i + 1
    <3>1. k \in 1 .. n - 1 /\ k - 1 = i
      OBVIOUS
    <3>2. g[n + 1 + 3 * i] = Split(n, i, "shader_read", "transfer_dst")
      BY <2>2
    <3> HIDE DEF k
    <3>3. g[n + 1 + 3 * (k - 1)] = Split(n, k - 1, "shader_read", "transfer_dst")
      BY <3>1, <3>2
    <3>4. g[n + 1 + 3 * k] = Split(n, k, "shader_read", "transfer_dst")
      BY <1>1, <1>4, <1>8, <3>1, <3>3, LevelMade
    <3> QED BY <3>4 DEF k
  <2>3. n - 1 \in T
    <3>1. n - 1 \in Nat
      OBVIOUS
    <3> HIDE DEF T
    <3> QED BY <2>1, <2>2, <3>1, AllNaturals
  <2> DEFINE v == Split(n, n - 1, "shader_read", "transfer_dst")
             o == n + 1 + 3 * (n - 1)
             c == Barrier(n - 1, "transfer_dst", "shader_read")
  <2>4. g[o] = v
    BY <2>3
  <2>5. v \in Layouts(n) /\ v[n] = "transfer_dst"
    <3>1. n - 1 \in Nat /\ n \in 1 .. n /\ ~ (n <= n - 1)
      OBVIOUS
    <3>2. v \in Layouts(n)
      BY <3>1, SplitFacts, NamesFacts
    <3> QED BY <3>1, <3>2 DEF Split
  <2>6. [v EXCEPT ![n] = "shader_read"] = Uniform("shader_read", n)
    <3>1. n - 1 \in Nat /\ (n - 1) + 1 = n
      OBVIOUS
    <3>2. \A m \in Nat : [Split(n, m, "shader_read", "transfer_dst") EXCEPT ![m + 1] = "shader_read"]
                          = Split(n, m + 1, "shader_read", "transfer_dst")
      BY SplitFacts, NamesFacts
    <3>3. [Split(n, n - 1, "shader_read", "transfer_dst") EXCEPT ![(n - 1) + 1] = "shader_read"]
            = Split(n, (n - 1) + 1, "shader_read", "transfer_dst")
      BY <3>1, <3>2, Zenon
    <3>4. Split(n, n, "shader_read", "transfer_dst") = Uniform("shader_read", n)
      BY SplitFacts, NamesFacts
    <3> QED BY <3>1, <3>3, <3>4
  <2>7. /\ Len(U) = o + 1 /\ o + 1 \in 1 .. Len(U) /\ (o + 1) - 1 = o
        /\ n + 1 + (3 * (n - 1) + 1) = o + 1
    BY <1>1, <1>8 DEF IsUpload
  <2>8. U[n + 1 + (3 * (n - 1) + 1)] = c
    BY <1>1, <1>8 DEF IsUpload
  <2> HIDE DEF v, o, c
  <2>9. g[o + 1] = Execute(v, c)
    BY <1>4, <2>4, <2>7, <2>8 DEF Trace
  <2>10. Execute(v, c) = [v EXCEPT ![n] = "shader_read"]
    <3>1. n \in 1 .. n
      OBVIOUS
    <3> QED BY <2>5, <3>1, BarrierExecuted DEF c
  <2>11. Executed(start, U) = Uniform("shader_read", n)
    BY <1>4, <2>6, <2>7, <2>9, <2>10 DEF Trace
  <2> QED BY <1>8, <2>11 DEF start, U
<1> QED BY <1>7, <1>8

\* Each level is made in its own size from the one before in its own.
LEMMA BlitsFit ==
  ASSUME NEW width \in Nat \ {0}, NEW height \in Nat \ {0}, NEW n \in Nat \ {0},
         NEW U, IsUpload(U, width, height, n), NEW k \in DOMAIN U, U[k].cmd = "blit"
  PROVE  LET i == U[k].level IN
         /\ U[k].source = <<LevelSide(width, i), LevelSide(height, i)>>
         /\ U[k].target = <<LevelSide(width, i + 1), LevelSide(height, i + 1)>>
<1>1. U \in Seq(Command) /\ Len(U) = IF n = 1 THEN n + 1 ELSE n + 1 + (3 * (n - 1) + 1)
  BY DEF IsUpload
<1>2. k \in 1 .. Len(U)
  BY <1>1
<1>3. k \notin 1 .. n
  <2>1. k \in 1 .. n => U[k] = Barrier(k - 1, "undefined", "transfer_dst")
    BY DEF IsUpload
  <2>2. Barrier(k - 1, "undefined", "transfer_dst").cmd = "barrier"
    BY DEF Barrier
  <2>3. "barrier" # "blit"
    OBVIOUS
  <2> QED BY <2>1, <2>2, <2>3, Zenon
<1>4. k # n + 1
  <2>1. U[n + 1].cmd = "copy"
    BY DEF IsUpload, vulkan_image_copy_from_buffer, Copy
  <2> QED BY <2>1
<1>5. n > 1 /\ k # n + 1 + (3 * (n - 1) + 1)
  <2>1. n > 1
    BY <1>1, <1>2, <1>3, <1>4
  <2>2. U[n + 1 + (3 * (n - 1) + 1)].cmd = "barrier"
    BY <2>1 DEF IsUpload, Barrier
  <2> QED BY <2>1, <2>2
<1>6. PICK l \in 1 .. n - 1, j \in 1 .. 3 : k = n + 1 + (3 * (l - 1) + j)
  <2> DEFINE x == k - (n + 2)
             a == x \div 3
             b == x % 3
  <2>1. x \in Nat /\ x < 3 * (n - 1)
    BY <1>1, <1>2, <1>3, <1>4, <1>5
  <2>2. k = n + 2 + x
    BY <1>2
  <2> HIDE DEF x
  <2>3. a \in Nat /\ b \in 0 .. 2 /\ x = 3 * a + b /\ a < n - 1
    BY <2>1
  <2> HIDE DEF a, b
  <2>4. a + 1 \in 1 .. n - 1 /\ b + 1 \in 1 .. 3 /\ k = n + 1 + (3 * ((a + 1) - 1) + (b + 1))
    BY <2>2, <2>3
  <2> QED BY <2>4
<1> DEFINE w == SideAt(width, l - 1)
           h == SideAt(height, l - 1)
<1>7. U[k] = MipCommands(l, width, height)[j]
  BY <1>5, <1>6 DEF IsUpload
<1>8. U[k] = Blit(l - 1, <<w, h>>, <<Halved(w), Halved(h)>>)
  <2> HIDE DEF w, h
  <2>1. /\ MipCommands(l, width, height)[1].cmd = "barrier"
        /\ MipCommands(l, width, height)[2] = Blit(l - 1, <<w, h>>, <<Halved(w), Halved(h)>>)
        /\ MipCommands(l, width, height)[3].cmd = "barrier"
    BY DEF MipCommands, Barrier, w, h
  <2>2. j # 1 /\ j # 3
    BY <1>7, <2>1
  <2>3. j = 2
    BY <2>2
  <2> QED BY <1>7, <2>1, <2>3
<1>9. /\ U[k].level = l - 1 /\ U[k].source = <<w, h>> /\ U[k].target = <<Halved(w), Halved(h)>>
  <2> HIDE DEF w, h
  <2> QED BY <1>8 DEF Blit
<1>10. /\ w = LevelSide(width, l - 1) /\ h = LevelSide(height, l - 1)
       /\ Halved(w) = LevelSide(width, (l - 1) + 1) /\ Halved(h) = LevelSide(height, (l - 1) + 1)
  <2>1. l - 1 \in Nat
    OBVIOUS
  <2>2. w = LevelSide(width, l - 1) /\ h = LevelSide(height, l - 1)
    BY <2>1, SidesAreHalved
  <2> HIDE DEF w, h
  <2> QED BY <2>1, <2>2, LevelSides
<1> HIDE DEF w, h
<1> QED BY <1>9, <1>10

LEMMA DownloadExecuted ==
  ASSUME NEW width \in Nat \ {0}, NEW height \in Nat \ {0}, NEW n \in Nat \ {0}
  PROVE  Executed(Uniform("undefined", n), Download(width, height, n)) = Uniform("shader_read", n)
<1> DEFINE D == Download(width, height, n)
           A == vulkan_image_transition_layout(n, "undefined", "transfer_src")
           all == vulkan_image_copy_to_buffer(width, height)
           corner == vulkan_image_copy_region_to_buffer(width - 1, height - 1, 1, 1)
           B == <<all, corner>>
           Z == vulkan_image_transition_layout(n, "transfer_src", "shader_read")
           start == Uniform("undefined", n)
           src == Uniform("transfer_src", n)
<1>1. /\ <<"undefined", "transfer_src">> \in Transitions
      /\ <<"transfer_src", "shader_read">> \in Transitions
  BY DEF Transitions
<1>2. IsTransition(A, n, "undefined", "transfer_src") /\ IsTransition(Z, n, "transfer_src", "shader_read")
  BY <1>1, NamesFacts, TransitionFacts, Zenon
<1>3. /\ all \in Command /\ all.cmd = "copy" /\ all.level = 0 /\ all.layout = "transfer_src"
      /\ corner \in Command /\ corner.cmd = "copy" /\ corner.level = 0
      /\ corner.layout = "transfer_src"
  <2>1. /\ width \in Int /\ height \in Int /\ width - 1 \in Int /\ height - 1 \in Int
        /\ 0 \in Int /\ 1 \in Int
    OBVIOUS
  <2>2. all \in Command /\ corner \in Command
    BY <2>1, NamesFacts, CopyIsCommand, Zenon
       DEF vulkan_image_copy_to_buffer, vulkan_image_copy_region_to_buffer
  <2>3. /\ all.cmd = "copy" /\ all.level = 0 /\ all.layout = "transfer_src"
        /\ corner.cmd = "copy" /\ corner.level = 0 /\ corner.layout = "transfer_src"
    BY DEF vulkan_image_copy_to_buffer, vulkan_image_copy_region_to_buffer, Copy
  <2> QED BY <2>2, <2>3
<1>4. D = (A \o B) \o Z
  BY DEF Download
<1>5. start \in Layouts(n) /\ src \in Layouts(n) /\ src[1] = "transfer_src"
  <2>1. 1 \in 1 .. n
    OBVIOUS
  <2> QED BY <2>1, UniformFacts, NamesFacts
<1> HIDE DEF all, corner
<1>6. B \in Seq(Command) /\ Len(B) = 2 /\ B[1] = all /\ B[2] = corner
  BY <1>3
<1> HIDE DEF A, B, Z, D
<1>7. /\ A \in Seq(Command) /\ Len(A) = n /\ Z \in Seq(Command) /\ Len(Z) = n
      /\ \A k \in 1 .. n : A[k] = Barrier(k - 1, "undefined", "transfer_src")
      /\ \A k \in 1 .. n : Z[k] = Barrier(k - 1, "transfer_src", "shader_read")
  BY <1>2 DEF IsTransition
<1>8. Joins(A \o B, A, B, Command)
  BY <1>6, <1>7, ConcatJoins, Zenon
<1>9. Joins(D, A \o B, Z, Command)
  <2> DEFINE AB == A \o B
  <2>1. AB \in Seq(Command)
    BY <1>8 DEF Joins
  <2> HIDE DEF AB
  <2>2. Joins(AB \o Z, AB, Z, Command)
    BY <1>7, <2>1, ConcatJoins, Zenon
  <2> QED BY <1>4, <2>2 DEF AB
<1>10. /\ D \in Seq(Command) /\ Len(D) = n + 2 + n
       /\ \A k \in 1 .. n : D[k] = Barrier(k - 1, "undefined", "transfer_src")
       /\ D[n + 1] = all /\ D[n + 2] = corner
       /\ \A k \in 1 .. n : D[n + 2 + k] = Barrier(k - 1, "transfer_src", "shader_read")
  <2> DEFINE AB == A \o B
  <2>1. /\ Len(AB) = n + 2
        /\ \A k \in 1 .. n : AB[k] = A[k]
        /\ AB[n + 1] = all /\ AB[n + 2] = corner
    BY <1>6, <1>7, <1>8 DEF Joins
  <2> HIDE DEF AB
  <2>2. /\ D \in Seq(Command) /\ Len(D) = n + 2 + n
        /\ \A k \in 1 .. n + 2 : D[k] = AB[k]
        /\ \A k \in 1 .. n : D[n + 2 + k] = Z[k]
    BY <1>7, <1>9, <2>1 DEF Joins, AB
  <2> QED BY <1>7, <2>1, <2>2
<1>11. PICK g : Trace(g, start, D)
  BY <1>5, <1>10, CommandsWrite, TraceExists
<1>12. g[n] = src
  <2>1. TransitionAt(D, 0, n, "undefined", "transfer_src")
    BY <1>10 DEF TransitionAt
  <2>2. g[0] = Uniform("undefined", n)
    BY <1>11 DEF Trace
  <2>3. g[0 + n] = Uniform("transfer_src", n)
    BY <1>10, <1>11, <2>1, <2>2, NamesFacts, TransitionExecuted
  <2>4. 0 + n = n
    OBVIOUS
  <2> QED BY <2>3, <2>4
<1> HIDE DEF start
<1>13. g[n + 1] = src /\ g[n + 2] = src
  <2>1. /\ n + 1 \in 1 .. Len(D) /\ (n + 1) - 1 = n
        /\ n + 2 \in 1 .. Len(D) /\ (n + 2) - 1 = n + 1
    BY <1>10
  <2> HIDE DEF src
  <2>2. g[n + 1] = Execute(g[n], all) /\ g[n + 2] = Execute(g[n + 1], corner)
    BY <1>10, <1>11, <2>1 DEF Trace
  <2>3. Execute(src, all) = src /\ Execute(src, corner) = src
    BY <1>3, <1>5, CopyExecuted
  <2> QED BY <1>12, <2>2, <2>3
<1>14. g[n + 2 + n] = Uniform("shader_read", n)
  <2> DEFINE o == n + 2
  <2>1. o \in Nat /\ TransitionAt(D, o, n, "transfer_src", "shader_read")
    BY <1>10 DEF TransitionAt
  <2>2. g[o] = Uniform("transfer_src", n)
    BY <1>13
  <2> HIDE DEF o
  <2>3. g[o + n] = Uniform("shader_read", n)
    BY <1>10, <1>11, <2>1, <2>2, NamesFacts, TransitionExecuted
  <2> QED BY <2>3 DEF o
<1> QED BY <1>10, <1>11, <1>14 DEF Trace, start, D

(***************************************************************************)
(* However many levels and whatever sides a texture has, each command for  *)
(* it meets the layout it needs, each level is made in its own size, and   *)
(* all can be sampled at the end if there is more than one.                *)
(***************************************************************************)
THEOREM MipChainIsReadable == Spec => []MipChainReadable
<1>1. Answered => MipChainReadable
  <2> SUFFICES ASSUME Answered PROVE MipChainReadable
    OBVIOUS
  <2>1. ASSUME Returned("mipmaps") PROVE ChainIsReadable(call.w, call.h, call.n, result)
    <3>1. call \in Calls /\ call.f = "mipmaps" /\ result = Upload(call.w, call.h, call.n)
      BY <2>1 DEF Answered, Returned
    <3>2. call.w \in Nat \ {0} /\ call.h \in Nat \ {0} /\ call.n \in Nat \ {0}
      BY <3>1, ImageArgument, SidesAssumption
    <3>3. IsUpload(result, call.w, call.h, call.n)
      BY <3>1, <3>2, UploadCommands
    <3>4. Executed(Uniform("undefined", call.n), result)
            = Uniform(IF call.n > 1 THEN "shader_read" ELSE "transfer_dst", call.n)
      BY <3>1, <3>2, UploadExecuted
    <3>5. ASSUME NEW k \in DOMAIN result, result[k].cmd = "blit"
          PROVE  LET i == result[k].level IN
                 /\ result[k].source = <<LevelSide(call.w, i), LevelSide(call.h, i)>>
                 /\ result[k].target = <<LevelSide(call.w, i + 1), LevelSide(call.h, i + 1)>>
      BY <3>2, <3>3, <3>5, BlitsFit
    <3> QED BY <3>4, <3>5, Zenon DEF ChainIsReadable
  <2>2. ASSUME Returned("read_back")
        PROVE  Executed(Uniform("undefined", call.n), result) = Uniform("shader_read", call.n)
    <3>1. call \in Calls /\ call.f = "read_back" /\ result = Download(call.w, call.h, call.n)
      BY <2>2 DEF Answered, Returned
    <3>2. call.w \in Nat \ {0} /\ call.h \in Nat \ {0} /\ call.n \in Nat \ {0}
      BY <3>1, ImageArgument, SidesAssumption
    <3> QED BY <3>1, <3>2, DownloadExecuted
  <2> QED BY <2>1, <2>2 DEF MipChainReadable
<1> QED BY <1>1, InitAnswered, NextAnswered, PTL DEF Spec

-----------------------------------------------------------------------------
(***************************************************************************)
(* The functions of string.c.                                              *)
(***************************************************************************)
TextAnswered ==
  /\ call \in Calls
  /\ Returned("cstr_trim") => result = cstr_trim(call.s)
  /\ Returned("cstr_index_of") =>
       result = [first |-> cstr_index_of(call.s, 46), last |-> cstr_last_index_of(call.s, 46)]
  /\ Returned("path") =>
       result = [directory |-> cstr_directory_from_path(call.s),
                 dirname   |-> cstr_dirname_from_path(call.s),
                 filename  |-> cstr_filename_from_path(call.s),
                 no_ext    |-> cstr_filename_no_ext_from_path(call.s),
                 ext       |-> cstr_ext_from_path(call.s, TRUE)]
  /\ Returned("cstr_split") =>
       result = cstr_nsplit(call.s, 32, call.n, call.trim, call.empty)
  /\ Returned("cstr_ncmp") =>
       result = [diff |-> cstr_ncmp(call.s, call.t, call.n), same |-> cstr_equal(call.s, call.t)]
  /\ Returned("cstr_starts_with") =>
       result = [exact |-> cstr_starts_with(call.s, call.t),
                 caseless |-> cstr_starts_withi(call.s, call.t)]
  /\ Returned("cstr_index_of_str") => result = cstr_index_of_str(call.s, call.t)
  /\ Returned("cstr_insert_str_at") =>
       /\ call.n <= Len(call.s)
       /\ result = IF Len(call.t) = 1 THEN cstr_insert_char_at(Buffer, call.s, call.n, call.t[1])
                   ELSE cstr_insert_str_at(Buffer, call.s, call.n, call.t)
  /\ Returned("cstr_ncopy") => result = cstr_ncopy(Buffer, call.s, call.n)
  /\ Returned("cstr_case") =>
       result = [lower |-> cstr_to_lower(<<call.c>>)[1], upper |-> cstr_to_upper(<<call.c>>)[1],
                 blank |-> <<codepoint_is_space(char(call.c)), char_is_whitespace(char(call.c)),
                             codepoint_is_whitespace(char(call.c))>>]
  /\ Returned("cstr_to") => result = cstr_to(call.s, call.n, call.bits, call.signed)
  /\ Returned("cstr_utf8") =>
       LET s == Encoded(call.s) IN
         result = [len   |-> cstr_utf8_nlen(s, U64_MAX),
                   first |-> IF s = <<>> THEN pending ELSE bytes_to_codepoint(s, 0)]

LEMMA InitTextAnswered == Init => TextAnswered
  BY DEF Init, TextAnswered, Returned

LEMMA TextStays ==
  ASSUME TextAnswered, UNCHANGED vars
  PROVE  TextAnswered'
<1>1. call' = call /\ result' = result
  BY DEF vars
<1> QED BY <1>1, ZenonT(60) DEF TextAnswered, Returned

LEMMA NextTextAnswered == TextAnswered /\ [Next]_vars => TextAnswered'
<1> SUFFICES ASSUME TextAnswered, [Next]_vars PROVE TextAnswered'
  OBVIOUS
<1> USE DEF Called, Gives, Returned
<1>1. call.f \in {"vulkan_device_create", "vulkan_swapchain_create", "mipmaps", "read_back"}
        /\ UNCHANGED call => TextAnswered'
  BY DEF TextAnswered
<1>2. CASE TrimText
  BY <1>2 DEF TrimText, TextAnswered
<1>3. CASE FindByte
  BY <1>3 DEF FindByte, TextAnswered
<1>4. CASE SplitPath
  BY <1>4 DEF SplitPath, TextAnswered
<1>5. CASE SplitText
  BY <1>5 DEF SplitText, TextAnswered
<1>6. CASE Compare
  BY <1>6 DEF Compare, TextAnswered
<1>7. CASE Starts
  BY <1>7 DEF Starts, TextAnswered
<1>8. CASE FindText
  BY <1>8 DEF FindText, TextAnswered
<1>9. CASE InsertText
  BY <1>9 DEF InsertText, TextAnswered
<1>10. CASE CopyText
  BY <1>10 DEF CopyText, TextAnswered
<1>11. CASE ChangeCase
  BY <1>11 DEF ChangeCase, TextAnswered
<1>12. CASE ParseText
  BY <1>12 DEF ParseText, TextAnswered
<1>13. CASE DecodeText
  BY <1>13 DEF DecodeText, TextAnswered
<1>14. CASE CreateDevice
  BY <1>1, <1>14 DEF CreateDevice
<1>15. CASE CreateSwapchain
  BY <1>1, <1>15 DEF CreateSwapchain
<1>16. CASE GenerateMipmaps
  BY <1>1, <1>16 DEF GenerateMipmaps
<1>17. CASE ReadBack
  BY <1>1, <1>17 DEF ReadBack
<1>18. CASE UNCHANGED vars
  BY <1>18, TextStays
<1> QED
  BY <1>2, <1>3, <1>4, <1>5, <1>6, <1>7, <1>8, <1>9, <1>10, <1>11, <1>12, <1>13, <1>14,
     <1>15, <1>16, <1>17, <1>18 DEF Next

IsText(s) == s \in Seq(Byte) /\ Len(s) \in Nat /\ Len(s) < 2^14

LEMMA TextsAreTexts == \A s \in Texts \cup ShortTexts : IsText(s)
  BY TextsAssumption DEF IsText

\* What the calls are given.
LEMMA TextArgument ==
  ASSUME call \in Calls, call.f \in {"cstr_trim", "cstr_index_of", "path", "cstr_split"}
  PROVE  IsText(call.s)
<1>1. call.s \in Texts
  BY DEF Calls
<1> QED BY <1>1, TextsAreTexts

LEMMA ShortTextArgument ==
  ASSUME call \in Calls,
         call.f \in {"cstr_ncmp", "cstr_starts_with", "cstr_index_of_str", "cstr_insert_str_at"}
  PROVE  /\ IsText(call.s) /\ IsText(call.t) /\ Len(call.s) + Len(call.t) < Room
         /\ call.n \in {0, 1, 2, U64_MAX}
<1>1. call.s \in ShortTexts /\ call.t \in ShortTexts /\ call.n \in {0, 1, 2, U64_MAX}
  BY DEF Calls
<1>2. Len(call.s) + Len(call.t) < Room
  BY <1>1, TextsAssumption
<1> QED BY <1>1, <1>2, TextsAreTexts

LEMMA CopyArgument ==
  ASSUME call \in Calls, call.f = "cstr_ncopy"
  PROVE  IsText(call.s) /\ call.n \in 0 .. 5
<1>1. call.s \in ShortTexts /\ call.n \in 0 .. 5
  BY DEF Calls
<1> QED BY <1>1, TextsAreTexts

LEMMA NumberArgument ==
  ASSUME call \in Calls, call.f = "cstr_to"
  PROVE  /\ call.s \in Seq(Int \cup {junk}) /\ call.n \in 1 .. 2
         /\ call.bits \in {8, 16} /\ call.signed \in BOOLEAN
<1>1. call.s \in Numbers /\ call.n \in 1 .. 2 /\ call.bits \in {8, 16} /\ call.signed \in BOOLEAN
  BY DEF Calls
<1> QED BY <1>1, NumbersAssumption

-----------------------------------------------------------------------------
(***************************************************************************)
(* Characters and numbers.                                                 *)
(***************************************************************************)
LEMMA CaseIsKept ==
  ASSUME NEW c \in 0 .. 255
  PROVE  LET lower == cstr_to_lower(<<c>>)[1]
             upper == cstr_to_upper(<<c>>)[1]
         IN /\ codepoint_is_space(char(c)) = char_is_whitespace(char(c))
            /\ char_is_whitespace(char(c)) = codepoint_is_whitespace(char(c))
            /\ IF c >= 128 THEN lower = c /\ upper = c
               ELSE codepoint_is_alpha(c) =>
                      /\ codepoint_is_lower(lower) /\ codepoint_is_upper(upper)
                      /\ c \in {lower, upper}
<1> DEFINE k == char(c)
<1>1. /\ k \in -128 .. 127
      /\ c >= 128 => k < 0
      /\ c < 128 => k = c
  BY DEF char
<1>2. /\ cstr_to_lower(<<c>>)[1] = IF codepoint_is_upper(k) THEN c + 32 ELSE c
      /\ cstr_to_upper(<<c>>)[1] = IF codepoint_is_lower(k) THEN c - 32 ELSE c
  BY DEF cstr_to_lower, cstr_to_upper
<1> HIDE DEF k
<1>3. codepoint_is_space(k) = char_is_whitespace(k)
  BY DEF codepoint_is_space, char_is_whitespace
<1>4. char_is_whitespace(k) = codepoint_is_whitespace(k)
  BY <1>1 DEF char_is_whitespace, codepoint_is_whitespace
<1>5. c >= 128 => ~ codepoint_is_upper(k) /\ ~ codepoint_is_lower(k)
  BY <1>1 DEF codepoint_is_upper, codepoint_is_lower
<1>6. ASSUME c < 128, codepoint_is_alpha(c)
      PROVE  LET lower == cstr_to_lower(<<c>>)[1]
                 upper == cstr_to_upper(<<c>>)[1]
             IN /\ codepoint_is_lower(lower) /\ codepoint_is_upper(upper)
                /\ c \in {lower, upper}
  <2>1. k = c
    BY <1>1, <1>6
  <2>2. CASE c \in 97 .. 122
    BY <1>2, <2>1, <2>2 DEF codepoint_is_lower, codepoint_is_upper
  <2>3. CASE c \in 65 .. 90
    BY <1>2, <2>1, <2>3 DEF codepoint_is_lower, codepoint_is_upper
  <2> QED BY <1>6, <2>2, <2>3 DEF codepoint_is_alpha
<1> QED BY <1>2, <1>3, <1>4, <1>5, <1>6 DEF k

LEMMA NumbersFit ==
  ASSUME NEW n \in Int, NEW bits \in {8, 16}, NEW signed \in BOOLEAN,
         IF signed THEN n \in -(2^(bits - 1)) .. 2^(bits - 1) - 1 ELSE n \in 0 .. 2^bits - 1
  PROVE  Narrow(n, bits, signed) = n
<1>1. 2^8 = 256 /\ 2^16 = 65536 /\ 2^(8 - 1) = 128 /\ 2^(16 - 1) = 32768
  OBVIOUS
<1>2. CASE bits = 8
  BY <1>1, <1>2 DEF Narrow
<1>3. CASE bits = 16
  BY <1>1, <1>3 DEF Narrow
<1> QED BY <1>2, <1>3

LEMMA NumbersParsed == TextAnswered => Parses
<1> DEFINE Fits(n) == IF call.signed THEN n \in -(2^(call.bits - 1)) .. 2^(call.bits - 1) - 1
                                    ELSE n \in 0 .. 2^call.bits - 1
<1> SUFFICES ASSUME TextAnswered, Returned("cstr_to")
             PROVE  /\ ~ result.ok => call.s = <<>>
                    /\ \A i \in 1 .. call.n :
                       \/ \E j \in 1 .. i : j > Len(call.s) \/ call.s[j] = junk
                       \/ ~ Fits(call.s[i])
                       \/ result.out[i] = call.s[i]
  BY Zenon DEF Parses
<1>1. /\ call.s \in Seq(Int \cup {junk}) /\ call.n \in 1 .. 2
      /\ call.bits \in {8, 16} /\ call.signed \in BOOLEAN
  BY NumberArgument DEF TextAnswered, Returned
<1>2. result = cstr_to(call.s, call.n, call.bits, call.signed)
  BY DEF TextAnswered
<1> DEFINE text == call.s
           stops == {k \in 1 .. call.n : k > Len(text) \/ text[k] = junk}
           converted == IF stops = {} THEN call.n ELSE Min(stops) - 1
<1>3. /\ result.ok = (text # <<>>)
      /\ \A i \in 1 .. call.n :
           i <= converted => result.out[i] = Narrow(text[i], call.bits, call.signed)
  BY <1>1, <1>2 DEF cstr_to
<1> SUFFICES ASSUME NEW i \in 1 .. call.n
             PROVE  \/ \E j \in 1 .. i : j > Len(text) \/ text[j] = junk
                    \/ ~ Fits(text[i])
                    \/ result.out[i] = text[i]
  BY <1>3, Zenon
<1>6. stops \subseteq 1 .. 2
  BY <1>1
<1>4. CASE \E k \in stops : k <= i
  <2>1. PICK k \in stops : k <= i
    BY <1>4
  <2>2. k \in 1 .. i /\ (k > Len(text) \/ text[k] = junk)
    BY <1>1, <2>1
  <2> HIDE DEF stops
  <2> QED BY <1>3, <2>2
<1>5. CASE ~ \E k \in stops : k <= i
  <2>1. i <= converted
    <3> HIDE DEF stops
    <3>1. CASE stops = {}
      BY <1>1, <3>1
    <3>2. CASE stops # {}
      <4>1. Min(stops) \in stops
        <5>1. stops \subseteq Nat
          BY <1>6
        <5> QED BY <3>2, <5>1, LeastIsThere
      <4> DEFINE m == Min(stops)
      <4>2. m \in 1 .. 2 /\ ~ (m <= i) /\ converted = m - 1
        BY <1>5, <1>6, <3>2, <4>1
      <4> HIDE DEF m, converted
      <4> QED BY <1>1, <4>2
    <3> QED BY <3>1, <3>2
  <2>2. i \notin stops
    BY <1>1, <1>5
  <2>3. text[i] \in Int
    BY <1>1, <2>2
  <2> HIDE DEF stops, converted
  <2> QED BY <1>1, <1>3, <2>1, <2>3, NumbersFit
<1> QED BY <1>4, <1>5

-----------------------------------------------------------------------------
(***************************************************************************)
(* Comparisons.                                                            *)
(***************************************************************************)
LEMMA Widest == U64_MAX \in Nat /\ 2 < U64_MAX /\ 2^14 < U64_MAX
<1>1. 2^16 = 65536 /\ 2^14 = 16384
  BY SMT
<1> QED BY <1>1, SMT DEF U64_MAX

LEMMA ByteFacts == \A b \in Byte : b \in Nat /\ b # 0 /\ b <= 255
  BY DEF Byte

LEMMA TextFacts ==
  ASSUME NEW s, IsText(s)
  PROVE  /\ s \in Seq(Byte) /\ Len(s) \in Nat /\ Len(s) < U64_MAX
         /\ \A i \in 1 .. Len(s) : s[i] \in Byte /\ s[i] \in Nat /\ s[i] # 0 /\ s[i] <= 255
<1> DEFINE l == Len(s)
<1>1. s \in Seq(Byte) /\ l \in Nat /\ l < 2^14
  BY DEF IsText
<1>2. \A i \in 1 .. l : s[i] \in Byte
  BY <1>1
<1>3. l < U64_MAX
  <2> DEFINE p == 2^14
  <2>1. p \in Nat
    BY SMT
  <2>2. l < p /\ p < U64_MAX /\ U64_MAX \in Nat
    BY <1>1, Widest
  <2> HIDE DEF p, l
  <2> QED BY <1>1, <2>1, <2>2
<1> QED BY <1>1, <1>2, <1>3, ByteFacts

LEMMA LesserOf ==
  ASSUME NEW a \in Nat, NEW b \in Nat
  PROVE  Min({a, b}) = IF a <= b THEN a ELSE b
<1>1. Min({a, b}) \in {a, b} /\ \A x \in {a, b} : Min({a, b}) <= x
  BY LeastIsThere
<1> QED BY <1>1

LEMMA LeastOfThree ==
  ASSUME NEW a \in Nat, NEW b \in Nat, NEW c \in Nat
  PROVE  LET m == Min({a, b, c}) IN m \in {a, b, c} /\ m <= a /\ m <= b /\ m <= c
<1>1. Min({a, b, c}) \in {a, b, c} /\ \A x \in {a, b, c} : Min({a, b, c}) <= x
  BY LeastIsThere
<1> QED BY <1>1

IsCell(b) == b \in Nat /\ b <= 255

LEMMA CharIsOneToOne ==
  ASSUME NEW a, IsCell(a), NEW b, IsCell(b)
  PROVE  char(a) - char(b) \in Int /\ (char(a) - char(b) = 0 <=> a = b)
  BY DEF char, IsCell

LEMMA AtFacts ==
  ASSUME NEW s, IsText(s)
  PROVE  \A i \in Nat : /\ IsCell(At(s, i))
                        /\ At(s, i) = nul <=> i >= Len(s)
                        /\ i < Len(s) => At(s, i) = s[i + 1]
<1> DEFINE l == Len(s)
<1>1. s \in Seq(Byte) /\ l \in Nat /\ \A i \in 1 .. l : s[i] \in Nat /\ s[i] # 0 /\ s[i] <= 255
  BY TextFacts
<1> SUFFICES ASSUME NEW i \in Nat
             PROVE  /\ IsCell(At(s, i))
                    /\ At(s, i) = nul <=> i >= l
                    /\ i < l => At(s, i) = s[i + 1]
  BY Zenon
<1>2. At(s, i) = IF i < l THEN s[i + 1] ELSE nul
  BY DEF At
<1>3. i < l => i + 1 \in 1 .. l
  BY <1>1
<1> HIDE DEF l
<1> QED BY <1>1, <1>2, <1>3 DEF IsCell, nul

LEMMA BeginFacts ==
  ASSUME NEW s, IsText(s), NEW n \in Nat
  PROVE  /\ Begin(s, n) \in Seq(Byte)
         /\ Len(Begin(s, n)) = IF Len(s) <= n THEN Len(s) ELSE n
         /\ \A i \in 1 .. Len(Begin(s, n)) : Begin(s, n)[i] = s[i]
<1> DEFINE m == Min({Len(s), n})
<1>1. m = IF Len(s) <= n THEN Len(s) ELSE n
  BY LesserOf, TextFacts
<1>2. Begin(s, n) = SubSeq(s, 1, m)
  BY DEF Begin
<1> HIDE DEF m
<1> QED BY <1>1, <1>2, TextFacts

\* Two texts begin alike if they have the same bytes there.
LEMMA BeginsAlike ==
  ASSUME NEW s, IsText(s), NEW t, IsText(t), NEW n \in Nat
  PROVE  Begin(s, n) = Begin(t, n) <=> \A i \in 0 .. n - 1 : At(s, i) = At(t, i)
<1> DEFINE b == Begin(s, n)
           c == Begin(t, n)
           l == Len(s)
           k == Len(t)
<1>1. /\ b \in Seq(Byte) /\ Len(b) = (IF l <= n THEN l ELSE n)
      /\ \A i \in 1 .. Len(b) : b[i] = s[i]
  BY BeginFacts
<1>2. /\ c \in Seq(Byte) /\ Len(c) = (IF k <= n THEN k ELSE n)
      /\ \A i \in 1 .. Len(c) : c[i] = t[i]
  BY BeginFacts
<1>3. \A i \in Nat : /\ At(s, i) = nul <=> i >= l
                     /\ At(t, i) = nul <=> i >= k
                     /\ i < l => At(s, i) = s[i + 1]
                     /\ i < k => At(t, i) = t[i + 1]
  BY AtFacts
<1>4. l \in Nat /\ k \in Nat
  BY TextFacts
<1> HIDE DEF b, c, l, k
<1>5. ASSUME b = c, NEW i \in 0 .. n - 1 PROVE At(s, i) = At(t, i)
  <2>1. CASE i < l /\ i < k
    <3>1. i + 1 \in 1 .. Len(b) /\ i + 1 \in 1 .. Len(c) /\ i \in Nat
      BY <1>1, <1>2, <1>4, <2>1
    <3>2. s[i + 1] = t[i + 1]
      BY <1>1, <1>2, <1>5, <3>1
    <3> QED BY <1>3, <2>1, <3>1, <3>2
  <2>2. CASE i >= l /\ i >= k
    BY <1>3, <2>2
  <2>3. (i < l /\ i >= k) \/ (i >= l /\ i < k) => Len(b) # Len(c)
    BY <1>1, <1>2, <1>4
  <2> QED BY <1>4, <1>5, <2>1, <2>2, <2>3
<1>6. ASSUME \A i \in 0 .. n - 1 : At(s, i) = At(t, i) PROVE b = c
  <2>1. Len(b) = Len(c)
    <3>1. CASE l < n /\ l < k
      <4>1. l \in 0 .. n - 1 /\ l \in Nat /\ At(s, l) = nul /\ At(t, l) # nul
        BY <1>3, <1>4, <3>1
      <4> QED BY <1>6, <4>1
    <3>2. CASE k < n /\ k < l
      <4>1. k \in 0 .. n - 1 /\ k \in Nat /\ At(t, k) = nul /\ At(s, k) # nul
        BY <1>3, <1>4, <3>2
      <4> QED BY <1>6, <4>1
    <3> QED BY <1>1, <1>2, <1>4, <3>1, <3>2
  <2>2. ASSUME NEW i \in 1 .. Len(b) PROVE b[i] = c[i]
    <3>1. /\ i - 1 \in 0 .. n - 1 /\ i - 1 \in Nat /\ i - 1 < l /\ i - 1 < k
          /\ (i - 1) + 1 = i /\ i \in 1 .. Len(c)
      BY <1>1, <1>2, <1>4, <2>1
    <3>2. At(s, i - 1) = s[i] /\ At(t, i - 1) = t[i]
      BY <1>3, <3>1
    <3> QED BY <1>1, <1>2, <1>6, <3>1, <3>2
  <2> QED BY <1>1, <1>2, <2>1, <2>2, SameSequence
<1> QED BY <1>5, <1>6 DEF b, c

\* What a result of 0 means, and when it is 0.
LEMMA ComparedAlike ==
  ASSUME NEW a, IsText(a), NEW b, IsText(b), NEW n \in Nat, n <= U64_MAX
  PROVE  LET diff == cstr_ncmp(a, b, n) IN
           /\ diff = 0 => Begin(a, n) = Begin(b, n)
           /\ Begin(a, n) = Begin(b, n) => diff = 0 \/ (Len(a) > n /\ Len(b) > n)
<1> DEFINE l == Len(a)
           k == Len(b)
           m == Min({l, k, n})
           last == IF m < U64_MAX THEN m ELSE m - 1
           differ == {i \in 0 .. last : At(a, i) # At(b, i)}
           first == Min(differ)
           diff == cstr_ncmp(a, b, n)
<1>1. diff = IF differ = {} \/ (first = n /\ nul \in {At(a, first), At(b, first)}) THEN 0
             ELSE char(At(a, first)) - char(At(b, first))
  BY DEF cstr_ncmp
<1>2. \A i \in Nat : /\ IsCell(At(a, i)) /\ IsCell(At(b, i))
                     /\ At(a, i) = nul <=> i >= l
                     /\ At(b, i) = nul <=> i >= k
  BY AtFacts
<1>3. l \in Nat /\ k \in Nat /\ l < U64_MAX /\ k < U64_MAX /\ U64_MAX \in Nat
  BY Widest, TextFacts
<1>4. m \in {l, k, n} /\ m <= l /\ m <= k /\ m <= n
  BY <1>3, LeastOfThree
<1>5. m \in Nat /\ last = m
  BY <1>3, <1>4
<1>6. differ # {} => first \in differ /\ \A i \in differ : first <= i
  <2>1. differ \subseteq Nat
    BY <1>5
  <2> HIDE DEF differ
  <2> QED BY <2>1, LeastIsThere
<1>7. \A i \in 0 .. m : i \notin differ => At(a, i) = At(b, i)
  BY <1>5
<1>8. \A i \in differ : i \in 0 .. m /\ At(a, i) # At(b, i)
  BY <1>5
<1> HIDE DEF l, k, m, last, differ, first
<1>9. ASSUME differ # {} PROVE char(At(a, first)) - char(At(b, first)) # 0
  <2>1. first \in Nat /\ At(a, first) # At(b, first)
    BY <1>5, <1>6, <1>8, <1>9
  <2> QED BY <1>2, <2>1, CharIsOneToOne
<1>10. ASSUME diff = 0, NEW i \in 0 .. n - 1 PROVE At(a, i) = At(b, i)
  <2>1. CASE differ # {}
    <3>1. first = n
      BY <1>1, <1>9, <1>10, <2>1
    <3>2. i \notin differ /\ n = m
      BY <1>3, <1>4, <1>5, <1>6, <1>8, <2>1, <3>1
    <3> QED BY <1>3, <1>7, <3>2
  <2>2. CASE differ = {} /\ i <= m
    BY <1>3, <1>5, <1>7, <2>2
  <2>3. CASE differ = {} /\ i > m
    <3>1. At(a, m) = At(b, m)
      BY <1>5, <1>7, <2>3
    <3>2. m < n /\ (At(a, m) = nul \/ At(b, m) = nul)
      BY <1>2, <1>3, <1>4, <1>5, <2>3
    <3>3. m >= l /\ m >= k
      BY <1>2, <1>5, <3>1, <3>2
    <3>4. i \in Nat /\ i >= l /\ i >= k
      BY <1>3, <1>5, <2>3, <3>3
    <3> QED BY <1>2, <3>4
  <2> QED BY <1>3, <1>5, <2>1, <2>2, <2>3
<1>11. ASSUME \A i \in 0 .. n - 1 : At(a, i) = At(b, i), diff # 0
       PROVE  l > n /\ k > n
  <2>1. differ # {} /\ ~ (first = n /\ nul \in {At(a, first), At(b, first)})
    BY <1>1, <1>11
  <2>2. first \in 0 .. m /\ At(a, first) # At(b, first)
    BY <1>6, <1>8, <2>1
  <2>3. first = n /\ m = n
    BY <1>3, <1>4, <1>5, <1>11, <2>2
  <2>4. At(a, n) # nul /\ At(b, n) # nul
    BY <2>1, <2>3
  <2> QED BY <1>2, <1>3, <2>4
<1>12. Begin(a, n) = Begin(b, n) <=> \A i \in 0 .. n - 1 : At(a, i) = At(b, i)
  BY <1>3, BeginsAlike
<1> HIDE DEF diff
<1>13. diff = 0 => Begin(a, n) = Begin(b, n)
  BY <1>10, <1>12
<1>14. Begin(a, n) = Begin(b, n) => diff = 0 \/ (l > n /\ k > n)
  BY <1>11, <1>12
<1> QED BY <1>13, <1>14 DEF diff, l, k

\* All of a text is its beginning.
LEMMA BeginOfAll ==
  ASSUME NEW s, IsText(s), NEW n \in Nat, Len(s) <= n
  PROVE  Begin(s, n) = s
  BY BeginFacts, SameSequence, TextFacts

LEMMA TextsCompared == TextAnswered => Compares
<1> SUFFICES ASSUME TextAnswered PROVE Compares
  OBVIOUS
<1> DEFINE s == call.s
           t == call.t
           n == call.n
<1>1. ASSUME Returned("cstr_ncmp")
      PROVE  /\ result.same = (s = t)
             /\ \/ (result.diff = 0) = (Begin(s, n) = Begin(t, n))
                \/ Len(s) > n /\ Len(t) > n /\ result.diff # 0
  <2>1. IsText(s) /\ IsText(t) /\ n \in {0, 1, 2, U64_MAX}
    BY <1>1, ShortTextArgument DEF TextAnswered, Returned
  <2>2. result = [diff |-> cstr_ncmp(s, t, n), same |-> cstr_equal(s, t)]
    BY <1>1 DEF TextAnswered
  <2>3. result.diff = cstr_ncmp(s, t, n) /\ result.same = (cstr_ncmp(s, t, U64_MAX) = 0)
    BY <2>2 DEF cstr_equal
  <2>4. n \in 0 .. U64_MAX /\ U64_MAX \in 0 .. U64_MAX /\ U64_MAX \in Nat
    BY <2>1, Widest
  <2>5. /\ cstr_ncmp(s, t, n) = 0 => Begin(s, n) = Begin(t, n)
        /\ Begin(s, n) = Begin(t, n) => cstr_ncmp(s, t, n) = 0 \/ (Len(s) > n /\ Len(t) > n)
    BY <2>1, <2>4, ComparedAlike
  <2>6. /\ cstr_ncmp(s, t, U64_MAX) = 0 => Begin(s, U64_MAX) = Begin(t, U64_MAX)
        /\ Begin(s, U64_MAX) = Begin(t, U64_MAX) =>
             cstr_ncmp(s, t, U64_MAX) = 0 \/ (Len(s) > U64_MAX /\ Len(t) > U64_MAX)
    BY <2>1, <2>4, ComparedAlike
  <2>7. ~ (Len(s) > U64_MAX) /\ Begin(s, U64_MAX) = s /\ Begin(t, U64_MAX) = t
    <3>1. Len(s) \in Nat /\ Len(s) < U64_MAX /\ Len(t) \in Nat /\ Len(t) < U64_MAX
      BY <2>1, TextFacts
    <3>2. Len(s) <= U64_MAX /\ Len(t) <= U64_MAX /\ ~ (Len(s) > U64_MAX)
      BY <2>4, <3>1
    <3> QED BY <2>1, <2>4, <3>2, BeginOfAll
  <2>8. cstr_ncmp(s, t, U64_MAX) = 0 <=> s = t
    BY <2>6, <2>7
  <2> HIDE DEF s, t, n
  <2> QED BY <2>3, <2>5, <2>8
<1>2. ASSUME Returned("cstr_starts_with")
      PROVE  /\ result.exact = IsPrefix(t, s)
             /\ result.exact => result.caseless
  <2>1. IsText(s) /\ IsText(t)
    BY <1>2, ShortTextArgument DEF TextAnswered, Returned
  <2>2. result = [exact |-> cstr_starts_with(s, t), caseless |-> cstr_starts_withi(s, t)]
    BY <1>2 DEF TextAnswered
  <2> DEFINE l == Len(t)
  <2>3. l \in Nat /\ Len(s) \in Nat /\ l <= U64_MAX
    BY <2>1, TextFacts, Widest
  <2>4. /\ cstr_ncmp(s, t, l) = 0 => Begin(s, l) = Begin(t, l)
        /\ Begin(s, l) = Begin(t, l) => cstr_ncmp(s, t, l) = 0 \/ (Len(s) > l /\ Len(t) > l)
    BY <2>1, <2>3, ComparedAlike
  <2>5. cstr_nequal(s, t, l) <=> Begin(s, l) = Begin(t, l)
    BY <2>3, <2>4 DEF cstr_nequal
  <2>6. Len(s) >= l => Begin(s, l) = SubSeq(s, 1, l) /\ Begin(t, l) = SubSeq(t, 1, l)
    <3>1. Min({l, l}) = l /\ (Len(s) >= l => Min({Len(s), l}) = l)
      BY <2>3, LesserOf
    <3> QED BY <3>1 DEF Begin
  <2>7. cstr_starts_with(s, t) = IsPrefix(t, s)
    BY <2>3, <2>5, <2>6 DEF cstr_starts_with, IsPrefix
  <2>8. cstr_starts_with(s, t) => cstr_starts_withi(s, t)
    BY <2>5 DEF cstr_starts_with, cstr_starts_withi, cstr_nequali, Begin
  <2> QED BY <2>2, <2>7, <2>8
<1> QED BY <1>1, <1>2 DEF Compares

-----------------------------------------------------------------------------
(***************************************************************************)
(* Searches.                                                               *)
(***************************************************************************)
LEMMA IndicesFacts ==
  ASSUME NEW s, IsText(s), NEW C
  PROVE  /\ Indices(s, C) \subseteq 0 .. Len(s)
         /\ \A i \in Indices(s, C) : i \in Nat /\ i < Len(s) /\ s[i + 1] \in C
         /\ \A i \in Nat : i < Len(s) /\ s[i + 1] \in C => i \in Indices(s, C)
<1> DEFINE l == Len(s)
           I == Indices(s, C)
<1>1. l \in Nat /\ \A i \in Nat : i < l => At(s, i) = s[i + 1]
  BY TextFacts, AtFacts
<1>2. I = {i \in 0 .. l - 1 : At(s, i) \in C}
  BY DEF Indices
<1> HIDE DEF l, I
<1>3. I \subseteq 0 .. l
  BY <1>1, <1>2
<1>4. \A i \in I : i \in Nat /\ i < l /\ s[i + 1] \in C
  BY <1>1, <1>2
<1>5. \A i \in Nat : i < l /\ s[i + 1] \in C => i \in I
  BY <1>1, <1>2
<1> QED BY <1>3, <1>4, <1>5 DEF l, I

LEMMA LastOfIndices ==
  ASSUME NEW s, IsText(s), NEW C, NEW S, S \subseteq Indices(s, C), S # {}
  PROVE  /\ Max(S) \in S /\ Max(S) \in Nat /\ Max(S) < Len(s)
         /\ \A i \in S : i <= Max(S)
<1>1. S \subseteq 0 .. Len(s) /\ Len(s) \in Nat
  BY IndicesFacts, TextFacts
<1>2. Max(S) \in S /\ \A i \in S : i <= Max(S)
  BY <1>1, LargestIsThere
<1> QED BY <1>2, IndicesFacts

\* Where a text occurs in another one.
LEMMA OccursThere ==
  ASSUME NEW s, IsText(s), NEW t, IsText(t), NEW i \in Nat, i <= Len(s)
  PROVE  Occurs(t, s, i) <=> /\ i + Len(t) <= Len(s)
                             /\ \A j \in 1 .. Len(t) : s[i + j] = t[j]
<1> DEFINE l == Len(s)
           k == Len(t)
           rest == SubSeq(s, i + 1, l)
           head == SubSeq(rest, 1, k)
<1>1. s \in Seq(Byte) /\ t \in Seq(Byte) /\ l \in Nat /\ k \in Nat
  BY TextFacts
<1>2. rest \in Seq(Byte) /\ Len(rest) = l - i /\ \A j \in 1 .. l - i : rest[j] = s[i + j]
  BY <1>1
<1>3. SubSeq(t, 1, k) = t
  BY <1>1
<1>4. Occurs(t, s, i) <=> k <= Len(rest) /\ t = head
  BY <1>3 DEF Occurs, IsPrefix
<1> HIDE DEF rest
<1>5. k <= Len(rest) => /\ head \in Seq(Byte) /\ Len(head) = k
                        /\ \A j \in 1 .. k : head[j] = rest[j]
  BY <1>1, <1>2
<1> HIDE DEF head
<1>6. k <= Len(rest) <=> i + k <= l
  BY <1>1, <1>2
<1>7. ASSUME k <= Len(rest) PROVE t = head <=> \A j \in 1 .. k : s[i + j] = t[j]
  <2>1. \A j \in 1 .. k : head[j] = s[i + j]
    BY <1>1, <1>2, <1>5, <1>7
  <2> HIDE DEF k
  <2>2. (\A j \in 1 .. k : s[i + j] = t[j]) => t = head
    <3>1. SUFFICES ASSUME \A j \in 1 .. k : s[i + j] = t[j] PROVE t = head
      OBVIOUS
    <3>2. \A j \in 1 .. k : t[j] = head[j]
      BY <2>1, <3>1
    <3>3. Len(t) = k
      BY DEF k
    <3> QED BY <1>1, <1>5, <1>7, <3>2, <3>3, SameSequence
  <2> QED BY <2>1, <2>2
<1> QED BY <1>4, <1>6, <1>7

LEMMA TextFound ==
  ASSUME NEW s, IsText(s), NEW t, IsText(t), Len(t) <= Len(s)
  PROVE  LET found == {i \in 0 .. Len(s) : Occurs(t, s, i)} IN
           cstr_index_of_str(s, t) = IF t = <<>> \/ found = {} THEN U64_MAX ELSE Min(found)
<1> DEFINE l == Len(s)
           k == Len(t)
           found == {i \in 0 .. l : Occurs(t, s, i)}
           met == {i \in 0 .. l - 1 : \A j \in 0 .. k - 1 : At(s, i + j) = At(t, j)}
<1>1. /\ s \in Seq(Byte) /\ t \in Seq(Byte) /\ l \in Nat /\ k \in Nat
      /\ \A j \in 1 .. k : t[j] # 0
  BY TextFacts
<1>2. cstr_index_of_str(s, t) = IF t = <<>> \/ met = {} THEN U64_MAX ELSE Min(met)
  <2>1. ~ (k > l)
    BY <1>1
  <2> QED BY <2>1, Zenon DEF cstr_index_of_str
<1>3. /\ \A i \in Nat : /\ At(s, i) = nul <=> i >= l
                        /\ At(t, i) = nul <=> i >= k
                        /\ i < l => At(s, i) = s[i + 1]
                        /\ i < k => At(t, i) = t[i + 1]
  BY AtFacts
<1>4. \A i \in 0 .. l : Occurs(t, s, i) <=> i + k <= l /\ \A j \in 1 .. k : s[i + j] = t[j]
  BY <1>1, OccursThere
<1>5. t # <<>> => k >= 1
  BY <1>1
<1> HIDE DEF l, k
<1>6. ASSUME t # <<>> PROVE met = found
  <2>1. ASSUME NEW i \in met PROVE i \in found
    <3>1. i \in Nat /\ i \in 0 .. l /\ \A j \in 0 .. k - 1 : At(s, i + j) = At(t, j)
      BY <1>1
    <3>2. i + k <= l
      <4>1. k - 1 \in 0 .. k - 1 /\ k - 1 \in Nat /\ i + (k - 1) \in Nat /\ ~ (k - 1 >= k)
        BY <1>1, <1>5, <1>6, <3>1
      <4>2. At(s, i + (k - 1)) # nul
        BY <1>3, <3>1, <4>1
      <4>3. ~ (i + (k - 1) >= l)
        BY <1>3, <4>1, <4>2
      <4> QED BY <1>1, <3>1, <4>3
    <3>3. ASSUME NEW j \in 1 .. k PROVE s[i + j] = t[j]
      <4>1. /\ j - 1 \in 0 .. k - 1 /\ j - 1 \in Nat /\ j - 1 < k /\ (j - 1) + 1 = j
            /\ i + (j - 1) \in Nat /\ i + (j - 1) < l /\ (i + (j - 1)) + 1 = i + j
        BY <1>1, <3>1, <3>2
      <4>2. At(s, i + (j - 1)) = s[i + j] /\ At(t, j - 1) = t[j]
        BY <1>3, <4>1
      <4> QED BY <3>1, <4>1, <4>2
    <3> HIDE DEF met
    <3> QED BY <1>4, <3>1, <3>2, <3>3
  <2>2. ASSUME NEW i \in found PROVE i \in met
    <3>1. i \in Nat /\ i + k <= l /\ \A j \in 1 .. k : s[i + j] = t[j]
      BY <1>1, <1>4
    <3>2. ASSUME NEW j \in 0 .. k - 1 PROVE At(s, i + j) = At(t, j)
      <4>1. j + 1 \in 1 .. k /\ j \in Nat /\ j < k /\ i + j \in Nat /\ i + j < l /\ (i + j) + 1 = i + (j + 1)
        BY <1>1, <3>1
      <4>2. At(s, i + j) = s[i + (j + 1)] /\ At(t, j) = t[j + 1]
        BY <1>3, <4>1
      <4> QED BY <3>1, <4>1, <4>2
    <3>3. i \in 0 .. l - 1
      BY <1>1, <1>5, <1>6, <3>1
    <3> QED BY <3>2, <3>3
  <2> QED BY <2>1, <2>2
<1> HIDE DEF met, found
<1>7. cstr_index_of_str(s, t) = IF t = <<>> \/ found = {} THEN U64_MAX ELSE Min(found)
  BY <1>2, <1>6
<1> QED BY <1>7 DEF found, l

LEMMA TextsFound == TextAnswered => Finds
<1> SUFFICES ASSUME TextAnswered PROVE Finds
  OBVIOUS
<1> DEFINE s == call.s
           t == call.t
           dots == Indices(s, {46})
           found == {i \in 0 .. Len(s) : Occurs(t, s, i)}
<1>1. ASSUME Returned("cstr_index_of")
      PROVE  /\ IF dots = {} THEN result.first = U64_MAX
                             ELSE result.first \in dots /\ \A i \in dots : result.first <= i
             /\ \/ s = <<>>
                \/ dots \subseteq {0} /\ result.last = U64_MAX
                \/ result.last \in dots /\ \A i \in dots : i <= result.last
  <2>1. IsText(s)
    BY <1>1, TextArgument DEF TextAnswered, Returned
  <2>2. result = [first |-> cstr_index_of(s, 46), last |-> cstr_last_index_of(s, 46)]
    BY <1>1 DEF TextAnswered
  <2>3. dots \subseteq 0 .. Len(s) /\ Len(s) \in Nat /\ dots \subseteq Nat
    BY <2>1, IndicesFacts, TextFacts
  <2>4. s = <<>> => dots = {}
    <3>1. \A i \in dots : i \in Nat /\ i < Len(s)
      BY <2>1, IndicesFacts
    <3> QED BY <3>1
  <2>5. result.first = IF dots = {} THEN U64_MAX ELSE Min(dots)
    BY <2>2 DEF cstr_index_of
  <2>6. s # <<>> => result.last = IF dots \ {0} = {} THEN U64_MAX ELSE Max(dots \ {0})
    BY <2>2 DEF cstr_last_index_of
  <2> HIDE DEF dots, s
  <2>7. dots # {} => result.first \in dots /\ \A i \in dots : result.first <= i
    BY <2>3, <2>5, LeastIsThere
  <2>8. ASSUME dots \ {0} # {} PROVE result.last \in dots /\ \A i \in dots : i <= result.last
    <3>1. dots \ {0} \subseteq 0 .. Len(s)
      BY <2>3
    <3>2. Max(dots \ {0}) \in dots \ {0} /\ \A i \in dots \ {0} : i <= Max(dots \ {0})
      BY <2>3, <2>8, <3>1, LargestIsThere
    <3>3. result.last = Max(dots \ {0})
      BY <2>4, <2>6, <2>8
    <3> DEFINE x == Max(dots \ {0})
    <3>4. x \in dots /\ \A i \in dots \ {0} : i <= x
      BY <3>2
    <3> HIDE DEF x
    <3>5. x \in dots /\ x \in Nat /\ \A i \in dots : i <= x
      BY <2>3, <3>4
    <3> QED BY <3>3, <3>5 DEF x
  <2>9. dots \ {0} = {} => dots \subseteq {0}
    OBVIOUS
  <2> QED BY <2>5, <2>6, <2>7, <2>8, <2>9
<1>2. ASSUME Returned("cstr_index_of_str")
      PROVE  CASE t = <<>> -> result = U64_MAX
               [] t # <<>> /\ Len(t) <= Len(s) ->
                    result = IF found = {} THEN U64_MAX ELSE Min(found)
               [] OTHER -> TRUE
  <2>1. IsText(s) /\ IsText(t)
    BY <1>2, ShortTextArgument DEF TextAnswered, Returned
  <2>2. result = cstr_index_of_str(s, t)
    BY <1>2 DEF TextAnswered
  <2>3. t = <<>> => Len(t) <= Len(s)
    BY <2>1, TextFacts
  <2>4. Len(t) <= Len(s) =>
          result = IF t = <<>> \/ found = {} THEN U64_MAX ELSE Min(found)
    BY <2>1, <2>2, TextFound
  <2> HIDE DEF found, s, t
  <2> QED BY <2>3, <2>4
<1> HIDE DEF s, t, dots, found
<1> QED BY <1>1, <1>2 DEF Finds, s, t, dots, found

-----------------------------------------------------------------------------
(***************************************************************************)
(* Paths.                                                                  *)
(***************************************************************************)
\* A text is what stands before a place in it, and what stands from there on.
LEMMA CutInTwo ==
  ASSUME NEW s \in Seq(Byte), NEW a \in Nat, NEW b \in Nat, NEW c \in Nat,
         a <= b, b <= c, c <= Len(s)
  PROVE  SubSeq(s, a + 1, b) \o SubSeq(s, b + 1, c) = SubSeq(s, a + 1, c)
<1> DEFINE u == SubSeq(s, a + 1, b)
           v == SubSeq(s, b + 1, c)
           w == SubSeq(s, a + 1, c)
<1>1. u \in Seq(Byte) /\ Len(u) = b - a /\ \A i \in 1 .. b - a : u[i] = s[a + i]
  OBVIOUS
<1>2. v \in Seq(Byte) /\ Len(v) = c - b /\ \A i \in 1 .. c - b : v[i] = s[b + i]
  OBVIOUS
<1>3. w \in Seq(Byte) /\ Len(w) = c - a /\ \A i \in 1 .. c - a : w[i] = s[a + i]
  OBVIOUS
<1> HIDE DEF u, v, w
<1>4. Joins(u \o v, u, v, Byte)
  BY <1>1, <1>2, ConcatJoins
<1> DEFINE z == u \o v
<1>5. /\ z \in Seq(Byte) /\ Len(z) = c - a
      /\ \A i \in 1 .. b - a : z[i] = u[i]
      /\ \A i \in 1 .. c - b : z[(b - a) + i] = v[i]
  BY <1>1, <1>2, <1>4 DEF Joins
<1> HIDE DEF z
<1>6. ASSUME NEW i \in 1 .. c - a PROVE z[i] = w[i]
  <2>1. CASE i <= b - a
    BY <1>1, <1>3, <1>5, <2>1
  <2>2. CASE i > b - a
    <3> DEFINE j == i - (b - a)
    <3>1. j \in 1 .. c - b /\ (b - a) + j = i /\ b + j = a + i
      BY <2>2
    <3> HIDE DEF j
    <3>2. z[(b - a) + j] = v[j] /\ v[j] = s[b + j]
      BY <1>2, <1>5, <3>1
    <3>3. w[i] = s[a + i]
      BY <1>3
    <3> QED BY <3>1, <3>2, <3>3
  <2> QED BY <2>1, <2>2
<1>7. z = w
  BY <1>3, <1>5, <1>6, SameSequence
<1> QED BY <1>7 DEF z, u, v, w

LEMMA SubTaken ==
  ASSUME NEW s, IsText(s), NEW a \in Nat, NEW b \in Nat, a <= b, b <= Len(s)
  PROVE  cstr_sub(s, a, b - a) = SubSeq(s, a + 1, b)
<1>1. s \in Seq(Byte) /\ Len(s) \in Nat
  BY TextFacts
<1>2. CASE a = b
  <2>1. SubSeq(s, a + 1, b) = <<>>
    BY <1>1, <1>2
  <2> QED BY <1>2, <2>1 DEF cstr_sub
<1>3. CASE a # b
  <2>1. Min({Len(s), b}) = b
    BY <1>1, LesserOf
  <2>2. a + (b - a) = b /\ b - a # 0 /\ ~ (a >= Len(s))
    BY <1>1, <1>3
  <2> QED BY <2>1, <2>2 DEF cstr_sub
<1> QED BY <1>2, <1>3

LEMMA PathTakenApart ==
  ASSUME NEW s, IsText(s), Slashes(s) # {}
  PROVE  LET filename == cstr_filename_from_path(s) IN
           /\ cstr_directory_from_path(s) \o filename = s
           /\ Last(cstr_directory_from_path(s)) \in {47, 92} /\ Slashes(filename) = {}
           /\ \/ Indices(filename, {46}) = {}
              \/ filename = cstr_filename_no_ext_from_path(s) \o cstr_ext_from_path(s, TRUE)
<1> DEFINE l == Len(s)
           m == Max(Slashes(s))
           dots == {i \in Indices(s, {46}) : i >= m + 1}
           e == Max(dots)
           filename == cstr_filename_from_path(s)
<1>1. s \in Seq(Byte) /\ l \in Nat /\ l < U64_MAX
  BY TextFacts
<1>2. m \in Nat /\ m < l
  <2>1. Slashes(s) = Indices(s, {47, 92})
    BY DEF Slashes
  <2> QED BY <2>1, LastOfIndices
<1>3. cstr_directory_from_path(s) = SubSeq(s, 0 + 1, m + 1)
  <2>1. 0 + 1 = 1
    OBVIOUS
  <2>2. cstr_directory_from_path(s) = SubSeq(s, 1, m + 1)
    BY DEF cstr_directory_from_path
  <2> QED BY <2>1, <2>2
<1>4. filename = SubSeq(s, (m + 1) + 1, l)
  <2>1. (m + 1) + 1 = m + 2
    BY <1>2
  <2> QED BY <2>1 DEF cstr_filename_from_path
<1>5. SubSeq(s, 0 + 1, l) = s
  BY <1>1
<1>6. cstr_directory_from_path(s) \o filename = s
  <2>1. m + 1 \in Nat /\ 0 <= m + 1 /\ m + 1 <= l /\ l <= Len(s)
    BY <1>1, <1>2
  <2>2. SubSeq(s, 0 + 1, m + 1) \o SubSeq(s, (m + 1) + 1, l) = SubSeq(s, 0 + 1, l)
    BY <1>1, <2>1, CutInTwo
  <2> QED BY <1>3, <1>4, <1>5, <2>2
<1>7. IsText(filename) /\ Len(filename) = l - (m + 1)
      /\ \A i \in 1 .. l - (m + 1) : filename[i] = s[(m + 1) + i]
  <2> DEFINE f == SubSeq(s, (m + 1) + 1, l)
  <2>1. f \in Seq(Byte) /\ Len(f) = l - (m + 1) /\ \A i \in 1 .. l - (m + 1) : f[i] = s[(m + 1) + i]
    BY <1>1, <1>2
  <2>2. Len(f) <= l /\ Len(f) \in Nat
    BY <1>1, <1>2, <2>1
  <2>3. l < 2^14 /\ 2^14 \in Nat
    <3>1. 2^14 = 16384
      BY SMT
    <3>2. 2^14 \in Nat
      BY <3>1, SMT
    <3> QED BY <3>2 DEF IsText
  <2> DEFINE p == 2^14
  <2>4. Len(f) < p
    <3> HIDE DEF p, f
    <3>1. l < p /\ p \in Nat
      BY <2>3 DEF p
    <3> HIDE DEF l
    <3> QED BY <1>1, <2>2, <3>1
  <2> HIDE DEF f
  <2> QED BY <1>4, <2>1, <2>2, <2>4 DEF IsText, f
<1>8. Last(cstr_directory_from_path(s)) \in {47, 92}
  <2> DEFINE d == SubSeq(s, 0 + 1, m + 1)
  <2>1. Len(d) = m + 1 /\ d[m + 1] = s[m + 1]
    BY <1>1, <1>2
  <2>2. s[m + 1] \in {47, 92}
    <3>1. Slashes(s) = Indices(s, {47, 92})
      BY DEF Slashes
    <3>2. m \in Indices(s, {47, 92})
      BY <3>1, LastOfIndices
    <3> QED BY <3>2, IndicesFacts
  <2> HIDE DEF d, m
  <2>3. Last(d) \in {47, 92}
    BY <2>1, <2>2 DEF Last
  <2> QED BY <1>3, <2>3 DEF d, m
<1>9. Slashes(filename) = {}
  <2>1. ASSUME NEW i \in Slashes(filename) PROVE FALSE
    <3>1. Slashes(s) = Indices(s, {47, 92}) /\ Slashes(filename) = Indices(filename, {47, 92})
      BY DEF Slashes
    <3>2. i \in Nat /\ i < l - (m + 1) /\ filename[i + 1] \in {47, 92}
      BY <1>7, <3>1, IndicesFacts
    <3>3. i + 1 \in 1 .. l - (m + 1) /\ (m + 1) + (i + 1) = ((m + 1) + i) + 1
      BY <1>1, <1>2, <3>2
    <3>4. /\ (m + 1) + i \in Nat /\ (m + 1) + i < l /\ (m + 1) + i > m
          /\ s[((m + 1) + i) + 1] \in {47, 92}
      BY <1>1, <1>2, <1>7, <3>2, <3>3
    <3>5. (m + 1) + i \in Slashes(s)
      BY <3>1, <3>4, IndicesFacts
    <3>6. (m + 1) + i <= m
      BY <3>1, <3>5, LastOfIndices
    <3> HIDE DEF m
    <3> QED BY <1>2, <3>2, <3>6
  <2> QED BY <2>1
<1>10. ASSUME dots = {} PROVE Indices(filename, {46}) = {}
  <2>1. ASSUME NEW i \in Indices(filename, {46}) PROVE FALSE
    <3>1. i \in Nat /\ i < l - (m + 1) /\ filename[i + 1] = 46
      BY <1>7, IndicesFacts
    <3>2. i + 1 \in 1 .. l - (m + 1) /\ (m + 1) + (i + 1) = ((m + 1) + i) + 1
      BY <1>1, <1>2, <3>1
    <3>3. (m + 1) + i \in Nat /\ (m + 1) + i < l /\ s[((m + 1) + i) + 1] = 46 /\ (m + 1) + i >= m + 1
      BY <1>1, <1>2, <1>7, <3>1, <3>2
    <3>4. (m + 1) + i \in Indices(s, {46})
      BY <3>3, IndicesFacts
    <3> QED BY <1>10, <3>3, <3>4
  <2> QED BY <2>1
<1>11. ASSUME dots # {}
      PROVE  filename = cstr_filename_no_ext_from_path(s) \o cstr_ext_from_path(s, TRUE)
  <2>1. dots \subseteq Indices(s, {46})
    OBVIOUS
  <2>2. e \in dots /\ e \in Nat /\ e < l /\ \A i \in dots : i <= e
    BY <1>11, <2>1, LastOfIndices
  <2>3. e >= m + 1
    BY <2>2
  <2>4. cstr_filename_no_ext_from_path(s) = SubSeq(s, (m + 1) + 1, e)
    <3>1. cstr_filename_no_ext_from_path(s) = cstr_sub(s, m + 1, u64(e - (m + 1)))
      BY <1>11 DEF cstr_filename_no_ext_from_path
    <3>2. u64(e - (m + 1)) = e - (m + 1)
      <4> DEFINE p == 2^16
                 x == e - (m + 1)
      <4>1. p \in Nat /\ U64_MAX = p - 1
        <5>1. 2^16 = 65536
          BY SMT
        <5>2. 2^16 \in Nat
          BY <5>1, SMT
        <5> QED BY <5>2 DEF U64_MAX
      <4>2. u64(x) = x % p
        BY DEF u64
      <4> HIDE DEF p, l, e, m
      <4>3. x \in Nat /\ x < p
        BY <1>1, <1>2, <2>2, <2>3, <4>1
      <4> HIDE DEF x
      <4>4. x % p = x
        BY <4>1, <4>3
      <4> QED BY <4>2, <4>4 DEF x
    <3>3. m + 1 \in Nat /\ m + 1 <= e /\ e <= l
      BY <1>1, <1>2, <2>2, <2>3
    <3> HIDE DEF e, m, dots
    <3> QED BY <2>2, <3>1, <3>2, <3>3, SubTaken
  <2>5. cstr_ext_from_path(s, TRUE) = SubSeq(s, e + 1, l)
    <3>1. cstr_last_index_of(s, 46) = e
      <4> DEFINE D == Indices(s, {46}) \ {0}
      <4>1. e \in D
        BY <1>2, <2>2, <2>3
      <4>2. Max(D) \in D /\ Max(D) \in Nat /\ \A i \in D : i <= Max(D)
        <5>1. D \subseteq Indices(s, {46}) /\ D # {}
          BY <4>1
        <5> HIDE DEF D
        <5> QED BY <5>1, LastOfIndices
      <4>3. e <= Max(D)
        BY <4>1, <4>2
      <4>4. Max(D) \in dots
        <5>1. Max(D) >= m + 1
          BY <1>2, <2>2, <2>3, <4>2, <4>3
        <5> QED BY <4>2, <5>1
      <4>5. Max(D) = e
        <5>1. Max(D) <= e
          BY <2>2, <4>4
        <5> HIDE DEF D, e
        <5> QED BY <2>2, <4>2, <4>3, <5>1
      <4>6. s # <<>>
        BY <1>1, <1>2
      <4> HIDE DEF e
      <4> QED BY <4>1, <4>5, <4>6 DEF cstr_last_index_of
    <3>2. e # U64_MAX /\ s # <<>>
      BY <1>1, <1>2, <2>2, Widest
    <3>3. cstr_ext_from_path(s, TRUE) = cstr_sub(s, e, l - e)
      BY <3>1, <3>2 DEF cstr_ext_from_path
    <3>4. e <= l /\ l <= l
      BY <1>1, <2>2
    <3> HIDE DEF e
    <3> QED BY <1>1, <2>2, <3>3, <3>4, SubTaken
  <2>6. SubSeq(s, (m + 1) + 1, e) \o SubSeq(s, e + 1, l) = SubSeq(s, (m + 1) + 1, l)
    <3>1. m + 1 \in Nat /\ m + 1 <= e /\ e <= l /\ l <= Len(s)
      BY <1>1, <1>2, <2>2, <2>3
    <3> HIDE DEF e, m
    <3> QED BY <1>1, <2>2, <3>1, CutInTwo
  <2> QED BY <1>4, <2>4, <2>5, <2>6
<1> HIDE DEF filename, dots
<1>12. Indices(filename, {46}) = {} \/ filename = cstr_filename_no_ext_from_path(s) \o cstr_ext_from_path(s, TRUE)
  BY <1>10, <1>11
<1> QED BY <1>6, <1>12, <1>8, <1>9 DEF filename

LEMMA PathsTakenApart == TextAnswered => Paths
<1> SUFFICES ASSUME TextAnswered, Returned("path"), Slashes(call.s) # {}
             PROVE  /\ result.directory \o result.filename = call.s
                    /\ Last(result.directory) \in {47, 92} /\ Slashes(result.filename) = {}
                    /\ \/ Indices(result.filename, {46}) = {}
                       \/ result.filename = result.no_ext \o result.ext
  BY DEF Paths
<1>1. IsText(call.s)
  BY TextArgument DEF TextAnswered, Returned
<1>2. /\ result.directory = cstr_directory_from_path(call.s)
      /\ result.filename = cstr_filename_from_path(call.s)
      /\ result.no_ext = cstr_filename_no_ext_from_path(call.s)
      /\ result.ext = cstr_ext_from_path(call.s, TRUE)
  <2>1. result = [directory |-> cstr_directory_from_path(call.s),
                  dirname   |-> cstr_dirname_from_path(call.s),
                  filename  |-> cstr_filename_from_path(call.s),
                  no_ext    |-> cstr_filename_no_ext_from_path(call.s),
                  ext       |-> cstr_ext_from_path(call.s, TRUE)]
    BY DEF TextAnswered
  <2> QED BY <2>1
<1> QED BY <1>1, <1>2, PathTakenApart

-----------------------------------------------------------------------------
(***************************************************************************)
(* Edits.                                                                  *)
(***************************************************************************)
Cells == Byte \cup {nul, junk}

\* w is dst, but for s behind the place at.
Overwrites(w, n, dst, at, s) ==
  /\ w \in [1 .. n -> Cells]
  /\ \A i \in 1 .. n : w[i] = IF at < i /\ i <= at + Len(s) THEN s[i - at] ELSE dst[i]

LEMMA WrittenFacts ==
  ASSUME NEW n \in Nat, NEW dst \in [1 .. n -> Cells], NEW at \in Nat, NEW s \in Seq(Cells)
  PROVE  Overwrites(Written(dst, at, s), n, dst, at, s)
<1> DEFINE l == Len(s)
           w == Written(dst, at, s)
<1>1. l \in Nat /\ \A i \in 1 .. l : s[i] \in Cells
  OBVIOUS
<1>2. w = [i \in 1 .. n |-> IF i \in at + 1 .. at + l THEN s[i - at] ELSE dst[i]]
  BY DEF Written
<1> HIDE DEF w, l
<1>3. \A i \in 1 .. n : i \in at + 1 .. at + l <=> at < i /\ i <= at + l
  BY <1>1
<1>4. \A i \in 1 .. n : w[i] = IF at < i /\ i <= at + l THEN s[i - at] ELSE dst[i]
  BY <1>2, <1>3
<1>5. \A i \in 1 .. n : w[i] \in Cells
  <2>1. ASSUME NEW i \in 1 .. n PROVE w[i] \in Cells
    <3>1. CASE at < i /\ i <= at + l
      <4>1. i - at \in 1 .. l
        BY <1>1, <3>1
      <4> QED BY <1>1, <1>4, <3>1, <4>1
    <3>2. CASE ~ (at < i /\ i <= at + l)
      BY <1>4, <3>2
    <3> QED BY <3>1, <3>2
  <2> QED BY <2>1
<1>6. w \in [1 .. n -> Cells]
  BY <1>2, <1>5
<1> QED BY <1>4, <1>6 DEF w, l, Overwrites

\* A piece of a text can be written.
LEMMA PieceFacts ==
  ASSUME NEW s, s \in Seq(Cells), NEW a \in Nat, NEW b \in Nat, a <= b, b <= Len(s)
  PROVE  LET p == SubSeq(s, a + 1, b) IN
           p \in Seq(Cells) /\ Len(p) = b - a /\ \A i \in 1 .. b - a : p[i] = s[a + i]
  OBVIOUS

LEMMA TextCells == \A s : IsText(s) => s \in Seq(Cells)
<1>1. Byte \subseteq Cells
  BY DEF Cells
<1>2. ASSUME NEW s, IsText(s) PROVE s \in Seq(Cells)
  <2>1. s \in Seq(Byte) /\ \A i \in 1 .. Len(s) : s[i] \in Byte
    BY <1>2, TextFacts
  <2> QED BY <1>1, <2>1
<1> QED BY <1>2

LEMMA BufferFacts == Room \in Nat /\ 5 < Room /\ Buffer \in [1 .. Room -> Cells]
<1>1. Room \in Nat /\ 5 < Room
  BY DEF Room
<1>2. Buffer \in [1 .. Room -> Cells]
  BY DEF Buffer, Cells
<1> QED BY <1>1, <1>2

\* What stands where after t was inserted into s.
LEMMA Inserted ==
  ASSUME NEW s, IsText(s), NEW t, IsText(t), NEW pos \in Nat, pos <= Len(s),
         Len(s) + Len(t) < Room
  PROVE  LET r == cstr_insert_str_at(Buffer, s, pos, t) IN
           /\ r \in [1 .. Room -> Cells]
           /\ \A i \in 1 .. pos : r[i] = s[i]
           /\ \A i \in pos + 1 .. Len(s) : r[i + Len(t)] = s[i]
<1> DEFINE l == Len(s)
           k == Len(t)
           before == SubSeq(s, 0 + 1, pos)
           behind == SubSeq(s, pos + 1, l)
           front == Written(Buffer, 0, before)
           back == Written(front, pos + k, behind)
           r == Written(back, pos, t)
<1>1. s \in Seq(Cells) /\ t \in Seq(Cells) /\ l \in Nat /\ k \in Nat
  BY TextCells, TextFacts
<1>2. /\ before \in Seq(Cells) /\ Len(before) = pos
      /\ \A i \in 1 .. pos : before[i] = s[0 + i]
  <2>1. 0 \in Nat /\ 0 <= pos /\ pos - 0 = pos
    OBVIOUS
  <2> QED BY <1>1, <2>1, PieceFacts
<1>3. behind \in Seq(Cells) /\ Len(behind) = l - pos /\ \A i \in 1 .. l - pos : behind[i] = s[pos + i]
  BY <1>1, PieceFacts
<1>4. cstr_insert_str_at(Buffer, s, pos, t) = r
  <2>1. 0 + 1 = 1
    OBVIOUS
  <2> QED BY <2>1 DEF cstr_insert_str_at
<1> HIDE DEF before, behind
<1>5. /\ front \in [1 .. Room -> Cells]
      /\ \A i \in 1 .. Room : front[i] = IF 0 < i /\ i <= 0 + pos THEN before[i - 0] ELSE Buffer[i]
  <2>1. Overwrites(front, Room, Buffer, 0, before)
    BY <1>2, BufferFacts, WrittenFacts, Zenon
  <2> HIDE DEF front
  <2> QED BY <1>2, <2>1 DEF Overwrites
<1> HIDE DEF front
<1>6. pos + k \in Nat
  BY <1>1
<1>7. /\ back \in [1 .. Room -> Cells]
      /\ \A i \in 1 .. Room : back[i] =
           IF pos + k < i /\ i <= (pos + k) + (l - pos) THEN behind[i - (pos + k)] ELSE front[i]
  <2>1. Overwrites(back, Room, front, pos + k, behind)
    BY <1>3, <1>5, <1>6, BufferFacts, WrittenFacts, Zenon
  <2> HIDE DEF back
  <2> QED BY <1>3, <2>1 DEF Overwrites
<1> HIDE DEF back
<1>8. /\ r \in [1 .. Room -> Cells]
      /\ \A i \in 1 .. Room : r[i] = IF pos < i /\ i <= pos + k THEN t[i - pos] ELSE back[i]
  <2>1. Overwrites(r, Room, back, pos, t)
    BY <1>1, <1>7, BufferFacts, WrittenFacts, Zenon
  <2> HIDE DEF r
  <2> QED BY <2>1 DEF Overwrites
<1>9. l + k < Room /\ pos <= l /\ Room \in Nat
  BY BufferFacts
<1> HIDE DEF r, l, k
<1>10. ASSUME NEW i \in 1 .. pos PROVE r[i] = s[i]
  <2>1. /\ i \in 1 .. Room /\ ~ (pos < i) /\ ~ (pos + k < i) /\ 0 < i /\ i <= 0 + pos
        /\ i - 0 = i /\ 0 + i = i
    BY <1>1, <1>9
  <2>2. r[i] = back[i] /\ back[i] = front[i] /\ front[i] = before[i] /\ before[i] = s[i]
    BY <1>2, <1>5, <1>7, <1>8, <2>1
  <2> QED BY <2>2
<1>11. ASSUME NEW i \in pos + 1 .. l PROVE r[i + k] = s[i]
  <2>1. /\ i + k \in 1 .. Room /\ ~ (i + k <= pos + k) /\ pos + k < i + k
        /\ i + k <= (pos + k) + (l - pos) /\ (i + k) - (pos + k) = i - pos
        /\ i - pos \in 1 .. l - pos /\ pos + (i - pos) = i
    BY <1>1, <1>9
  <2>2. r[i + k] = back[i + k] /\ back[i + k] = behind[i - pos] /\ behind[i - pos] = s[i]
    BY <1>3, <1>7, <1>8, <2>1
  <2> QED BY <2>2
<1> QED BY <1>4, <1>8, <1>10, <1>11 DEF r, l, k

\* What stands where after so many bytes were removed again.
LEMMA Removed ==
  ASSUME NEW r \in Seq(Cells), NEW pos \in Nat, NEW k \in Nat, pos + k <= Len(r), Len(r) - k < Room
  PROVE  LET q == cstr_remove_at(Buffer, r, pos, k) IN
           /\ q \in [1 .. Room -> Cells]
           /\ \A i \in 1 .. pos : q[i] = r[i]
           /\ \A i \in pos + 1 .. Len(r) - k : q[i] = r[i + k]
           /\ q[(Len(r) - k) + 1] = nul
<1> DEFINE n == Len(r)
           before == SubSeq(r, 0 + 1, pos)
           behind == SubSeq(r, (pos + k) + 1, n)
           ended == behind \o <<nul>>
           front == Written(Buffer, 0, before)
           q == Written(front, pos, ended)
<1>1. n \in Nat /\ n - k < Room /\ pos + k \in Nat /\ 0 \in Nat /\ 0 <= pos /\ pos <= n /\ pos - 0 = pos
  OBVIOUS
<1>2. before \in Seq(Cells) /\ Len(before) = pos /\ \A i \in 1 .. pos : before[i] = r[0 + i]
  BY <1>1, PieceFacts
<1>3. /\ behind \in Seq(Cells) /\ Len(behind) = n - (pos + k)
      /\ \A i \in 1 .. n - (pos + k) : behind[i] = r[(pos + k) + i]
  BY <1>1, PieceFacts
<1>4. cstr_remove_at(Buffer, r, pos, k) = q
  <2>1. 0 + 1 = 1
    OBVIOUS
  <2> QED BY <2>1 DEF cstr_remove_at
<1>5. <<nul>> \in Seq(Cells) /\ Len(<<nul>>) = 1 /\ <<nul>>[1] = nul
  BY DEF Cells
<1> HIDE DEF before, behind
<1>6. Joins(ended, behind, <<nul>>, Cells)
  BY <1>3, <1>5, ConcatJoins
<1> HIDE DEF ended
<1>7. /\ ended \in Seq(Cells) /\ Len(ended) = (n - (pos + k)) + 1
      /\ \A i \in 1 .. n - (pos + k) : ended[i] = behind[i]
      /\ ended[(n - (pos + k)) + 1] = nul
  <2>1. 1 \in 1 .. Len(<<nul>>)
    BY <1>5
  <2> QED BY <1>3, <1>5, <1>6, <2>1 DEF Joins
<1>8. /\ front \in [1 .. Room -> Cells]
      /\ \A i \in 1 .. Room : front[i] = IF 0 < i /\ i <= 0 + pos THEN before[i - 0] ELSE Buffer[i]
  <2>1. Overwrites(front, Room, Buffer, 0, before)
    BY <1>1, <1>2, BufferFacts, WrittenFacts, Zenon
  <2> HIDE DEF front
  <2> QED BY <1>2, <2>1 DEF Overwrites
<1> HIDE DEF front
<1>9. /\ q \in [1 .. Room -> Cells]
      /\ \A i \in 1 .. Room : q[i] =
           IF pos < i /\ i <= pos + ((n - (pos + k)) + 1) THEN ended[i - pos] ELSE front[i]
  <2>1. Overwrites(q, Room, front, pos, ended)
    BY <1>7, <1>8, BufferFacts, WrittenFacts, Zenon
  <2> HIDE DEF q
  <2> QED BY <1>7, <2>1 DEF Overwrites
<1>10. pos + k <= n /\ Room \in Nat
  BY BufferFacts
<1> HIDE DEF q, n
<1>11. ASSUME NEW i \in 1 .. pos PROVE q[i] = r[i]
  <2>1. i \in 1 .. Room /\ ~ (pos < i) /\ 0 < i /\ i <= 0 + pos /\ i - 0 = i /\ 0 + i = i
    BY <1>1, <1>10
  <2>2. q[i] = front[i] /\ front[i] = before[i] /\ before[i] = r[i]
    BY <1>2, <1>8, <1>9, <2>1
  <2> QED BY <2>2
<1>12. ASSUME NEW i \in pos + 1 .. n - k PROVE q[i] = r[i + k]
  <2>1. /\ i \in 1 .. Room /\ pos < i /\ i <= pos + ((n - (pos + k)) + 1)
        /\ i - pos \in 1 .. n - (pos + k) /\ (pos + k) + (i - pos) = i + k
    BY <1>1, <1>10
  <2>2. q[i] = ended[i - pos] /\ ended[i - pos] = behind[i - pos] /\ behind[i - pos] = r[i + k]
    BY <1>3, <1>7, <1>9, <2>1
  <2> QED BY <2>2
<1>13. q[(n - k) + 1] = nul
  <2> DEFINE i == (n - k) + 1
  <2>1. /\ i \in 1 .. Room /\ pos < i /\ i <= pos + ((n - (pos + k)) + 1)
        /\ i - pos = (n - (pos + k)) + 1
    BY <1>1, <1>10
  <2>2. q[i] = ended[i - pos]
    <3> HIDE DEF i
    <3> QED BY <1>9, <2>1
  <2> HIDE DEF i
  <2>3. q[i] = nul
    BY <1>7, <2>1, <2>2
  <2> QED BY <2>3 DEF i
<1> QED BY <1>4, <1>9, <1>11, <1>12, <1>13 DEF q, n

\* The text in a buffer ends at its first NUL.
LEMMA TextUpToNul ==
  ASSUME NEW s, IsText(s), NEW q \in [1 .. Room -> Cells], Len(s) < Room,
         \A i \in 1 .. Len(s) : q[i] = s[i], q[Len(s) + 1] = nul
  PROVE  Text(q) = s
<1> DEFINE l == Len(s)
           nuls == {i \in DOMAIN q : q[i] = nul}
<1>1. s \in Seq(Byte) /\ l \in Nat /\ (\A i \in 1 .. l : s[i] # 0) /\ s \in Seq(Cells)
  BY TextFacts, TextCells
<1>2. /\ nuls \subseteq 1 .. Room /\ l + 1 \in nuls /\ \A i \in nuls : q[i] = nul
  BY <1>1, BufferFacts
<1>3. Min(nuls) \in nuls /\ \A i \in nuls : Min(nuls) <= i
  <2>1. nuls \subseteq Nat /\ nuls # {}
    BY <1>2
  <2> HIDE DEF nuls
  <2> QED BY <2>1, LeastIsThere
<1>4. Min(nuls) - 1 = l
  <2> DEFINE m == Min(nuls)
  <2>1. m \in 1 .. Room /\ q[m] = nul /\ m <= l + 1
    BY <1>2, <1>3
  <2> HIDE DEF m, nuls
  <2>2. ~ (m <= l)
    <3>1. SUFFICES ASSUME m <= l PROVE FALSE
      OBVIOUS
    <3>2. m \in 1 .. l
      BY <1>1, <2>1, <3>1
    <3> QED BY <1>1, <2>1, <3>2 DEF nul
  <2>3. m - 1 = l
    BY <1>1, <2>1, <2>2
  <2> QED BY <2>3 DEF m
<1>5. Text(q) = SubSeq(q, 1, l)
  BY <1>4 DEF Text
<1>6. q \in Seq(Cells) /\ Len(q) = Room /\ Room \in Nat /\ l < Room
  BY BufferFacts, SequenceOf, Zenon
<1> DEFINE u == SubSeq(q, 1, l)
<1>7. u \in Seq(Cells) /\ Len(u) = l /\ \A i \in 1 .. l : u[i] = q[i]
  BY <1>1, <1>6
<1>8. u = s
  <2> HIDE DEF u
  <2> QED BY <1>1, <1>7, SameSequence
<1> QED BY <1>5, <1>8

LEMMA InsertedAndRemoved ==
  ASSUME NEW s, IsText(s), NEW t, IsText(t), NEW pos \in Nat, pos <= Len(s),
         Len(s) + Len(t) < Room
  PROVE  LET inserted == SubSeq(cstr_insert_str_at(Buffer, s, pos, t), 1, Len(s) + Len(t)) IN
           Text(cstr_remove_at(Buffer, inserted, pos, Len(t))) = s
<1> DEFINE l == Len(s)
           k == Len(t)
           r == cstr_insert_str_at(Buffer, s, pos, t)
           u == SubSeq(r, 1, l + k)
           q == cstr_remove_at(Buffer, u, pos, k)
<1>1. l \in Nat /\ k \in Nat /\ l + k < Room /\ pos <= l /\ Room \in Nat
  BY TextFacts, BufferFacts
<1>2. /\ r \in [1 .. Room -> Cells]
      /\ \A i \in 1 .. pos : r[i] = s[i]
      /\ \A i \in pos + 1 .. l : r[i + k] = s[i]
  BY Inserted
<1> HIDE DEF r
<1>3. r \in Seq(Cells) /\ Len(r) = Room /\ Room \in Nat
  BY <1>2, BufferFacts, SequenceOf, Zenon
<1>4. u \in Seq(Cells) /\ Len(u) = l + k /\ \A i \in 1 .. l + k : u[i] = r[i]
  <2> HIDE DEF l, k
  <2> QED BY <1>1, <1>3
<1> HIDE DEF u
<1>5. /\ q \in [1 .. Room -> Cells]
      /\ \A i \in 1 .. pos : q[i] = u[i]
      /\ \A i \in pos + 1 .. Len(u) - k : q[i] = u[i + k]
      /\ q[(Len(u) - k) + 1] = nul
  <2>1. pos + k <= Len(u) /\ Len(u) - k < Room
    BY <1>1, <1>4
  <2> QED BY <1>1, <1>4, <2>1, Removed
<1> HIDE DEF q
<1>6. ASSUME NEW i \in 1 .. l PROVE q[i] = s[i]
  <2> HIDE DEF l, k
  <2>1. CASE i <= pos
    <3>1. i \in 1 .. pos /\ i \in 1 .. l + k
      BY <1>1, <2>1
    <3> QED BY <1>2, <1>4, <1>5, <3>1
  <2>2. CASE i > pos
    <3>1. i \in pos + 1 .. Len(u) - k /\ i + k \in 1 .. l + k /\ i \in pos + 1 .. l
      BY <1>1, <1>4, <2>2
    <3> QED BY <1>2, <1>4, <1>5, <3>1
  <2> QED BY <1>1, <2>1, <2>2
<1>7. q[l + 1] = nul
  <2>1. Len(u) - k = l
    <3> HIDE DEF l, k
    <3> QED BY <1>1, <1>4
  <2> QED BY <1>5, <2>1
<1>8. l < Room
  <2> HIDE DEF l, k
  <2> QED BY <1>1
<1>9. Text(q) = s
  BY <1>5, <1>6, <1>7, <1>8, TextUpToNul
<1> QED BY <1>9 DEF q, u, r

LEMMA Copied ==
  ASSUME NEW s, IsText(s), NEW n \in 0 .. 5
  PROVE  LET copy == SubSeq(cstr_ncopy(Buffer, s, n), 1, n) IN
           /\ Begin(copy, Len(s)) = Begin(s, n)
           /\ Len(s) < n => copy[Len(s) + 1] = nul
<1> DEFINE l == Len(s)
           m == Min({l + 1, n})
           full == Append(s, nul)
           part == SubSeq(full, 0 + 1, m)
           copied == Written(Buffer, 0, part)
           padding == [i \in 1 .. n - m |-> nul]
           r == cstr_ncopy(Buffer, s, n)
           copy == SubSeq(r, 1, n)
<1>1. l \in Nat /\ s \in Seq(Cells) /\ n \in Nat /\ s \in Seq(Byte)
  BY TextFacts, TextCells
<1>2. m \in Nat /\ m = IF l + 1 <= n THEN l + 1 ELSE n
  <2> HIDE DEF l
  <2> QED BY <1>1, LesserOf
<1>3. nul \in Cells
  BY DEF Cells
<1>5. /\ full \in Seq(Cells) /\ Len(full) = l + 1 /\ full[l + 1] = nul
      /\ \A i \in 1 .. l : full[i] = s[i]
  BY <1>1, <1>3
<1> HIDE DEF full
<1>6. part \in Seq(Cells) /\ Len(part) = m /\ \A i \in 1 .. m : part[i] = full[0 + i]
  <2>1. 0 \in Nat /\ 0 <= m /\ m <= Len(full) /\ m - 0 = m
    <3> HIDE DEF m, l
    <3> QED BY <1>1, <1>2, <1>5
  <2> HIDE DEF m
  <2> QED BY <1>2, <1>5, <2>1, PieceFacts
<1>7. padding \in Seq(Cells) /\ Len(padding) = n - m
  <2>1. n - m \in Nat
    <3> HIDE DEF m, l
    <3> QED BY <1>1, <1>2
  <2> HIDE DEF m
  <2>2. padding \in [1 .. n - m -> Cells]
    BY <1>3
  <2> QED BY <2>1, <2>2, SequenceOf
<1>8. r = IF n = 0 THEN Buffer ELSE Written(copied, n, padding)
  <2>1. n # U64_MAX
    BY Widest
  <2>2. 0 + 1 = 1
    OBVIOUS
  <2> QED BY <2>1, <2>2 DEF cstr_ncopy, full
<1> HIDE DEF part, padding
<1>9. /\ copied \in [1 .. Room -> Cells]
      /\ \A i \in 1 .. Room : copied[i] = IF 0 < i /\ i <= 0 + m THEN part[i - 0] ELSE Buffer[i]
  <2>1. 0 \in Nat
    OBVIOUS
  <2>2. Overwrites(copied, Room, Buffer, 0, part)
    BY <1>6, <2>1, BufferFacts, WrittenFacts, Zenon
  <2> HIDE DEF m, copied
  <2> QED BY <1>6, <2>2 DEF Overwrites
<1> HIDE DEF copied
<1> DEFINE w == Written(copied, n, padding)
<1>10. /\ w \in [1 .. Room -> Cells]
       /\ \A i \in 1 .. Room : w[i] =
            IF n < i /\ i <= n + (n - m) THEN padding[i - n] ELSE copied[i]
  <2>1. Overwrites(w, Room, copied, n, padding)
    BY <1>1, <1>7, <1>9, BufferFacts, WrittenFacts, Zenon
  <2> HIDE DEF m, w
  <2> QED BY <1>7, <2>1 DEF Overwrites
<1> HIDE DEF w
<1>11. /\ r \in [1 .. Room -> Cells]
       /\ \A i \in 1 .. m : r[i] = full[i]
  <2>1. r \in [1 .. Room -> Cells]
    BY <1>8, <1>10, BufferFacts DEF w
  <2>2. ASSUME NEW i \in 1 .. m PROVE r[i] = full[i]
    <3> HIDE DEF m, l
    <3>1. /\ i \in 1 .. Room /\ 0 < i /\ i <= 0 + m /\ i - 0 = i /\ 0 + i = i /\ ~ (n < i) /\ n # 0
      BY <1>1, <1>2, BufferFacts
    <3>2. r[i] = w[i] /\ w[i] = copied[i] /\ copied[i] = part[i] /\ part[i] = full[i]
      BY <1>6, <1>8, <1>9, <1>10, <3>1 DEF w
    <3> QED BY <3>2
  <2> QED BY <2>1, <2>2
<1> HIDE DEF r
<1>12. /\ copy \in Seq(Cells) /\ Len(copy) = n
       /\ \A i \in 1 .. m : copy[i] = full[i]
  <2>1. r \in Seq(Cells) /\ Len(r) = Room
    BY <1>11, BufferFacts, SequenceOf, Zenon
  <2>2. copy \in Seq(Cells) /\ Len(copy) = n /\ \A i \in 1 .. n : copy[i] = r[i]
    <3>1. n \in Nat /\ n <= Len(r)
      BY <2>1, BufferFacts
    <3> QED BY <2>1, <3>1
  <2>3. \A i \in 1 .. m : i \in 1 .. n
    <3> HIDE DEF m, l
    <3> QED BY <1>1, <1>2
  <2> HIDE DEF copy, m
  <2> QED BY <1>11, <2>2, <2>3
<1> HIDE DEF copy
<1> DEFINE c == Min({n, l})
           b == Begin(copy, l)
<1>13. c \in Nat /\ c = (IF n <= l THEN n ELSE l)
  <2> HIDE DEF l
  <2> QED BY <1>1, LesserOf
<1>14. b = SubSeq(copy, 1, c)
  BY <1>12 DEF Begin
<1>15. b \in Seq(Cells) /\ Len(b) = c /\ \A i \in 1 .. c : b[i] = copy[i]
  <2>1. c <= Len(copy)
    <3> HIDE DEF c, l
    <3> QED BY <1>1, <1>12, <1>13
  <2> HIDE DEF c
  <2> QED BY <1>12, <1>13, <1>14, <2>1
<1>16. /\ Begin(s, n) \in Seq(Byte)
       /\ Len(Begin(s, n)) = IF l <= n THEN l ELSE n
       /\ \A i \in 1 .. Len(Begin(s, n)) : Begin(s, n)[i] = s[i]
  BY <1>1, BeginFacts
<1> DEFINE d == Begin(s, n)
<1> HIDE DEF b, c, d, m, l
<1>17. b = d
  <2>1. Len(d) = c /\ Len(b) = Len(d)
    BY <1>1, <1>13, <1>15, <1>16 DEF d
  <2>2. d \in Seq(Cells)
    <3>1. Byte \subseteq Cells
      BY DEF Cells
    <3> QED BY <1>16, <3>1 DEF d
  <2>3. ASSUME NEW i \in 1 .. Len(b) PROVE b[i] = d[i]
    <3>1. i \in 1 .. c /\ i \in 1 .. m /\ i \in 1 .. l
      BY <1>1, <1>2, <1>13, <1>15
    <3>2. b[i] = s[i]
      BY <1>5, <1>12, <1>15, <3>1
    <3>3. d[i] = s[i]
      BY <1>16, <2>1 DEF d
    <3> QED BY <3>2, <3>3
  <2> QED BY <1>15, <2>1, <2>2, <2>3, SameSequence
<1>18. l < n => copy[l + 1] = nul
  <2>1. l < n => l + 1 \in 1 .. m
    BY <1>1, <1>2
  <2> QED BY <1>5, <1>12, <2>1
<1> QED BY <1>17, <1>18 DEF b, d, l, copy, r

LEMMA TextsEdited == TextAnswered => Edits
<1> SUFFICES ASSUME TextAnswered PROVE Edits
  OBVIOUS
<1> DEFINE s == call.s
           t == call.t
<1>1. ASSUME Returned("cstr_insert_str_at")
      PROVE  LET inserted == SubSeq(result, 1, Len(s) + Len(t)) IN
               Text(cstr_remove_at(Buffer, inserted, call.n, Len(t))) = s
  <2>1. /\ IsText(s) /\ IsText(t) /\ Len(s) + Len(t) < Room /\ call.n \in {0, 1, 2, U64_MAX}
    BY <1>1, ShortTextArgument DEF TextAnswered, Returned
  <2>2. /\ call.n <= Len(s)
        /\ result = IF Len(t) = 1 THEN cstr_insert_char_at(Buffer, s, call.n, t[1])
                    ELSE cstr_insert_str_at(Buffer, s, call.n, t)
    BY <1>1 DEF TextAnswered
  <2>3. call.n \in Nat
    BY <2>1, Widest
  <2>4. result = cstr_insert_str_at(Buffer, s, call.n, t)
    <3>1. CASE Len(t) = 1
      <4>1. t = <<t[1]>>
        <5>1. t \in Seq(Byte)
          BY <2>1, TextFacts
        <5> QED BY <3>1, <5>1
      <4> QED BY <2>2, <3>1, <4>1 DEF cstr_insert_char_at
    <3>2. CASE Len(t) # 1
      BY <2>2, <3>2
    <3> QED BY <3>1, <3>2
  <2> HIDE DEF s, t
  <2> QED BY <2>1, <2>2, <2>3, <2>4, InsertedAndRemoved
<1>2. ASSUME Returned("cstr_ncopy")
      PROVE  LET copy == SubSeq(result, 1, call.n) IN
               /\ Begin(copy, Len(s)) = Begin(s, call.n)
               /\ Len(s) < call.n => copy[Len(s) + 1] = nul
  <2>1. IsText(s) /\ call.n \in 0 .. 5
    BY <1>2, CopyArgument DEF TextAnswered, Returned
  <2>2. result = cstr_ncopy(Buffer, s, call.n)
    BY <1>2 DEF TextAnswered
  <2> QED BY <2>1, <2>2, Copied
<1> QED BY <1>1, <1>2 DEF Edits

-----------------------------------------------------------------------------
(***************************************************************************)
(* UTF-8.                                                                  *)
(***************************************************************************)
IsCodepoint(c) == c \in Nat /\ c # 0 /\ c < 17 * 2^16

LEMMA Sixes ==
  ASSUME NEW c \in Nat
  PROVE  /\ c \div 64 \in Nat /\ c % 64 \in Nat /\ c % 64 < 64
         /\ c = 64 * (c \div 64) + (c % 64)
<1>1. c % 64 \in Nat /\ c % 64 < 64
  BY SMT
<1>2. c \div 64 \in Nat
  BY SMT
<1>3. c % 64 = c - 64 * (c \div 64)
  BY SMT
<1>4. c % 64 \in Int /\ c \div 64 \in Int
  BY <1>1, <1>2
<1> DEFINE q == c \div 64
           r == c % 64
<1>5. c = 64 * q + r
  <2>1. q \in Int /\ r \in Int /\ r = c - 64 * q
    BY <1>3, <1>4
  <2> HIDE DEF q, r
  <2> QED BY <2>1, SMT
<1> QED BY <1>1, <1>2, <1>5, Zenon

LEMMA LowBits ==
  ASSUME NEW r \in Nat
  PROVE  /\ r < 64 => (128 + r) % 64 = r
         /\ r < 32 => (192 + r) % 32 = r
         /\ r < 16 => (224 + r) % 16 = r
         /\ r < 8 => (240 + r) % 8 = r
<1>1. r < 64 => (128 + r) % 64 = r
  BY SMT
<1>2. r < 32 => (192 + r) % 32 = r
  BY SMT
<1>3. r < 16 => (224 + r) % 16 = r
  BY SMT
<1>4. r < 8 => (240 + r) % 8 = r
  BY SMT
<1> QED BY <1>1, <1>2, <1>3, <1>4

Of2(a, b) == (a % 32) * 64 + (b % 64)
Of3(a, b, d) == (a % 16) * 64^2 + (b % 64) * 64 + (d % 64)
Of4(a, b, d, e) == (a % 8) * 64^3 + (b % 64) * 64^2 + (d % 64) * 64 + (e % 64)

\* The bytes of a character: the first tells how many there are, none is NUL,
\* and the codepoint can be put together from them.
Encodes(u, c) ==
  /\ u \in Seq(Nat) /\ Len(u) \in 1 .. 4
  /\ \A i \in 1 .. Len(u) : u[i] \in Nat /\ u[i] # 0
  /\ c # 127 => Advance(u[1]) = Len(u)
  /\ Len(u) = 1 => c = u[1]
  /\ Len(u) = 2 => c = Of2(u[1], u[2])
  /\ Len(u) = 3 => c = Of3(u[1], u[2], u[3])
  /\ Len(u) = 4 => c = Of4(u[1], u[2], u[3], u[4])

LEMMA Utf8Encodes ==
  ASSUME NEW c, IsCodepoint(c)
  PROVE  Encodes(Utf8(c), c)
<1> DEFINE q == c \div 64
           r == c % 64
           q2 == q \div 64
           r2 == q % 64
           q3 == q2 \div 64
           r3 == q2 % 64
           u == Utf8(c)
<1>1. c \in Nat /\ c # 0 /\ c < 17 * 2^16
  BY DEF IsCodepoint
<1>2. q \in Nat /\ r \in Nat /\ r < 64 /\ c = 64 * q + r
  BY <1>1, Sixes
<1>3. q2 \in Nat /\ r2 \in Nat /\ r2 < 64 /\ q = 64 * q2 + r2
  <2> HIDE DEF q
  <2> QED BY <1>2, Sixes
<1>4. q3 \in Nat /\ r3 \in Nat /\ r3 < 64 /\ q2 = 64 * q3 + r3
  <2> HIDE DEF q2
  <2> QED BY <1>3, Sixes
<1>5. /\ 64^0 = 1 /\ 64^1 = 64 /\ 64^2 = 4096 /\ 64^3 = 262144
      /\ 2^7 = 128 /\ 2^11 = 2048 /\ 2^16 = 65536
  BY SMT
<1>6. c \div 64^0 = c /\ c \div 64^1 = q
  BY <1>1, <1>5, SMT
<1>7. c \div 64^2 = q2
  BY <1>1, <1>5, SMT
<1>8. c \div 64^3 = q3
  BY <1>1, <1>5, SMT
<1>9. u = CASE c < 2^7 -> <<c>>
            [] 2^7 <= c /\ c < 2^11 -> <<192 + q, 128 + r>>
            [] 2^11 <= c /\ c < 2^16 -> <<224 + q2, 128 + r2, 128 + r>>
            [] OTHER -> <<240 + q3, 128 + r3, 128 + r2, 128 + r>>
  BY <1>6, <1>7, <1>8, Zenon DEF Utf8
<1>16. c < 2^7 => u = <<c>>
  <2> SUFFICES ASSUME c < 2^7 PROVE u = <<c>>
    OBVIOUS
  <2>1. c < 128 /\ ~ (128 <= c) /\ ~ (2048 <= c)
    BY <1>1, <1>5
  <2> QED BY <1>1, <1>5, <2>1, SMT DEF Utf8
<1> SUFFICES Encodes(u, c)
  OBVIOUS
<1> HIDE DEF u, q, r, q2, r2, q3, r3
<1>10. CASE c < 2^7
  <2>1. u = <<c>>
    BY <1>10, <1>16
  <2>2. c < 128
    BY <1>5, <1>10
  <2>3. c # 127 => Advance(c) = 1
    BY <1>1, <2>2 DEF Advance
  <2>4. u \in Seq(Nat) /\ Len(u) = 1 /\ u[1] = c
    BY <1>1, <2>1
  <2>5. Len(u) \in 1 .. 4 /\ \A i \in 1 .. Len(u) : u[i] \in Nat /\ u[i] # 0
    BY <1>1, <2>4
  <2>6. Len(u) # 2 /\ Len(u) # 3 /\ Len(u) # 4
    BY <2>4
  <2>7. c # 127 => Advance(u[1]) = Len(u)
    BY <2>3, <2>4, Zenon
  <2>8. u \in Seq(Nat) /\ c = u[1]
    BY <2>4
  <2> QED BY <1>1, <2>5, <2>6, <2>7, <2>8, Zenon DEF Encodes
<1>11. CASE 2^7 <= c /\ c < 2^11
  <2>1. u = <<192 + q, 128 + r>> /\ c < 2048 /\ 128 <= c
    BY <1>1, <1>5, <1>9, <1>11, SMT
  <2>2. q < 32
    BY <1>2, <2>1, SMT
  <2>3. (192 + q) % 32 = q /\ (128 + r) % 64 = r
    BY <1>2, <2>2, LowBits
  <2>4. Advance(192 + q) = 2
    BY <1>2, <2>2 DEF Advance
  <2>5. c = q * 64 + r
    BY <1>2, SMT
  <2>6. u \in Seq(Nat) /\ Len(u) = 2 /\ u[1] = 192 + q /\ u[2] = 128 + r
    BY <1>2, <2>1
  <2>7. u[1] % 32 = q /\ u[2] % 64 = r
    BY <2>3, <2>6, Zenon
  <2>8. Len(u) \in 1 .. 4 /\ \A i \in 1 .. Len(u) : u[i] \in Nat /\ u[i] # 0
    BY <1>2, <2>6
  <2>9. c = Of2(u[1], u[2])
    <3> DEFINE x == u[1] % 32
               y == u[2] % 64
    <3>1. x = q /\ y = r
      BY <2>7
    <3>2. c = x * 64 + y
      <4> HIDE DEF x, y
      <4> QED BY <2>5, <3>1
    <3> QED BY <3>2, Zenon DEF Of2
  <2>10. Advance(u[1]) = Len(u)
    BY <2>4, <2>6, Zenon
  <2>11. Len(u) # 1 /\ Len(u) # 3 /\ Len(u) # 4
    BY <2>6
  <2> QED BY <2>6, <2>8, <2>9, <2>10, <2>11, Zenon DEF Encodes
<1>12. CASE 2^11 <= c /\ c < 2^16
  <2>1. u = <<224 + q2, 128 + r2, 128 + r>> /\ c < 65536
    BY <1>1, <1>5, <1>9, <1>12, SMT
  <2>2. q2 < 16
    BY <1>2, <1>3, <2>1, SMT
  <2>3. (224 + q2) % 16 = q2 /\ (128 + r2) % 64 = r2 /\ (128 + r) % 64 = r
    BY <1>2, <1>3, <2>2, LowBits
  <2>4. Advance(224 + q2) = 3
    BY <1>3, <2>2 DEF Advance
  <2>5. c = q2 * 64^2 + r2 * 64 + r
    BY <1>2, <1>3, <1>5, SMT
  <2>6. /\ u \in Seq(Nat) /\ Len(u) = 3
        /\ u[1] = 224 + q2 /\ u[2] = 128 + r2 /\ u[3] = 128 + r
    BY <1>2, <1>3, <2>1
  <2>7. u[1] % 16 = q2 /\ u[2] % 64 = r2 /\ u[3] % 64 = r
    BY <2>3, <2>6, Zenon
  <2>8. Len(u) \in 1 .. 4 /\ \A i \in 1 .. Len(u) : u[i] \in Nat /\ u[i] # 0
    BY <1>2, <1>3, <2>6
  <2>9. c = Of3(u[1], u[2], u[3])
    <3> DEFINE x == u[1] % 16
               y == u[2] % 64
               z == u[3] % 64
    <3>1. x = q2 /\ y = r2 /\ z = r
      BY <2>7
    <3>2. c = x * 64^2 + y * 64 + z
      <4> HIDE DEF x, y, z
      <4> QED BY <2>5, <3>1
    <3> QED BY <3>2, Zenon DEF Of3
  <2>10. Advance(u[1]) = Len(u)
    BY <2>4, <2>6, Zenon
  <2>11. Len(u) # 1 /\ Len(u) # 2 /\ Len(u) # 4
    BY <2>6
  <2> QED BY <2>6, <2>8, <2>9, <2>10, <2>11, Zenon DEF Encodes
<1>13. CASE 2^16 <= c
  <2>1. u = <<240 + q3, 128 + r3, 128 + r2, 128 + r>> /\ c < 17 * 65536
    BY <1>1, <1>5, <1>9, <1>13, SMT
  <2>2. q3 < 8
    BY <1>2, <1>3, <1>4, <2>1, SMT
  <2>3. /\ (240 + q3) % 8 = q3 /\ (128 + r3) % 64 = r3 /\ (128 + r2) % 64 = r2
        /\ (128 + r) % 64 = r
    BY <1>2, <1>3, <1>4, <2>2, LowBits
  <2>4. Advance(240 + q3) = 4
    BY <1>4, <2>2 DEF Advance
  <2>5. c = q3 * 64^3 + r3 * 64^2 + r2 * 64 + r
    BY <1>2, <1>3, <1>4, <1>5, SMT
  <2>6. /\ u \in Seq(Nat) /\ Len(u) = 4 /\ u[1] = 240 + q3 /\ u[2] = 128 + r3
        /\ u[3] = 128 + r2 /\ u[4] = 128 + r
    BY <1>2, <1>3, <1>4, <2>1
  <2>7. u[1] % 8 = q3 /\ u[2] % 64 = r3 /\ u[3] % 64 = r2 /\ u[4] % 64 = r
    BY <2>3, <2>6, Zenon
  <2>8. Len(u) \in 1 .. 4 /\ \A i \in 1 .. Len(u) : u[i] \in Nat /\ u[i] # 0
    BY <1>2, <1>3, <1>4, <2>6
  <2>9. c = Of4(u[1], u[2], u[3], u[4])
    <3> DEFINE x == u[1] % 8
               y == u[2] % 64
               z == u[3] % 64
               w == u[4] % 64
    <3>1. x = q3 /\ y = r3 /\ z = r2 /\ w = r
      BY <2>7
    <3>2. c = x * 64^3 + y * 64^2 + z * 64 + w
      <4> HIDE DEF x, y, z, w
      <4> QED BY <2>5, <3>1
    <3> QED BY <3>2, Zenon DEF Of4
  <2>10. Advance(u[1]) = Len(u)
    BY <2>4, <2>6, Zenon
  <2>11. Len(u) # 1 /\ Len(u) # 2 /\ Len(u) # 3
    BY <2>6
  <2> QED BY <2>6, <2>8, <2>9, <2>10, <2>11, Zenon DEF Encodes
<1>14. c < 2^7 \/ (2^7 <= c /\ c < 2^11) \/ (2^11 <= c /\ c < 2^16) \/ 2^16 <= c
  BY <1>1, <1>5, SMT
<1> QED BY <1>10, <1>11, <1>12, <1>13, <1>14, Zenon

LEMMA EncodedFacts ==
  ASSUME NEW n \in 0 .. 2, NEW cs \in [1 .. n -> Codepoints]
  PROVE  /\ Len(cs) = n /\ DOMAIN cs = 1 .. n
         /\ n = 0 => cs = <<>> /\ Encoded(cs) = <<>>
         /\ n = 1 => Encoded(cs) = Utf8(cs[1])
         /\ n = 2 => Encoded(cs) = Utf8(cs[1]) \o Utf8(cs[2])
<1> DEFINE seqs == [i \in DOMAIN cs |-> Utf8(cs[i])]
           m == Len(seqs)
           flatten == CHOOSE f : f = [i \in 1 .. m |->
                        IF i = 1 THEN seqs[i] ELSE f[i - 1] \o seqs[i]]
<1>1. DOMAIN cs = 1 .. n /\ n \in Nat /\ Len(cs) = n
  OBVIOUS
<1>2. seqs \in [1 .. n -> {Utf8(cs[i]) : i \in 1 .. n}]
  BY <1>1
<1>3. m = n
  BY <1>1, <1>2, SequenceOf
<1>4. \A i \in 1 .. n : seqs[i] = Utf8(cs[i])
  BY <1>1
<1>5. Encoded(cs) = FlattenSeq(seqs)
  BY DEF Encoded
<1> HIDE DEF seqs
<1>6. FlattenSeq(seqs) = IF m = 0 THEN seqs ELSE flatten[m]
  BY DEF FlattenSeq
<1>7. CASE n = 0
  <2>1. cs = <<>>
    BY <1>7
  <2>2. seqs = <<>>
    BY <1>2, <1>7
  <2>3. Encoded(cs) = <<>>
    BY <1>3, <1>5, <1>6, <1>7, <2>2, Zenon
  <2> QED BY <1>1, <1>7, <2>1, <2>3
<1>8. CASE n = 1
  <2> DEFINE g == [i \in 1 .. m |-> seqs[1]]
  <2>1. g = [i \in 1 .. m |-> IF i = 1 THEN seqs[i] ELSE g[i - 1] \o seqs[i]]
    BY <1>3, <1>8
  <2>2. flatten = [i \in 1 .. m |-> IF i = 1 THEN seqs[i] ELSE flatten[i - 1] \o seqs[i]]
    <3> HIDE DEF g, m
    <3> QED BY <2>1, Zenon
  <2> HIDE DEF flatten, g
  <2>3. flatten[1] = seqs[1]
    BY <1>3, <1>8, <2>2
  <2> QED BY <1>1, <1>3, <1>4, <1>5, <1>6, <1>8, <2>3
<1>9. CASE n = 2
  <2> DEFINE g == [i \in 1 .. m |-> IF i = 1 THEN seqs[1] ELSE seqs[1] \o seqs[2]]
  <2>1. g = [i \in 1 .. m |-> IF i = 1 THEN seqs[i] ELSE g[i - 1] \o seqs[i]]
    BY <1>3, <1>9
  <2>2. flatten = [i \in 1 .. m |-> IF i = 1 THEN seqs[i] ELSE flatten[i - 1] \o seqs[i]]
    <3> HIDE DEF g, m
    <3> QED BY <2>1, Zenon
  <2> HIDE DEF flatten, g
  <2>3. flatten[1] = seqs[1] /\ flatten[2] = flatten[1] \o seqs[2]
    BY <1>3, <1>9, <2>2
  <2> QED BY <1>1, <1>3, <1>4, <1>5, <1>6, <1>9, <2>3
<1> QED BY <1>1, <1>7, <1>8, <1>9

\* g has the places that cstr_utf8_nlen comes to.
Steps(g, s) ==
  /\ g \in [0 .. Len(s) + 1 -> Nat] /\ g[0] = 0
  /\ \A k \in 1 .. Len(s) + 1 : g[k] = g[k - 1] + Advance(At(s, g[k - 1]))

CountedBy(g, s, max_len) ==
  LET stops == {k \in 0 .. Len(s) + 1 :
                  k = max_len \/ g[k] >= Len(s) \/ Advance(At(s, g[k])) = 0}
      len == Min(stops)
  IN CASE len = max_len \/ g[len] = Len(s)      -> len
       [] len # max_len /\ g[len] > Len(s)      -> out_of_bounds
       [] OTHER                                 -> 0

LEMMA StepsExist ==
  ASSUME NEW s \in Seq(Nat), NEW max_len
  PROVE  \E g : Steps(g, s) /\ cstr_utf8_nlen(s, max_len) = CountedBy(g, s, max_len)
<1> DEFINE n == Len(s) + 1
           step == [k \in 1 .. n |-> [v \in Nat |-> v + Advance(At(s, v))]]
           place == CHOOSE f : f = [k \in 0 .. n |->
                      IF k = 0 THEN 0 ELSE f[k - 1] + Advance(At(s, f[k - 1]))]
<1>1. n \in Nat /\ \A v \in Nat : v + Advance(At(s, v)) \in Nat
  <2>1. \A x \in Nat : Advance(x) \in Nat
    BY DEF Advance
  <2>2. ASSUME NEW v \in Nat PROVE At(s, v) \in Nat
    <3>1. v < Len(s) => v + 1 \in 1 .. Len(s)
      OBVIOUS
    <3> QED BY <3>1 DEF At, nul
  <2>3. ASSUME NEW v \in Nat PROVE v + Advance(At(s, v)) \in Nat
    <3>1. Advance(At(s, v)) \in Nat
      BY <2>1, <2>2, Zenon
    <3> QED BY <3>1
  <2>4. n \in Nat
    OBVIOUS
  <2> QED BY <2>3, <2>4, Zenon
<1>2. \A k \in 1 .. n, v \in Nat : step[k][v] = v + Advance(At(s, v))
  OBVIOUS
<1>3. \E g \in [0 .. n -> Nat] : IsChain(g, n, 0, step)
  <2>1. 0 \in Nat /\ \A k \in 1 .. n, v \in Nat : step[k][v] \in Nat
    BY <1>1, <1>2
  <2> HIDE DEF step, n
  <2> QED BY <1>1, <2>1, ChainRecursion, Zenon
<1>4. PICK g \in [0 .. n -> Nat] : g[0] = 0 /\ \A k \in 1 .. n : g[k] = step[k][g[k - 1]]
  BY <1>3 DEF IsChain
<1>5. ASSUME NEW k \in 1 .. n PROVE g[k] = g[k - 1] + Advance(At(s, g[k - 1]))
  <2>1. k - 1 \in 0 .. n
    BY <1>1
  <2>2. g[k - 1] \in Nat
    BY <2>1
  <2> HIDE DEF step, n
  <2> QED BY <1>2, <1>4, <2>2
<1>6. g = [k \in 0 .. n |-> IF k = 0 THEN 0 ELSE g[k - 1] + Advance(At(s, g[k - 1]))]
  <2>1. \A k \in 0 .. n : k # 0 => k \in 1 .. n
    BY <1>1
  <2> HIDE DEF n, step
  <2> QED BY <1>4, <1>5, <2>1
<1>7. place = [k \in 0 .. n |-> IF k = 0 THEN 0 ELSE place[k - 1] + Advance(At(s, place[k - 1]))]
  <2> HIDE DEF n, step
  <2> QED BY <1>6, Zenon
<1>8. cstr_utf8_nlen(s, max_len) = CountedBy(place, s, max_len)
  BY Zenon DEF cstr_utf8_nlen, CountedBy
<1> HIDE DEF place
<1>9. Steps(place, s)
  <2> DEFINE T == {k \in Nat : k \in 0 .. n => place[k] \in Nat}
  <2>1. place[0] = 0 /\ \A k \in 1 .. n : place[k] = place[k - 1] + Advance(At(s, place[k - 1]))
    <3>1. 0 \in 0 .. n /\ \A k \in 1 .. n : k \in 0 .. n /\ k # 0
      BY <1>1
    <3> HIDE DEF n, step
    <3> QED BY <1>7, <3>1
  <2>2. 0 \in T
    BY <2>1
  <2>3. ASSUME NEW k \in T PROVE k + 1 \in T
    <3> SUFFICES ASSUME k + 1 \in 0 .. n PROVE place[k + 1] \in Nat
      OBVIOUS
    <3>1. k \in Nat /\ k \in 0 .. n /\ k + 1 \in 1 .. n /\ (k + 1) - 1 = k
      BY <1>1
    <3>2. place[k] \in Nat
      BY <3>1
    <3>3. place[k + 1] = place[k] + Advance(At(s, place[k]))
      BY <2>1, <3>1
    <3> QED BY <1>1, <3>2, <3>3
  <2>4. \A k \in 0 .. n : place[k] \in Nat
    <3>1. T \subseteq Nat
      OBVIOUS
    <3>2. \A k \in Nat : k \in T
      <4> HIDE DEF T
      <4> QED BY <2>2, <2>3, <3>1, AllNaturals
    <3> QED BY <1>1, <3>2
  <2>5. place \in [0 .. n -> Nat]
    <3> HIDE DEF n, step
    <3> QED BY <1>7, <2>4
  <2> QED BY <2>1, <2>5 DEF Steps
<1> QED BY <1>8, <1>9

\* The walk steps from character to character and ends at the NUL.
LEMMA StepsCounted ==
  ASSUME NEW s \in Seq(Nat), NEW g, Steps(g, s), NEW n \in 0 .. 2, n <= Len(s),
         NEW max_len \in Nat, 2 < max_len,
         \A k \in 0 .. n - 1 : g[k] < Len(s) /\ Advance(At(s, g[k])) # 0,
         g[n] = Len(s)
  PROVE  CountedBy(g, s, max_len) = n
<1> DEFINE l == Len(s)
           stops == {k \in 0 .. l + 1 : k = max_len \/ g[k] >= l \/ Advance(At(s, g[k])) = 0}
           len == Min(stops)
<1>1. l \in Nat /\ g \in [0 .. l + 1 -> Nat]
  BY DEF Steps
<1>2. n \in stops
  BY <1>1
<1>3. \A k \in stops : ~ (k < n)
  <2> SUFFICES ASSUME NEW k \in stops, k < n PROVE FALSE
    OBVIOUS
  <2>1. k \in 0 .. l + 1 /\ (k = max_len \/ g[k] >= l \/ Advance(At(s, g[k])) = 0)
    OBVIOUS
  <2>2. k \in 0 .. n - 1 /\ k # max_len /\ g[k] \in Nat
    BY <1>1, <2>1
  <2>3. g[k] < l /\ Advance(At(s, g[k])) # 0
    BY <2>2
  <2> HIDE DEF stops, l
  <2> QED BY <1>1, <2>1, <2>2, <2>3
<1>4. len \in stops /\ \A k \in stops : len <= k
  <2>1. stops \subseteq Nat /\ stops # {}
    BY <1>1, <1>2
  <2> HIDE DEF stops
  <2> QED BY <2>1, LeastIsThere
<1>5. len = n
  <2>1. stops \subseteq Nat
    BY <1>1
  <2>2. len \in Nat /\ len <= n /\ ~ (len < n)
    BY <1>2, <1>3, <1>4, <2>1
  <2> HIDE DEF len, stops
  <2> QED BY <2>2
<1>6. CountedBy(g, s, max_len) = CASE len = max_len \/ g[len] = l -> len
                                   [] len # max_len /\ g[len] > l -> out_of_bounds
                                   [] OTHER -> 0
  BY DEF CountedBy
<1>7. ~ (g[len] > l)
  BY <1>1, <1>5
<1> HIDE DEF len, l
<1> QED BY <1>5, <1>6, <1>7 DEF l

\* The first character of a text, and where the next one is.
LEMMA FirstDecoded ==
  ASSUME NEW c, IsCodepoint(c), c # 127, NEW s \in Seq(Nat), Len(Utf8(c)) <= Len(s),
         \A i \in 1 .. Len(Utf8(c)) : s[i] = Utf8(c)[i]
  PROVE  /\ bytes_to_codepoint(s, 0).codepoint = c
         /\ bytes_to_codepoint(s, 0).advance = Len(Utf8(c))
<1> DEFINE u == Utf8(c)
           n == Len(u)
           first == At(s, 0)
<1>1. Encodes(u, c)
  BY Utf8Encodes
<1> HIDE DEF u
<1>2. n \in 1 .. 4 /\ Advance(u[1]) = n
  BY <1>1 DEF Encodes
<1>3. ASSUME NEW i \in 1 .. n PROVE At(s, i - 1) = u[i]
  <2>1. i - 1 < Len(s) /\ (i - 1) + 1 = i /\ s[i] = u[i]
    BY <1>2 DEF u
  <2> QED BY <2>1 DEF At
<1>4. /\ At(s, 0) = u[1]
      /\ n >= 2 => At(s, 0 + 1) = u[2]
      /\ n >= 3 => At(s, 0 + 2) = u[3]
      /\ n >= 4 => At(s, 0 + 3) = u[4]
  <2>1. 1 - 1 = 0 /\ 2 - 1 = 0 + 1 /\ 3 - 1 = 0 + 2 /\ 4 - 1 = 0 + 3
    OBVIOUS
  <2>2. /\ 1 \in 1 .. n
        /\ n >= 2 => 2 \in 1 .. n
        /\ n >= 3 => 3 \in 1 .. n
        /\ n >= 4 => 4 \in 1 .. n
    BY <1>2
  <2>3. /\ At(s, 1 - 1) = u[1]
        /\ n >= 2 => At(s, 2 - 1) = u[2]
        /\ n >= 3 => At(s, 3 - 1) = u[3]
        /\ n >= 4 => At(s, 4 - 1) = u[4]
    <3> HIDE DEF n
    <3> QED BY <1>3, <2>2, Zenon
  <2> QED BY <2>1, <2>3
<1>5. Advance(first) = n
  BY <1>2, <1>4, Zenon
<1> DEFINE d == bytes_to_codepoint(s, 0)
           low1 == At(s, 0 + 1)
           low2 == At(s, 0 + 2)
           low3 == At(s, 0 + 3)
<1>6. /\ d.advance = Advance(first)
      /\ d.codepoint =
           CASE Advance(first) = 1 -> first
             [] Advance(first) = 2 -> Of2(first, low1)
             [] Advance(first) = 3 -> Of3(first, low1, low2)
             [] Advance(first) = 4 -> Of4(first, low1, low2, low3)
             [] OTHER -> 0
  BY Zenon DEF bytes_to_codepoint, Of2, Of3, Of4
<1> HIDE DEF d, first, low1, low2, low3
<1>7. d.codepoint = CASE n = 1 -> first
                      [] n = 2 -> Of2(first, low1)
                      [] n = 3 -> Of3(first, low1, low2)
                      [] n = 4 -> Of4(first, low1, low2, low3)
                      [] OTHER -> 0
  BY <1>5, <1>6
<1>8. /\ n = 1 => c = u[1]
      /\ n = 2 => c = Of2(u[1], u[2])
      /\ n = 3 => c = Of3(u[1], u[2], u[3])
      /\ n = 4 => c = Of4(u[1], u[2], u[3], u[4])
  BY <1>1 DEF Encodes
<1>9. /\ first = u[1]
      /\ n = 2 => low1 = u[2]
      /\ n = 3 => low1 = u[2] /\ low2 = u[3]
      /\ n = 4 => low1 = u[2] /\ low2 = u[3] /\ low3 = u[4]
  <2> HIDE DEF n
  <2>1. (n = 2 => n >= 2) /\ (n = 3 => n >= 2 /\ n >= 3) /\ (n = 4 => n >= 2 /\ n >= 3 /\ n >= 4)
    OBVIOUS
  <2> QED BY <1>4, <2>1, Zenon DEF first, low1, low2, low3
<1>10. d.codepoint = c
  <2> HIDE DEF n
  <2>1. CASE n = 1
    BY <1>7, <1>8, <1>9, <2>1
  <2>2. CASE n = 2
    BY <1>7, <1>8, <1>9, <2>2
  <2>3. CASE n = 3
    BY <1>7, <1>8, <1>9, <2>3
  <2>4. CASE n = 4
    BY <1>7, <1>8, <1>9, <2>4
  <2> QED BY <1>2, <2>1, <2>2, <2>3, <2>4
<1> QED BY <1>5, <1>6, <1>10 DEF d, u

LEMMA CodepointArgument ==
  ASSUME call \in Calls, call.f = "cstr_utf8"
  PROVE  /\ \E n \in 0 .. 2 : call.s \in [1 .. n -> Codepoints]
         /\ \A c \in Codepoints : IsCodepoint(c)
<1>1. \E n \in 0 .. 2 : call.s \in [1 .. n -> Codepoints]
  BY DEF Calls
<1>2. \A c \in Codepoints : IsCodepoint(c)
  BY CodepointsAssumption DEF IsCodepoint
<1> QED BY <1>1, <1>2

LEMMA CaseArgument ==
  ASSUME call \in Calls, call.f = "cstr_case"
  PROVE  call.c \in 0 .. 255
  BY DEF Calls

\* One character behind another.
Follows(s, u, v) ==
  /\ s \in Seq(Nat) /\ Len(s) = Len(u) + Len(v)
  /\ \A i \in 1 .. Len(u) : s[i] = u[i]
  /\ \A i \in 1 .. Len(v) : s[Len(u) + i] = v[i]

\* What is decoded of a text of up to two characters.
Decoded(cs, s) ==
  /\ cstr_utf8_nlen(s, U64_MAX) = Len(cs)
  /\ (s = <<>>) = (cs = <<>>)
  /\ cs # <<>> => /\ bytes_to_codepoint(s, 0).codepoint = cs[1]
                  /\ bytes_to_codepoint(s, 0).advance = Len(Utf8(cs[1]))

LEMMA TextDecoded ==
  ASSUME NEW n \in 0 .. 2, NEW cs \in [1 .. n -> Codepoints],
         \A c \in Codepoints : IsCodepoint(c),
         \A i \in 1 .. n : cs[i] # 127
  PROVE  Decoded(cs, Encoded(cs))
<1> DEFINE s == Encoded(cs)
           u == Utf8(cs[1])
           v == Utf8(cs[2])
<1>1. /\ Len(cs) = n /\ DOMAIN cs = 1 .. n
      /\ n = 0 => cs = <<>> /\ s = <<>>
      /\ n = 1 => s = u
      /\ n = 2 => s = u \o v
  BY EncodedFacts
<1> HIDE DEF s
<1>2. 2 < U64_MAX /\ U64_MAX \in Nat
  BY Widest
<1>3. n >= 1 => /\ u \in Seq(Nat) /\ Len(u) \in 1 .. 4 /\ Advance(u[1]) = Len(u)
                /\ IsCodepoint(cs[1]) /\ cs[1] # 127
  <2> SUFFICES ASSUME n >= 1
               PROVE  /\ u \in Seq(Nat) /\ Len(u) \in 1 .. 4 /\ Advance(u[1]) = Len(u)
                      /\ IsCodepoint(cs[1]) /\ cs[1] # 127
    OBVIOUS
  <2>1. IsCodepoint(cs[1]) /\ cs[1] # 127
    OBVIOUS
  <2>2. Encodes(u, cs[1])
    BY <2>1, Utf8Encodes
  <2> HIDE DEF u
  <2> QED BY <2>1, <2>2 DEF Encodes
<1>4. n = 2 => v \in Seq(Nat) /\ Len(v) \in 1 .. 4 /\ Advance(v[1]) = Len(v)
  <2> SUFFICES ASSUME n = 2 PROVE v \in Seq(Nat) /\ Len(v) \in 1 .. 4 /\ Advance(v[1]) = Len(v)
    OBVIOUS
  <2>1. IsCodepoint(cs[2]) /\ cs[2] # 127
    OBVIOUS
  <2>2. Encodes(v, cs[2])
    BY <2>1, Utf8Encodes
  <2> HIDE DEF v
  <2> QED BY <2>1, <2>2 DEF Encodes
<1>5. n = 0 => s \in Seq(Nat) /\ Len(s) = 0
  BY <1>1
<1>6. n = 2 => Follows(s, u, v)
  <2> HIDE DEF u, v
  <2> SUFFICES ASSUME n = 2 PROVE Follows(s, u, v)
    OBVIOUS
  <2>1. u \in Seq(Nat) /\ v \in Seq(Nat) /\ s = u \o v
    BY <1>1, <1>3, <1>4
  <2>2. /\ u \o v \in Seq(Nat) /\ Len(u \o v) = Len(u) + Len(v)
        /\ \A i \in 1 .. Len(u) : (u \o v)[i] = u[i]
        /\ \A i \in 1 .. Len(v) : (u \o v)[Len(u) + i] = v[i]
    BY <2>1, ConcatFacts
  <2> QED BY <2>1, <2>2, Zenon DEF Follows
<1>7. s \in Seq(Nat)
  <2> HIDE DEF u, v
  <2> QED BY <1>1, <1>3, <1>5, <1>6 DEF Follows
<1>8. PICK g : Steps(g, s) /\ cstr_utf8_nlen(s, U64_MAX) = CountedBy(g, s, U64_MAX)
  BY <1>7, StepsExist
<1>9. g[0] = 0 /\ \A k \in 1 .. Len(s) + 1 : g[k] = g[k - 1] + Advance(At(s, g[k - 1]))
  BY <1>8 DEF Steps
<1>10. CountedBy(g, s, U64_MAX) = n
  <2> HIDE DEF u, v
  <2> DEFINE l == Len(s)
  <2>0. \A i \in Nat : i < l => At(s, i) = s[i + 1]
    BY DEF At
  <2>1. CASE n = 0
    <3>1. n <= l /\ g[n] = l /\ \A k \in 0 .. n - 1 : g[k] < l /\ Advance(At(s, g[k])) # 0
      BY <1>5, <1>9, <2>1
    <3> QED BY <1>2, <1>7, <1>8, <3>1, StepsCounted
  <2>2. CASE n = 1
    <3>1. l = Len(u) /\ l \in 1 .. 4 /\ Advance(s[1]) = l
      BY <1>1, <1>3, <2>2
    <3>2. At(s, 0) = s[1]
      <4>1. 0 < l /\ 0 + 1 = 1 /\ 0 \in Nat
        BY <3>1
      <4> HIDE DEF l
      <4> QED BY <2>0, <4>1
    <3>3. g[1] = l
      <4>1. 1 \in 1 .. l + 1 /\ 1 - 1 = 0
        BY <3>1
      <4>2. g[1] = 0 + Advance(At(s, 0))
        BY <1>9, <4>1
      <4> QED BY <3>1, <3>2, <4>2
    <3>4. n <= l /\ g[n] = l /\ \A k \in 0 .. n - 1 : g[k] < l /\ Advance(At(s, g[k])) # 0
      <4> HIDE DEF l
      <4> QED BY <1>9, <2>2, <3>1, <3>2, <3>3
    <3> QED BY <1>2, <1>7, <1>8, <3>4, StepsCounted
  <2>3. CASE n = 2
    <3> DEFINE a == Len(u)
               b == Len(v)
    <3>1. /\ a \in 1 .. 4 /\ b \in 1 .. 4 /\ l = a + b
          /\ s[1] = u[1] /\ s[a + 1] = v[1]
          /\ Advance(u[1]) = a /\ Advance(v[1]) = b
      BY <1>3, <1>4, <1>6, <2>3 DEF Follows
    <3> HIDE DEF a, b
    <3>2. At(s, 0) = u[1] /\ At(s, a) = v[1]
      <4>1. 0 < l /\ a < l /\ 0 + 1 = 1 /\ 0 \in Nat /\ a \in Nat
        BY <3>1
      <4> HIDE DEF l
      <4> QED BY <2>0, <3>1, <4>1
    <3>3. g[1] = a
      <4>1. 1 \in 1 .. l + 1 /\ 1 - 1 = 0
        BY <3>1
      <4>2. g[1] = 0 + Advance(At(s, 0))
        BY <1>9, <4>1
      <4> QED BY <3>1, <3>2, <4>2
    <3>4. g[2] = l
      <4>1. 2 \in 1 .. l + 1 /\ 2 - 1 = 1
        BY <3>1
      <4>2. g[2] = a + Advance(At(s, a))
        BY <1>9, <3>3, <4>1
      <4> QED BY <3>1, <3>2, <4>2
    <3>5. ASSUME NEW k \in 0 .. n - 1 PROVE g[k] < l /\ Advance(At(s, g[k])) # 0
      <4>1. k = 0 \/ k = 1
        BY <2>3
      <4> HIDE DEF l
      <4>2. CASE k = 0
        BY <1>9, <3>1, <3>2, <4>2
      <4>3. CASE k = 1
        BY <3>1, <3>2, <3>3, <4>3
      <4> QED BY <4>1, <4>2, <4>3
    <3>6. n <= l /\ g[n] = l
      BY <2>3, <3>1, <3>4
    <3> QED BY <1>2, <1>7, <1>8, <3>5, <3>6, StepsCounted
  <2> QED BY <2>1, <2>2, <2>3
<1>11. n >= 1 => Len(u) <= Len(s) /\ \A i \in 1 .. Len(u) : s[i] = u[i]
  <2> HIDE DEF u, v
  <2>1. CASE n = 1
    BY <1>1, <1>3, <2>1
  <2>2. CASE n = 2
    BY <1>3, <1>4, <1>6, <2>2 DEF Follows
  <2> QED BY <2>1, <2>2
<1>12. n >= 1 => /\ bytes_to_codepoint(s, 0).codepoint = cs[1]
                 /\ bytes_to_codepoint(s, 0).advance = Len(u)
  BY <1>3, <1>7, <1>11, FirstDecoded
<1>13. (s = <<>>) = (cs = <<>>)
  <2> HIDE DEF u, v
  <2>1. n = 0 => s = <<>> /\ cs = <<>>
    BY <1>1
  <2>2. n >= 1 => Len(s) # 0 /\ Len(cs) # 0
    BY <1>1, <1>3, <1>7, <1>11
  <2> QED BY <2>1, <2>2
<1>14. cs # <<>> => n >= 1
  BY <1>1
<1> QED BY <1>1, <1>8, <1>10, <1>12, <1>13, <1>14, Zenon DEF Decoded, s, u

LEMMA CharactersKept == TextAnswered => Characters
<1> SUFFICES ASSUME TextAnswered PROVE Characters
  OBVIOUS
<1>1. ASSUME Returned("cstr_case")
      PROVE  /\ result.blank[1] = result.blank[2] /\ result.blank[2] = result.blank[3]
             /\ IF call.c >= 128 THEN result.lower = call.c /\ result.upper = call.c
                ELSE codepoint_is_alpha(call.c) =>
                       /\ codepoint_is_lower(result.lower) /\ codepoint_is_upper(result.upper)
                       /\ call.c \in {result.lower, result.upper}
  <2> DEFINE c == call.c
             lower == cstr_to_lower(<<c>>)[1]
             upper == cstr_to_upper(<<c>>)[1]
             b1 == codepoint_is_space(char(c))
             b2 == char_is_whitespace(char(c))
             b3 == codepoint_is_whitespace(char(c))
  <2>1. c \in 0 .. 255
    BY <1>1, CaseArgument DEF TextAnswered, Returned
  <2>2. result = [lower |-> lower, upper |-> upper, blank |-> <<b1, b2, b3>>]
    BY <1>1, Zenon DEF TextAnswered
  <2>3. /\ b1 = b2 /\ b2 = b3
        /\ IF c >= 128 THEN lower = c /\ upper = c
           ELSE codepoint_is_alpha(c) =>
                  /\ codepoint_is_lower(lower) /\ codepoint_is_upper(upper)
                  /\ c \in {lower, upper}
    <3> HIDE DEF c
    <3> QED BY <2>1, CaseIsKept, Zenon
  <2> HIDE DEF lower, upper, b1, b2, b3, c
  <2>4. /\ result.lower = lower /\ result.upper = upper
        /\ result.blank[1] = b1 /\ result.blank[2] = b2 /\ result.blank[3] = b3
    BY <2>2
  <2> QED BY <2>3, <2>4, Zenon DEF c
<1>2. ASSUME Returned("cstr_utf8")
      PROVE  \/ \E i \in DOMAIN call.s : call.s[i] = 127
             \/ /\ result.len = Len(call.s)
                /\ call.s # <<>> => /\ result.first.codepoint = call.s[1]
                                    /\ result.first.advance = Len(Utf8(call.s[1]))
  <2> DEFINE cs == call.s
             s == Encoded(cs)
  <2>1. /\ \E n \in 0 .. 2 : cs \in [1 .. n -> Codepoints]
        /\ \A c \in Codepoints : IsCodepoint(c)
    BY <1>2, CodepointArgument DEF TextAnswered, Returned
  <2>2. PICK n \in 0 .. 2 : cs \in [1 .. n -> Codepoints]
    BY <2>1
  <2>3. result = [len |-> cstr_utf8_nlen(s, U64_MAX),
                  first |-> IF s = <<>> THEN pending ELSE bytes_to_codepoint(s, 0)]
    BY <1>2, Zenon DEF TextAnswered
  <2> HIDE DEF cs, s
  <2> SUFFICES ASSUME ~ \E i \in DOMAIN cs : cs[i] = 127
               PROVE  /\ result.len = Len(cs)
                      /\ cs # <<>> => /\ result.first.codepoint = cs[1]
                                      /\ result.first.advance = Len(Utf8(cs[1]))
    BY Zenon DEF cs
  <2>4. \A i \in 1 .. n : cs[i] # 127
    <3>1. DOMAIN cs = 1 .. n
      BY <2>2
    <3> QED BY <3>1
  <2>5. Decoded(cs, s)
    BY <2>1, <2>2, <2>4, TextDecoded, Zenon DEF s
  <2>6. /\ cstr_utf8_nlen(s, U64_MAX) = Len(cs)
        /\ cs # <<>> => s # <<>>
        /\ cs # <<>> => /\ bytes_to_codepoint(s, 0).codepoint = cs[1]
                        /\ bytes_to_codepoint(s, 0).advance = Len(Utf8(cs[1]))
    BY <2>5, Zenon DEF Decoded
  <2>7. /\ result.len = cstr_utf8_nlen(s, U64_MAX)
        /\ s # <<>> => result.first = bytes_to_codepoint(s, 0)
    BY <2>3
  <2> QED BY <2>6, <2>7, Zenon
<1> QED BY <1>1, <1>2, Zenon DEF Characters

-----------------------------------------------------------------------------
(***************************************************************************)
(* What is taken from a text.  The folds are chains, and each element more *)
(* is one more step.                                                       *)
(***************************************************************************)
Closed(step, n, V) == \A k \in 1 .. n, v \in V : step[k][v] \in V

\* x is where a chain ends.
EndsChain(x, n, V, base, step) ==
  \E g \in [0 .. n -> V] : IsChain(g, n, base, step) /\ x = g[n]

\* A fold takes the greatest element last, while what it has made is in V; it is
\* a chain.
GoesBack(iter, n, V, base, step) ==
  /\ iter[{}] = base
  /\ \A t \in SUBSET (1 .. n), v \in V :
       t # {} /\ iter[t \ {Max(t)}] = v => iter[t] = step[Max(t)][v]

LEMMA FoldIsChain ==
  ASSUME NEW n \in Nat, NEW V, NEW base \in V, NEW step, NEW iter,
         Closed(step, n, V), GoesBack(iter, n, V, base, step)
  PROVE  EndsChain(iter[1 .. n], n, V, base, step)
<1>0. /\ iter[{}] = base
      /\ \A t \in SUBSET (1 .. n), v \in V :
           t # {} /\ iter[t \ {Max(t)}] = v => iter[t] = step[Max(t)][v]
      /\ \A k \in 1 .. n, v \in V : step[k][v] \in V
  BY Zenon DEF GoesBack, Closed
<1>1. iter[1 .. 0] = base
  BY <1>0, LargestFacts
<1>2. ASSUME NEW k \in 1 .. n, iter[1 .. k - 1] \in V
      PROVE  iter[1 .. k] = step[k][iter[1 .. k - 1]] /\ iter[1 .. k] \in V
  <2>1. 1 .. k \in SUBSET (1 .. n) /\ 1 .. k # {} /\ Max(1 .. k) = k /\ (1 .. k) \ {k} = 1 .. k - 1
    BY LargestFacts
  <2> DEFINE D == 1 .. k
             v == iter[1 .. k - 1]
  <2>2. iter[D] = step[Max(D)][v]
    <3>1. D \in SUBSET (1 .. n) /\ v \in V /\ D # {} /\ iter[D \ {Max(D)}] = v
      BY <1>2, <2>1, Zenon
    <3> HIDE DEF D, v
    <3> QED BY <1>0, <3>1, Zenon
  <2>3. iter[1 .. k] = step[k][v] /\ v \in V
    BY <1>2, <2>1, <2>2, Zenon
  <2> HIDE DEF v
  <2>4. step[k][v] \in V
    BY <1>0, <2>3, Zenon
  <2> QED BY <2>3, <2>4, Zenon DEF v
<1> DEFINE g == [k \in 0 .. n |-> iter[1 .. k]]
<1>3. /\ g[0] = iter[1 .. 0] /\ g[n] = iter[1 .. n]
      /\ \A k \in 1 .. n : g[k] = iter[1 .. k] /\ g[k - 1] = iter[1 .. k - 1]
  OBVIOUS
<1>4. g = [k \in 0 .. n |-> g[k]]
  OBVIOUS
<1> HIDE DEF g
<1>5. g[0] = base /\ \A k \in 1 .. n : g[k - 1] \in V => g[k] = step[k][g[k - 1]] /\ g[k] \in V
  BY <1>1, <1>2, <1>3, Zenon
<1> DEFINE T == {k \in Nat : k <= n => g[k] \in V}
<1>6. Nat \subseteq T
  <2>1. 0 \in T
    BY <1>5
  <2>2. ASSUME NEW k \in Nat, k \in T PROVE k + 1 \in T
    <3> SUFFICES ASSUME k + 1 <= n PROVE g[k + 1] \in V
      OBVIOUS
    <3>1. k + 1 \in 1 .. n /\ (k + 1) - 1 = k /\ g[k] \in V
      BY <2>2
    <3> QED BY <1>5, <3>1
  <2> HIDE DEF T
  <2> QED BY <2>1, <2>2, AllNaturals
<1>7. \A k \in 0 .. n : g[k] \in V
  BY <1>6
<1>8. g \in [0 .. n -> V]
  BY <1>4, <1>7
<1>9. IsChain(g, n, base, step)
  <2>1. \A k \in 1 .. n : k - 1 \in 0 .. n
    OBVIOUS
  <2> QED BY <1>5, <1>7, <2>1 DEF IsChain
<1> QED BY <1>3, <1>8, <1>9 DEF EndsChain

SameSteps(step, other, n) == \A k \in 1 .. n : step[k] = other[k]

IsNext(x, y, n, V, step) == x \in V /\ y = step[n + 1][x]

\* One step more of the same steps.
LEMMA ChainGoesOn ==
  ASSUME NEW n \in Nat, NEW V, NEW base, NEW step, NEW other, NEW x, NEW y,
         EndsChain(x, n, V, base, step), EndsChain(y, n + 1, V, base, other),
         SameSteps(step, other, n)
  PROVE  IsNext(x, y, n, V, other)
<1>1. PICK g \in [0 .. n -> V] : IsChain(g, n, base, step) /\ x = g[n]
  BY Zenon DEF EndsChain
<1>2. PICK h \in [0 .. n + 1 -> V] : IsChain(h, n + 1, base, other) /\ y = h[n + 1]
  BY Zenon DEF EndsChain
<1>3. g[0] = base /\ \A k \in 1 .. n : g[k] = step[k][g[k - 1]]
  BY <1>1 DEF IsChain
<1>4. h[0] = base /\ \A k \in 1 .. n + 1 : h[k] = other[k][h[k - 1]]
  BY <1>2 DEF IsChain
<1>0. \A k \in 1 .. n : step[k] = other[k]
  BY DEF SameSteps
<1> DEFINE T == {k \in Nat : k <= n => g[k] = h[k]}
<1>5. 0 \in T
  BY <1>3, <1>4
<1>6. ASSUME NEW k \in Nat, k \in T PROVE k + 1 \in T
  <2> SUFFICES ASSUME k + 1 <= n PROVE g[k + 1] = h[k + 1]
    OBVIOUS
  <2>1. k + 1 \in 1 .. n /\ k + 1 \in 1 .. n + 1 /\ (k + 1) - 1 = k /\ g[k] = h[k]
    BY <1>6
  <2> QED BY <1>0, <1>3, <1>4, <2>1
<1>7. Nat \subseteq T
  <2> HIDE DEF T
  <2> QED BY <1>5, <1>6, AllNaturals
<1>8. g[n] = h[n]
  BY <1>7
<1>9. n + 1 \in 1 .. n + 1 /\ (n + 1) - 1 = n /\ n \in 0 .. n
  OBVIOUS
<1> QED BY <1>1, <1>2, <1>4, <1>8, <1>9 DEF IsNext

LEMMA ChainOfNone ==
  ASSUME NEW V, NEW base, NEW step, NEW x, EndsChain(x, 0, V, base, step)
  PROVE  x = base
  BY DEF EndsChain, IsChain

\* A property of sequences that one element more does not end.
LEMMA EachSequence ==
  ASSUME NEW S, NEW P, <<>> \in P, \A p \in Seq(S), c \in S : p \in P => Append(p, c) \in P
  PROVE  Seq(S) \subseteq P
<1> DEFINE T == {k \in Nat : \A p \in Seq(S) : Len(p) = k => p \in P}
<1>1. 0 \in T
  <2>1. \A p \in Seq(S) : Len(p) = 0 => p = <<>>
    OBVIOUS
  <2> QED BY <2>1
<1>2. ASSUME NEW k \in Nat, k \in T PROVE k + 1 \in T
  <2> SUFFICES ASSUME NEW p \in Seq(S), Len(p) = k + 1 PROVE p \in P
    OBVIOUS
  <2> DEFINE q == SubSeq(p, 1, k)
             c == p[k + 1]
  <2>1. q \in Seq(S) /\ Len(q) = k /\ c \in S
    OBVIOUS
  <2>2. Append(q, c) = p
    <3>1. Append(q, c) \in Seq(S) /\ Len(Append(q, c)) = Len(p)
      BY <2>1
    <3>2. \A i \in 1 .. Len(p) : Append(q, c)[i] = p[i]
      BY <2>1
    <3> QED BY <3>1, <3>2, SameSequence
  <2>3. q \in P
    BY <1>2, <2>1
  <2> QED BY <2>1, <2>2, <2>3, Zenon
<1>3. Nat \subseteq T
  <2> HIDE DEF T
  <2> QED BY <1>1, <1>2, AllNaturals
<1> QED BY <1>3

LEMMA AppendFacts ==
  ASSUME NEW S, NEW s \in Seq(S), NEW c \in S
  PROVE  /\ Append(s, c) \in Seq(S) /\ Len(Append(s, c)) = Len(s) + 1
         /\ \A i \in 1 .. Len(s) : Append(s, c)[i] = s[i]
         /\ Append(s, c)[Len(s) + 1] = c
  OBVIOUS

InkStep(a, c) == IF codepoint_is_space(c) THEN a ELSE Append(a, c)

InkSteps(s) == [k \in 1 .. Len(s) |-> [a \in Seq(Byte) |-> InkStep(a, s[k])]]

LEMMA InkIsChain ==
  ASSUME NEW s \in Seq(Byte)
  PROVE  EndsChain(Ink(s), Len(s), Seq(Byte), <<>>, InkSteps(s))
<1> DEFINE n == Len(s)
           S == 1 .. n
           V == Seq(Byte)
           step == InkSteps(s)
           iter == CHOOSE f : f = [t \in SUBSET S |->
                     IF t = {} THEN <<>> ELSE InkStep(f[t \ {Max(t)}], s[Max(t)])]
<1>1. DOMAIN s = S /\ n \in Nat /\ \A k \in S : s[k] \in Byte
  OBVIOUS
<1>2. \A a \in V, c \in Byte : InkStep(a, c) \in V
  BY DEF InkStep
<1>3. \A k \in S, a \in V : step[k][a] = InkStep(a, s[k]) /\ step[k][a] \in V
  <2>1. \A k \in S, a \in V : step[k][a] = InkStep(a, s[k])
    BY DEF InkSteps
  <2> HIDE DEF S, step, V
  <2> QED BY <1>1, <1>2, <2>1, Zenon
<1>4. Ink(s) = iter[S]
  BY <1>1 DEF Ink, FoldLeft, MapThenFoldSet, InkStep
<1> HIDE DEF n, step
<1>5. PICK f \in [SUBSET S -> V] :
        \A t \in SUBSET S : f[t] = IF t = {} THEN <<>> ELSE step[Max(t)][f[t \ {Max(t)}]]
  <2>1. <<>> \in V
    OBVIOUS
  <2>2. \E f \in [SUBSET S -> V] : IsFold(f, n, <<>>, step)
    <3>1. n \in Nat /\ \A k \in 1 .. n, a \in V : step[k][a] \in V
      <4> HIDE DEF V
      <4> QED BY <1>1, <1>3
    <3> HIDE DEF V
    <3> QED BY <1>1, <2>1, <3>1, FoldExists, Zenon
  <2> QED BY <2>2, Zenon DEF IsFold
<1>6. \A t \in SUBSET S : t # {} => Max(t) \in S
  BY <1>1, LargestFacts
<1>7. f = [t \in SUBSET S |-> IF t = {} THEN <<>> ELSE InkStep(f[t \ {Max(t)}], s[Max(t)])]
  <2>1. ASSUME NEW t \in SUBSET S, t # {} PROVE f[t] = InkStep(f[t \ {Max(t)}], s[Max(t)])
    <3>1. t \ {Max(t)} \in SUBSET S /\ Max(t) \in S
      BY <1>6, <2>1
    <3>2. f[t \ {Max(t)}] \in V
      <4> HIDE DEF S, V
      <4> QED BY <3>1
    <3> HIDE DEF S, V
    <3> QED BY <1>3, <1>5, <2>1, <3>1, <3>2
  <2> HIDE DEF S, V
  <2> QED BY <1>5, <2>1
<1>8. iter = [t \in SUBSET S |-> IF t = {} THEN <<>> ELSE InkStep(iter[t \ {Max(t)}], s[Max(t)])]
  BY <1>7, Zenon
<1> HIDE DEF iter
<1>9. \A t \in SUBSET S, v \in V :
        t # {} /\ iter[t \ {Max(t)}] = v => iter[t] = step[Max(t)][v]
  <2> SUFFICES ASSUME NEW t \in SUBSET S, NEW v \in V, t # {}, iter[t \ {Max(t)}] = v
               PROVE  iter[t] = step[Max(t)][v]
    OBVIOUS
  <2> HIDE DEF S, V
  <2>1. iter[t] = InkStep(v, s[Max(t)])
    BY <1>8
  <2>2. Max(t) \in S
    BY <1>6
  <2> QED BY <1>3, <2>1, <2>2, Zenon
<1>10. iter[{}] = <<>> /\ <<>> \in V
  BY <1>8
<1>11. Closed(step, n, V)
  <2> HIDE DEF V
  <2> QED BY <1>3 DEF Closed
<1>12. GoesBack(iter, n, V, <<>>, step)
  <2> HIDE DEF V
  <2> QED BY <1>9, <1>10, Zenon DEF GoesBack
<1>13. EndsChain(iter[1 .. n], n, V, <<>>, step)
  <2> HIDE DEF V
  <2> QED BY <1>1, <1>10, <1>11, <1>12, FoldIsChain, Zenon
<1> QED BY <1>4, <1>13, Zenon DEF n, step

LEMMA InkLaws ==
  /\ Ink(<<>>) = <<>>
  /\ \A s \in Seq(Byte) : Ink(s) \in Seq(Byte)
  /\ \A s \in Seq(Byte), c \in Byte : Ink(Append(s, c)) = InkStep(Ink(s), c)
<1>1. Ink(<<>>) = <<>>
  <2>1. <<>> \in Seq(Byte) /\ Len(<<>>) = 0
    OBVIOUS
  <2> QED BY <2>1, InkIsChain, ChainOfNone
<1>2. ASSUME NEW s \in Seq(Byte), NEW c \in Byte
      PROVE  Ink(s) \in Seq(Byte) /\ Ink(Append(s, c)) = InkStep(Ink(s), c)
  <2> DEFINE u == Append(s, c)
             n == Len(s)
             V == Seq(Byte)
  <2>1. /\ u \in Seq(Byte) /\ Len(u) = n + 1 /\ n \in Nat /\ u[n + 1] = c
        /\ \A i \in 1 .. n : u[i] = s[i]
    BY AppendFacts
  <2>2. EndsChain(Ink(s), n, V, <<>>, InkSteps(s))
    BY InkIsChain
  <2> HIDE DEF u
  <2>3. EndsChain(Ink(u), n + 1, V, <<>>, InkSteps(u))
    BY <2>1, InkIsChain
  <2>4. SameSteps(InkSteps(s), InkSteps(u), n)
    <3>1. \A k \in 1 .. n : k \in 1 .. Len(s) /\ k \in 1 .. Len(u) /\ u[k] = s[k]
      BY <2>1
    <3> QED BY <3>1, Zenon DEF InkSteps, SameSteps
  <2> HIDE DEF n, V
  <2>5. n \in Nat
    BY <2>1
  <2>6. IsNext(Ink(s), Ink(u), n, V, InkSteps(u))
    BY <2>2, <2>3, <2>4, <2>5, ChainGoesOn, Zenon
  <2>7. n + 1 \in 1 .. Len(u)
    BY <2>1
  <2> QED BY <2>1, <2>6, <2>7 DEF u, V, InkSteps, IsNext
<1>3. \A s \in Seq(Byte) : Ink(s) \in Seq(Byte)
  BY <1>2 DEF Byte
<1> QED BY <1>1, <1>2, <1>3

-----------------------------------------------------------------------------
JoinStep(a, e) == a \o e \o <<32>>

JoinSteps(parts) == [k \in 1 .. Len(parts) |-> [a \in Seq(Byte) |-> JoinStep(a, parts[k])]]

LEMMA JoinedIsChain ==
  ASSUME NEW s \in Seq(Seq(Byte))
  PROVE  EndsChain(Joined(s), Len(s), Seq(Byte), <<>>, JoinSteps(s))
<1> DEFINE n == Len(s)
           S == 1 .. n
           V == Seq(Byte)
           step == JoinSteps(s)
           iter == CHOOSE f : f = [t \in SUBSET S |->
                     IF t = {} THEN <<>> ELSE JoinStep(f[t \ {Max(t)}], s[Max(t)])]
<1>1. DOMAIN s = S /\ n \in Nat /\ \A k \in S : s[k] \in V
  OBVIOUS
<1>2. \A a \in V, e \in V : JoinStep(a, e) \in V
  <2>1. <<32>> \in V
    BY DEF Byte
  <2> QED BY <2>1, ConcatFacts DEF JoinStep
<1>3. \A k \in S, a \in V : step[k][a] = JoinStep(a, s[k]) /\ step[k][a] \in V
  <2>1. \A k \in S, a \in V : step[k][a] = JoinStep(a, s[k])
    BY DEF JoinSteps
  <2> HIDE DEF S, step, V
  <2> QED BY <1>1, <1>2, <2>1, Zenon
<1>4. Joined(s) = iter[S]
  BY <1>1 DEF Joined, FoldLeft, MapThenFoldSet, JoinStep
<1> HIDE DEF n, step
<1>5. PICK f \in [SUBSET S -> V] :
        \A t \in SUBSET S : f[t] = IF t = {} THEN <<>> ELSE step[Max(t)][f[t \ {Max(t)}]]
  <2>1. <<>> \in V
    OBVIOUS
  <2>2. \E f \in [SUBSET S -> V] : IsFold(f, n, <<>>, step)
    <3>1. n \in Nat /\ \A k \in 1 .. n, a \in V : step[k][a] \in V
      <4> HIDE DEF V
      <4> QED BY <1>1, <1>3
    <3> HIDE DEF V
    <3> QED BY <1>1, <2>1, <3>1, FoldExists, Zenon
  <2> QED BY <2>2, Zenon DEF IsFold
<1>6. \A t \in SUBSET S : t # {} => Max(t) \in S
  BY <1>1, LargestFacts
<1>7. f = [t \in SUBSET S |-> IF t = {} THEN <<>> ELSE JoinStep(f[t \ {Max(t)}], s[Max(t)])]
  <2>1. ASSUME NEW t \in SUBSET S, t # {} PROVE f[t] = JoinStep(f[t \ {Max(t)}], s[Max(t)])
    <3>1. t \ {Max(t)} \in SUBSET S /\ Max(t) \in S
      BY <1>6, <2>1
    <3>2. f[t \ {Max(t)}] \in V
      <4> HIDE DEF S, V
      <4> QED BY <3>1
    <3> HIDE DEF S, V
    <3> QED BY <1>3, <1>5, <2>1, <3>1, <3>2
  <2> HIDE DEF S, V
  <2> QED BY <1>5, <2>1
<1>8. iter = [t \in SUBSET S |-> IF t = {} THEN <<>> ELSE JoinStep(iter[t \ {Max(t)}], s[Max(t)])]
  BY <1>7, Zenon
<1> HIDE DEF iter
<1>9. \A t \in SUBSET S, v \in V :
        t # {} /\ iter[t \ {Max(t)}] = v => iter[t] = step[Max(t)][v]
  <2> SUFFICES ASSUME NEW t \in SUBSET S, NEW v \in V, t # {}, iter[t \ {Max(t)}] = v
               PROVE  iter[t] = step[Max(t)][v]
    OBVIOUS
  <2> HIDE DEF S, V
  <2>1. iter[t] = JoinStep(v, s[Max(t)])
    BY <1>8
  <2>2. Max(t) \in S
    BY <1>6
  <2> QED BY <1>3, <2>1, <2>2, Zenon
<1>10. iter[{}] = <<>> /\ <<>> \in V
  BY <1>8
<1>11. Closed(step, n, V)
  <2> HIDE DEF V
  <2> QED BY <1>3 DEF Closed
<1>12. GoesBack(iter, n, V, <<>>, step)
  <2> HIDE DEF V
  <2> QED BY <1>9, <1>10, Zenon DEF GoesBack
<1>13. EndsChain(iter[1 .. n], n, V, <<>>, step)
  <2> HIDE DEF V
  <2> QED BY <1>1, <1>10, <1>11, <1>12, FoldIsChain, Zenon
<1> QED BY <1>4, <1>13, Zenon DEF n, step

LEMMA JoinedLaws ==
  /\ Joined(<<>>) = <<>>
  /\ \A s \in Seq(Seq(Byte)), c \in Seq(Byte) :
       /\ Joined(s) \in Seq(Byte)
       /\ Joined(Append(s, c)) = Joined(s) \o c \o <<32>>
<1>1. Joined(<<>>) = <<>>
  <2>1. <<>> \in Seq(Seq(Byte)) /\ Len(<<>>) = 0
    OBVIOUS
  <2> QED BY <2>1, JoinedIsChain, ChainOfNone
<1>2. ASSUME NEW s \in Seq(Seq(Byte)), NEW c \in Seq(Byte)
      PROVE  Joined(s) \in Seq(Byte) /\ Joined(Append(s, c)) = JoinStep(Joined(s), c)
  <2> DEFINE u == Append(s, c)
             n == Len(s)
             V == Seq(Byte)
  <2>1. /\ u \in Seq(V) /\ Len(u) = n + 1 /\ n \in Nat /\ u[n + 1] = c
        /\ \A i \in 1 .. n : u[i] = s[i]
    <3>1. s \in Seq(V) /\ c \in V
      OBVIOUS
    <3> HIDE DEF V
    <3> QED BY <3>1, AppendFacts
  <2>2. EndsChain(Joined(s), n, V, <<>>, JoinSteps(s))
    BY JoinedIsChain
  <2> HIDE DEF u
  <2>3. EndsChain(Joined(u), n + 1, V, <<>>, JoinSteps(u))
    BY <2>1, JoinedIsChain
  <2>4. SameSteps(JoinSteps(s), JoinSteps(u), n)
    <3>1. \A k \in 1 .. n : k \in 1 .. Len(s) /\ k \in 1 .. Len(u) /\ u[k] = s[k]
      BY <2>1
    <3> QED BY <3>1, Zenon DEF JoinSteps, SameSteps
  <2> HIDE DEF n, V
  <2>5. n \in Nat
    BY <2>1
  <2>6. IsNext(Joined(s), Joined(u), n, V, JoinSteps(u))
    BY <2>2, <2>3, <2>4, <2>5, ChainGoesOn, Zenon
  <2>7. n + 1 \in 1 .. Len(u)
    BY <2>1
  <2> QED BY <2>1, <2>6, <2>7 DEF u, V, JoinSteps, IsNext
<1> QED BY <1>1, <1>2 DEF JoinStep

-----------------------------------------------------------------------------
LEMMA ConcatAppend ==
  ASSUME NEW S, NEW a \in Seq(S), NEW b \in Seq(S), NEW c \in S
  PROVE  a \o Append(b, c) = Append(a \o b, c)
<1> DEFINE x == a \o Append(b, c)
           y == Append(a \o b, c)
<1>1. x \in Seq(S) /\ y \in Seq(S) /\ Len(x) = Len(y)
  OBVIOUS
<1>2. \A i \in 1 .. Len(x) : x[i] = y[i]
  OBVIOUS
<1> HIDE DEF x, y
<1> QED BY <1>1, <1>2, SameSequence DEF x, y

LEMMA ConcatEmpty ==
  ASSUME NEW S, NEW a \in Seq(S)
  PROVE  a \o <<>> = a /\ <<>> \o a = a
  OBVIOUS

LEMMA InkOfBoth ==
  ASSUME NEW a \in Seq(Byte), NEW b \in Seq(Byte)
  PROVE  Ink(a \o b) = Ink(a) \o Ink(b)
<1> DEFINE P == {p \in Seq(Byte) : Ink(a \o p) = Ink(a) \o Ink(p)}
<1>1. <<>> \in P
  <2>1. Ink(a) \in Seq(Byte) /\ Ink(<<>>) = <<>>
    BY InkLaws
  <2>2. a \o <<>> = a /\ Ink(a) \o <<>> = Ink(a)
    BY <2>1, ConcatEmpty
  <2> QED BY <2>1, <2>2
<1>2. ASSUME NEW p \in Seq(Byte), NEW c \in Byte, p \in P PROVE Append(p, c) \in P
  <2>1. Append(p, c) \in Seq(Byte) /\ a \o p \in Seq(Byte)
    OBVIOUS
  <2>2. Ink(a \o Append(p, c)) = InkStep(Ink(a \o p), c)
    <3>1. a \o Append(p, c) = Append(a \o p, c)
      BY ConcatAppend
    <3> QED BY <2>1, <3>1, InkLaws
  <2>3. Ink(a \o p) = Ink(a) \o Ink(p)
    BY <1>2
  <2>4. Ink(a) \in Seq(Byte) /\ Ink(p) \in Seq(Byte)
    BY InkLaws
  <2>5. InkStep(Ink(a) \o Ink(p), c) = Ink(a) \o InkStep(Ink(p), c)
    <3>1. Ink(a) \o Append(Ink(p), c) = Append(Ink(a) \o Ink(p), c)
      BY <2>4, ConcatAppend
    <3> QED BY <3>1 DEF InkStep
  <2>6. Ink(Append(p, c)) = InkStep(Ink(p), c)
    BY InkLaws
  <2> QED BY <2>1, <2>2, <2>3, <2>5, <2>6, Zenon
<1>3. Seq(Byte) \subseteq P
  <2> HIDE DEF P
  <2> QED BY <1>1, <1>2, EachSequence
<1> QED BY <1>3

LEMMA InkOfBlank ==
  ASSUME NEW b \in Seq(Byte), \A k \in 1 .. Len(b) : codepoint_is_space(b[k])
  PROVE  Ink(b) = <<>>
<1> DEFINE P == {p \in Seq(Byte) :
                   (\A k \in 1 .. Len(p) : codepoint_is_space(p[k])) => Ink(p) = <<>>}
<1>1. <<>> \in P
  BY InkLaws
<1>2. ASSUME NEW p \in Seq(Byte), NEW c \in Byte, p \in P PROVE Append(p, c) \in P
  <2>1. /\ Append(p, c) \in Seq(Byte) /\ Len(Append(p, c)) = Len(p) + 1 /\ Len(p) \in Nat
        /\ \A i \in 1 .. Len(p) : Append(p, c)[i] = p[i]
        /\ Append(p, c)[Len(p) + 1] = c
    BY AppendFacts
  <2> DEFINE u == Append(p, c)
             l == Len(p)
  <2> HIDE DEF u, l
  <2> SUFFICES ASSUME \A k \in 1 .. Len(u) : codepoint_is_space(u[k]) PROVE Ink(u) = <<>>
    BY <2>1 DEF u
  <2>2. \A k \in 1 .. l : codepoint_is_space(p[k])
    BY <2>1 DEF u, l
  <2>3. codepoint_is_space(c)
    <3>1. l + 1 \in 1 .. Len(u) /\ u[l + 1] = c
      BY <2>1 DEF u, l
    <3> QED BY <3>1
  <2>4. Ink(p) = <<>>
    BY <1>2, <2>2 DEF l
  <2> QED BY <2>3, <2>4, InkLaws DEF u, InkStep
<1>3. Seq(Byte) \subseteq P
  <2> HIDE DEF P
  <2> QED BY <1>1, <1>2, EachSequence
<1> QED BY <1>3

\* r is s without the first i and what follows the first j, which is blank.
CutOut(s, r, i, j) ==
  /\ i \in 0 .. Len(s) /\ j \in 0 .. Len(s) /\ i <= j
  /\ r = SubSeq(s, i + 1, j)
  /\ \A k \in 1 .. i : codepoint_is_space(s[k])
  /\ \A k \in j + 1 .. Len(s) : codepoint_is_space(s[k])
  /\ i < j => ~ codepoint_is_space(s[i + 1]) /\ ~ codepoint_is_space(s[j])

LEMMA CharsAreSpaces == \A b \in Byte : codepoint_is_space(char(b)) <=> codepoint_is_space(b)
  BY DEF Byte, codepoint_is_space, char

LEMMA Trimmed ==
  ASSUME NEW s \in Seq(Byte)
  PROVE  \E i, j \in 0 .. Len(s) : CutOut(s, cstr_trim(s), i, j)
<1> DEFINE ink == {i \in DOMAIN s : ~ codepoint_is_space(char(s[i]))}
           n == Len(s)
           a == Min(ink)
           b == Max(ink)
<1>1. DOMAIN s = 1 .. n /\ n \in Nat /\ \A i \in 1 .. n : s[i] \in Byte
  OBVIOUS
<1>2. \A k \in 1 .. n : k \in ink <=> ~ codepoint_is_space(s[k])
  BY <1>1, CharsAreSpaces
<1>3. cstr_trim(s) = IF ink = {} THEN <<>> ELSE SubSeq(s, a, b)
  BY DEF cstr_trim
<1>4. ink \subseteq 1 .. n
  BY <1>1
<1> HIDE DEF ink, n
<1>5. CASE ink = {}
  <2>1. CutOut(s, <<>>, n, n)
    <3>1. n \in 0 .. n /\ ~ (n < n) /\ n <= n /\ \A k \in n + 1 .. n : FALSE
      BY <1>1
    <3>2. SubSeq(s, n + 1, n) = <<>>
      BY <1>1 DEF n
    <3> QED BY <1>2, <1>5, <3>1, <3>2 DEF CutOut, n
  <2>2. n \in 0 .. n
    BY <1>1
  <2> QED BY <1>3, <1>5, <2>1, <2>2, Zenon DEF n
<1>6. CASE ink # {}
  <2>1. a \in ink /\ \A x \in ink : a <= x
    <3>1. ink \subseteq Nat
      BY <1>1, <1>4
    <3> QED BY <1>6, <3>1, LeastIsThere
  <2>2. b \in ink /\ \A x \in ink : x <= b
    <3>1. ink \subseteq 0 .. n
      BY <1>1, <1>4
    <3> QED BY <1>1, <1>6, <3>1, LargestIsThere
  <2> HIDE DEF a, b
  <2>3. a \in 1 .. n /\ b \in 1 .. n /\ a <= b
    BY <1>4, <2>1, <2>2
  <2>4. /\ a - 1 \in 0 .. n /\ b \in 0 .. n /\ a - 1 <= b /\ (a - 1) + 1 = a
    BY <1>1, <2>3
  <2>5. ASSUME NEW k \in 1 .. a - 1 PROVE codepoint_is_space(s[k])
    <3>1. k \in 1 .. n /\ ~ (a <= k)
      BY <1>1, <2>3
    <3> QED BY <1>2, <2>1, <3>1
  <2>6. ASSUME NEW k \in b + 1 .. n PROVE codepoint_is_space(s[k])
    <3>1. k \in 1 .. n /\ ~ (k <= b)
      BY <1>1, <2>3
    <3> QED BY <1>2, <2>2, <3>1
  <2>7. ~ codepoint_is_space(s[a]) /\ ~ codepoint_is_space(s[b])
    BY <1>2, <2>1, <2>2, <2>3
  <2>8. CutOut(s, SubSeq(s, a, b), a - 1, b)
    BY <2>4, <2>5, <2>6, <2>7 DEF CutOut, n
  <2> QED BY <1>3, <1>6, <2>4, <2>8, Zenon DEF n
<1> QED BY <1>5, <1>6

\* A text in three parts, which are cut after i and after j.
InParts(s, i, j, S) ==
  /\ SubSeq(s, 1, i) \in Seq(S) /\ Len(SubSeq(s, 1, i)) = i
  /\ SubSeq(s, i + 1, j) \in Seq(S) /\ Len(SubSeq(s, i + 1, j)) = j - i
  /\ SubSeq(s, j + 1, Len(s)) \in Seq(S) /\ Len(SubSeq(s, j + 1, Len(s))) = Len(s) - j
  /\ \A k \in 1 .. i : SubSeq(s, 1, i)[k] = s[k]
  /\ \A k \in 1 .. j - i : SubSeq(s, i + 1, j)[k] = s[i + k]
  /\ \A k \in 1 .. Len(s) - j : SubSeq(s, j + 1, Len(s))[k] = s[j + k]
  /\ s = SubSeq(s, 1, i) \o SubSeq(s, i + 1, j) \o SubSeq(s, j + 1, Len(s))

LEMMA InThree ==
  ASSUME NEW S, NEW s \in Seq(S), NEW i \in 0 .. Len(s), NEW j \in 0 .. Len(s), i <= j
  PROVE  InParts(s, i, j, S)
<1> DEFINE n == Len(s)
           a == SubSeq(s, 1, i)
           b == SubSeq(s, i + 1, j)
           c == SubSeq(s, j + 1, n)
<1>1. /\ a \in Seq(S) /\ Len(a) = i
      /\ \A k \in 1 .. i : a[k] = s[k]
  OBVIOUS
<1>2. /\ b \in Seq(S) /\ Len(b) = j - i
      /\ \A k \in 1 .. j - i : b[k] = s[i + k]
  OBVIOUS
<1>3. /\ c \in Seq(S) /\ Len(c) = n - j
      /\ \A k \in 1 .. n - j : c[k] = s[j + k]
  OBVIOUS
<1>0. n \in Nat
  OBVIOUS
<1> HIDE DEF a, b, c
<1>4. s = a \o b \o c
  <2> DEFINE d == a \o b
             e == d \o c
  <2>1. /\ d \in Seq(S) /\ Len(d) = j
        /\ \A k \in 1 .. i : d[k] = a[k]
        /\ \A k \in 1 .. j - i : d[i + k] = b[k]
    <3>1. /\ a \o b \in Seq(S) /\ Len(a \o b) = Len(a) + Len(b)
          /\ \A k \in 1 .. Len(a) : (a \o b)[k] = a[k]
          /\ \A k \in 1 .. Len(b) : (a \o b)[Len(a) + k] = b[k]
      <4>1. a \in Seq(S) /\ b \in Seq(S)
        BY <1>1, <1>2
      <4> QED BY <4>1, ConcatFacts
    <3>2. i + (j - i) = j
      BY <1>0
    <3> QED BY <1>1, <1>2, <3>1, <3>2
  <2> HIDE DEF d
  <2>2. /\ e \in Seq(S) /\ Len(e) = n
        /\ \A k \in 1 .. j : e[k] = d[k]
        /\ \A k \in 1 .. n - j : e[j + k] = c[k]
    BY <1>0, <1>3, <2>1, ConcatFacts
  <2> HIDE DEF e
  <2>3. ASSUME NEW k \in 1 .. n PROVE e[k] = s[k]
    <3>1. CASE k <= i
      <4>1. k \in 1 .. i /\ k \in 1 .. j
        BY <1>0, <3>1
      <4> QED BY <1>1, <2>1, <2>2, <4>1
    <3>2. CASE i < k /\ k <= j
      <4>1. k - i \in 1 .. j - i /\ i + (k - i) = k /\ k \in 1 .. j
        BY <1>0, <3>2
      <4>2. d[i + (k - i)] = b[k - i] /\ b[k - i] = s[i + (k - i)] /\ e[k] = d[k]
        BY <1>2, <2>1, <2>2, <4>1
      <4> QED BY <4>1, <4>2
    <3>3. CASE j < k
      <4>1. k - j \in 1 .. n - j /\ j + (k - j) = k
        BY <1>0, <3>3
      <4>2. e[j + (k - j)] = c[k - j] /\ c[k - j] = s[j + (k - j)]
        BY <1>3, <2>2, <4>1
      <4> QED BY <4>1, <4>2
    <3> QED BY <1>0, <3>1, <3>2, <3>3
  <2>4. e = s
    BY <2>2, <2>3, SameSequence
  <2> QED BY <2>4 DEF e, d
<1> QED BY <1>1, <1>2, <1>3, <1>4, Zenon DEF InParts, a, b, c, n

LEMMA TrimKeeps ==
  ASSUME NEW s \in Seq(Byte)
  PROVE  cstr_trim(s) \in Seq(Byte) /\ Ink(cstr_trim(s)) = Ink(s)
<1>1. PICK i, j \in 0 .. Len(s) : CutOut(s, cstr_trim(s), i, j)
  BY Trimmed
<1> DEFINE n == Len(s)
           a == SubSeq(s, 1, i)
           b == cstr_trim(s)
           c == SubSeq(s, j + 1, n)
<1>2. /\ i <= j /\ b = SubSeq(s, i + 1, j)
      /\ \A k \in 1 .. i : codepoint_is_space(s[k])
      /\ \A k \in j + 1 .. n : codepoint_is_space(s[k])
  BY <1>1 DEF CutOut
<1>3. /\ a \in Seq(Byte) /\ Len(a) = i /\ b \in Seq(Byte)
      /\ c \in Seq(Byte) /\ Len(c) = n - j
      /\ \A k \in 1 .. i : a[k] = s[k]
      /\ \A k \in 1 .. n - j : c[k] = s[j + k]
      /\ s = a \o b \o c
  <2> DEFINE m == SubSeq(s, i + 1, j)
  <2>1. /\ a \in Seq(Byte) /\ Len(a) = i /\ m \in Seq(Byte)
        /\ c \in Seq(Byte) /\ Len(c) = n - j
        /\ \A k \in 1 .. i : a[k] = s[k]
        /\ \A k \in 1 .. n - j : c[k] = s[j + k]
        /\ s = a \o m \o c
    <3>1. InParts(s, i, j, Byte)
      BY <1>2, InThree
    <3> QED BY <3>1, Zenon DEF InParts
  <2>2. b = m
    BY <1>2
  <2> HIDE DEF a, b, c, m, n
  <2> QED BY <2>1, <2>2
<1>4. n \in Nat
  OBVIOUS
<1> HIDE DEF a, b, c, n
<1>5. Ink(a) = <<>>
  <2>1. \A k \in 1 .. Len(a) : codepoint_is_space(a[k])
    BY <1>2, <1>3
  <2> QED BY <1>3, <2>1, InkOfBlank
<1>6. Ink(c) = <<>>
  <2>1. ASSUME NEW k \in 1 .. Len(c) PROVE codepoint_is_space(c[k])
    <3>1. j + k \in j + 1 .. n /\ k \in 1 .. n - j
      BY <1>3, <1>4
    <3> QED BY <1>2, <1>3, <3>1
  <2> QED BY <1>3, <2>1, InkOfBlank
<1>7. Ink(s) = Ink(a) \o Ink(b) \o Ink(c)
  <2>1. a \o b \in Seq(Byte)
    BY <1>3
  <2>2. Ink(a \o b \o c) = Ink(a \o b) \o Ink(c)
    BY <1>3, <2>1, InkOfBoth
  <2>3. Ink(a \o b) = Ink(a) \o Ink(b)
    BY <1>3, InkOfBoth
  <2> QED BY <1>3, <2>2, <2>3, Zenon
<1>8. Ink(b) \in Seq(Byte)
  BY <1>3, InkLaws
<1>9. Ink(a) \o Ink(b) \o Ink(c) = Ink(b)
  BY <1>5, <1>6, <1>8, ConcatEmpty
<1> QED BY <1>3, <1>7, <1>9 DEF b

\* What cstr_trim leaves is the text between its blanks.
LEMMA TextTrimmed ==
  ASSUME NEW s \in Seq(Byte)
  PROVE  \E i, j \in 0 .. Len(s) :
           LET r == cstr_trim(s) IN
             /\ s = Begin(s, i) \o r \o SubSeq(s, j + 1, Len(s))
             /\ Blank(Begin(s, i)) /\ Blank(SubSeq(s, j + 1, Len(s)))
             /\ r # <<>> => ~ Blank(Begin(r, 1)) /\ ~ Blank(<<Last(r)>>)
<1>1. PICK i, j \in 0 .. Len(s) : CutOut(s, cstr_trim(s), i, j)
  BY Trimmed
<1> DEFINE n == Len(s)
           r == cstr_trim(s)
           a == SubSeq(s, 1, i)
           b == SubSeq(s, i + 1, j)
           c == SubSeq(s, j + 1, n)
<1>2. /\ i <= j /\ r = b
      /\ \A k \in 1 .. i : codepoint_is_space(s[k])
      /\ \A k \in j + 1 .. n : codepoint_is_space(s[k])
      /\ i < j => ~ codepoint_is_space(s[i + 1]) /\ ~ codepoint_is_space(s[j])
  BY <1>1 DEF CutOut
<1>3. n \in Nat /\ i \in 0 .. n /\ j \in 0 .. n
  BY <1>1
<1>4. /\ a \in Seq(Byte) /\ Len(a) = i
      /\ b \in Seq(Byte) /\ Len(b) = j - i
      /\ c \in Seq(Byte) /\ Len(c) = n - j
      /\ \A k \in 1 .. i : a[k] = s[k]
      /\ \A k \in 1 .. j - i : b[k] = s[i + k]
      /\ \A k \in 1 .. n - j : c[k] = s[j + k]
      /\ s = a \o b \o c
  <2>1. InParts(s, i, j, Byte)
    BY <1>2, InThree
  <2> QED BY <2>1, Zenon DEF InParts
<1>5. Begin(s, i) = a
  <2>1. Min({n, i}) = i
    BY <1>3, LesserOf
  <2> QED BY <2>1 DEF Begin
<1> HIDE DEF r, a, b, c, n
<1>6. Blank(a)
  BY <1>2, <1>4 DEF Blank
<1>7. Blank(c)
  <2>1. DOMAIN c = 1 .. n - j
    BY <1>4
  <2>2. ASSUME NEW k \in 1 .. n - j PROVE codepoint_is_space(c[k])
    <3>1. j + k \in j + 1 .. n
      BY <1>3
    <3> QED BY <1>2, <1>4, <3>1
  <2> QED BY <2>1, <2>2 DEF Blank
<1>8. ASSUME r # <<>> PROVE ~ Blank(Begin(r, 1)) /\ ~ Blank(<<Last(r)>>)
  <2>1. Len(b) # 0
    BY <1>2, <1>4, <1>8
  <2>2. i < j /\ 1 \in 1 .. j - i /\ j - i \in 1 .. j - i /\ i + (j - i) = j
    BY <1>2, <1>3, <1>4, <2>1
  <2>3. b[1] = s[i + 1] /\ b[j - i] = s[j]
    <3>1. b[1] = s[i + 1] /\ b[j - i] = s[i + (j - i)]
      BY <1>4, <2>2
    <3> QED BY <2>2, <3>1
  <2>4. ~ codepoint_is_space(b[1]) /\ ~ codepoint_is_space(b[Len(b)])
    BY <1>2, <1>4, <2>2, <2>3
  <2>5. Len(Begin(b, 1)) = 1 /\ Begin(b, 1)[1] = b[1] /\ 1 \in DOMAIN Begin(b, 1)
    <3>1. Min({Len(b), 1}) = 1
      <4>1. Len(b) \in Nat /\ 1 <= Len(b)
        BY <1>4, <2>1
      <4> QED BY <4>1, LesserOf
    <3>2. Begin(b, 1) = SubSeq(b, 1, 1)
      BY <3>1 DEF Begin
    <3> QED BY <1>4, <2>1, <3>2
  <2>6. ~ Blank(Begin(b, 1))
    BY <2>4, <2>5, Zenon DEF Blank
  <2>7. ~ Blank(<<Last(b)>>)
    <3>1. Last(b) = b[Len(b)]
      BY DEF Last
    <3>2. 1 \in DOMAIN <<Last(b)>> /\ <<Last(b)>>[1] = Last(b)
      OBVIOUS
    <3> QED BY <2>4, <3>1, <3>2, Zenon DEF Blank
  <2> QED BY <1>2, <2>6, <2>7
<1>9. s = a \o r \o c
  BY <1>2, <1>4, Zenon
<1> QED BY <1>3, <1>5, <1>6, <1>7, <1>8, <1>9, Zenon DEF r, c, n

-----------------------------------------------------------------------------
Walk == [entries : Seq(Seq(Byte)), buffer : Seq(Byte)]
start == [entries |-> <<>>, buffer |-> <<>>]

WalkSteps(s, delimiter, trim, empty) ==
  [k \in 1 .. Len(s) |-> [w \in Walk |-> Walked(w, s[k], delimiter, trim, empty)]]

\* The part behind a part that has ended.
LEMMA EntryIsText ==
  ASSUME NEW part \in Seq(Byte), NEW trim
  PROVE  Entry(part, trim) \in Seq(Byte) /\ Ink(Entry(part, trim)) = Ink(part)
  BY TrimKeeps DEF Entry

LEMMA PushedIsArray ==
  ASSUME NEW entries \in Seq(Seq(Byte)), NEW part \in Seq(Byte), NEW trim, NEW empty
  PROVE  /\ Pushed(entries, part, trim, empty) \in Seq(Seq(Byte))
         /\ Len(Pushed(entries, part, trim, empty)) \in {Len(entries), Len(entries) + 1}
<1> DEFINE V == Seq(Byte)
           e == Entry(part, trim)
<1>1. e \in V /\ entries \in Seq(V)
  BY EntryIsText
<1>2. Pushed(entries, part, trim, empty) \in {entries, Append(entries, e)}
  BY DEF Pushed
<1> HIDE DEF V, e
<1>3. Append(entries, e) \in Seq(V) /\ Len(Append(entries, e)) = Len(entries) + 1
  BY <1>1, AppendFacts
<1> QED BY <1>1, <1>2, <1>3 DEF V

LEMMA WalkStays ==
  ASSUME NEW w \in Walk, NEW c \in Byte, NEW delimiter, NEW trim, NEW empty
  PROVE  Walked(w, c, delimiter, trim, empty) \in Walk
<1>1. w.entries \in Seq(Seq(Byte)) /\ w.buffer \in Seq(Byte)
  BY DEF Walk
<1>2. Pushed(w.entries, w.buffer, trim, empty) \in Seq(Seq(Byte))
  BY <1>1, PushedIsArray
<1>3. <<>> \in Seq(Byte) /\ Append(w.buffer, c) \in Seq(Byte)
  BY <1>1
<1>5. CASE c = delimiter
  BY <1>2, <1>3, <1>5 DEF Walked, Walk
<1>6. CASE c # delimiter
  <2>1. Walked(w, c, delimiter, trim, empty) = [w EXCEPT !.buffer = Append(@, c)]
    BY <1>6 DEF Walked
  <2> DEFINE b == Append(w.buffer, c)
  <2>2. [w EXCEPT !.buffer = Append(@, c)] = [w EXCEPT !.buffer = b]
    OBVIOUS
  <2> HIDE DEF b
  <2>3. [w EXCEPT !.buffer = b] \in Walk
    BY <1>3 DEF Walk, b
  <2> QED BY <2>1, <2>2, <2>3
<1> QED BY <1>5, <1>6

LEMMA WalkIsChain ==
  ASSUME NEW s \in Seq(Byte), NEW d, NEW trim, NEW empty
  PROVE  EndsChain(WalkedOver(s, d, trim, empty), Len(s), Walk, start, WalkSteps(s, d, trim, empty))
<1> DEFINE n == Len(s)
           S == 1 .. n
           V == Walk
           step == WalkSteps(s, d, trim, empty)
           iter == CHOOSE f : f = [t \in SUBSET S |->
                     IF t = {} THEN start ELSE Walked(f[t \ {Max(t)}], s[Max(t)], d, trim, empty)]
<1>1. DOMAIN s = S /\ n \in Nat /\ \A k \in S : s[k] \in Byte
  OBVIOUS
<1>2. \A w \in V, c \in Byte : Walked(w, c, d, trim, empty) \in V
  BY WalkStays
<1>3. \A k \in S, w \in V : step[k][w] = Walked(w, s[k], d, trim, empty) /\ step[k][w] \in V
  <2>1. \A k \in S, w \in V : step[k][w] = Walked(w, s[k], d, trim, empty)
    BY DEF WalkSteps
  <2> HIDE DEF S, step, V
  <2> QED BY <1>1, <1>2, <2>1, Zenon
<1>4. WalkedOver(s, d, trim, empty) = iter[S]
  BY <1>1 DEF WalkedOver, FoldLeft, MapThenFoldSet, start
<1> HIDE DEF n, step
<1>5. PICK f \in [SUBSET S -> V] :
        \A t \in SUBSET S : f[t] = IF t = {} THEN start ELSE step[Max(t)][f[t \ {Max(t)}]]
  <2>1. start \in V
    BY DEF start, Walk
  <2>2. \E f \in [SUBSET S -> V] : IsFold(f, n, start, step)
    <3>1. n \in Nat /\ \A k \in 1 .. n, w \in V : step[k][w] \in V
      <4> HIDE DEF V
      <4> QED BY <1>1, <1>3
    <3> HIDE DEF V
    <3> QED BY <1>1, <2>1, <3>1, FoldExists, Zenon
  <2> QED BY <2>2, Zenon DEF IsFold
<1>6. \A t \in SUBSET S : t # {} => Max(t) \in S
  BY <1>1, LargestFacts
<1>7. f = [t \in SUBSET S |->
             IF t = {} THEN start ELSE Walked(f[t \ {Max(t)}], s[Max(t)], d, trim, empty)]
  <2>1. ASSUME NEW t \in SUBSET S, t # {}
        PROVE  f[t] = Walked(f[t \ {Max(t)}], s[Max(t)], d, trim, empty)
    <3>1. t \ {Max(t)} \in SUBSET S /\ Max(t) \in S
      BY <1>6, <2>1
    <3>2. f[t \ {Max(t)}] \in V
      <4> HIDE DEF S, V
      <4> QED BY <3>1
    <3> HIDE DEF S, V
    <3> QED BY <1>3, <1>5, <2>1, <3>1, <3>2
  <2> HIDE DEF S, V
  <2> QED BY <1>5, <2>1
<1>8. iter = [t \in SUBSET S |->
                IF t = {} THEN start ELSE Walked(iter[t \ {Max(t)}], s[Max(t)], d, trim, empty)]
  BY <1>7, Zenon
<1> HIDE DEF iter
<1>9. \A t \in SUBSET S, v \in V :
        t # {} /\ iter[t \ {Max(t)}] = v => iter[t] = step[Max(t)][v]
  <2> SUFFICES ASSUME NEW t \in SUBSET S, NEW v \in V, t # {}, iter[t \ {Max(t)}] = v
               PROVE  iter[t] = step[Max(t)][v]
    OBVIOUS
  <2> HIDE DEF S, V
  <2>1. iter[t] = Walked(v, s[Max(t)], d, trim, empty)
    BY <1>8
  <2>2. Max(t) \in S
    BY <1>6
  <2> QED BY <1>3, <2>1, <2>2, Zenon
<1>10. iter[{}] = start /\ start \in V
  BY <1>8 DEF start, Walk
<1>11. Closed(step, n, V)
  <2> HIDE DEF V
  <2> QED BY <1>3 DEF Closed
<1>12. GoesBack(iter, n, V, start, step)
  <2> HIDE DEF V
  <2> QED BY <1>9, <1>10, Zenon DEF GoesBack
<1>13. EndsChain(iter[1 .. n], n, V, start, step)
  <2> HIDE DEF V
  <2> QED BY <1>1, <1>10, <1>11, <1>12, FoldIsChain, Zenon
<1> QED BY <1>4, <1>13, Zenon DEF n, step

WalksOn(d, trim, empty) ==
  /\ WalkedOver(<<>>, d, trim, empty) = start
  /\ \A s \in Seq(Byte) : WalkedOver(s, d, trim, empty) \in Walk
  /\ \A s \in Seq(Byte), c \in Byte :
       WalkedOver(Append(s, c), d, trim, empty)
         = Walked(WalkedOver(s, d, trim, empty), c, d, trim, empty)

LEMMA WalkLaws ==
  ASSUME NEW d, NEW trim, NEW empty
  PROVE  WalksOn(d, trim, empty)
<1> DEFINE Over(s) == WalkedOver(s, d, trim, empty)
           Steps1(s) == WalkSteps(s, d, trim, empty)
<1>1. Over(<<>>) = start
  <2>1. <<>> \in Seq(Byte) /\ Len(<<>>) = 0
    OBVIOUS
  <2> QED BY <2>1, WalkIsChain, ChainOfNone
<1>2. ASSUME NEW s \in Seq(Byte), NEW c \in Byte
      PROVE  Over(s) \in Walk /\ Over(Append(s, c)) = Walked(Over(s), c, d, trim, empty)
  <2> DEFINE u == Append(s, c)
             n == Len(s)
  <2>1. /\ u \in Seq(Byte) /\ Len(u) = n + 1 /\ n \in Nat /\ u[n + 1] = c
        /\ \A i \in 1 .. n : u[i] = s[i]
    BY AppendFacts
  <2>2. EndsChain(Over(s), n, Walk, start, Steps1(s))
    BY WalkIsChain
  <2> HIDE DEF u
  <2>3. EndsChain(Over(u), n + 1, Walk, start, Steps1(u))
    BY <2>1, WalkIsChain
  <2>4. SameSteps(Steps1(s), Steps1(u), n)
    <3>1. \A k \in 1 .. n : k \in 1 .. Len(s) /\ k \in 1 .. Len(u) /\ u[k] = s[k]
      BY <2>1
    <3> QED BY <3>1, Zenon DEF WalkSteps, SameSteps
  <2> HIDE DEF n
  <2>5. n \in Nat
    BY <2>1
  <2>6. IsNext(Over(s), Over(u), n, Walk, Steps1(u))
    <3> HIDE DEF Over, Steps1
    <3> QED BY <2>2, <2>3, <2>4, <2>5, ChainGoesOn, Zenon
  <2>7. n + 1 \in 1 .. Len(u)
    BY <2>1
  <2> QED BY <2>1, <2>6, <2>7 DEF u, WalkSteps, IsNext
<1>3. \A s \in Seq(Byte) : Over(s) \in Walk
  <2>1. 1 \in Byte
    BY DEF Byte
  <2> QED BY <1>2, <2>1
<1> QED BY <1>1, <1>2, <1>3, Zenon DEF WalksOn

\* What the walk has taken in is what it has put out, without blanks; or the
\* very text, if nothing is trimmed or left out.
Keeps(w, s, trim, empty) ==
  /\ Len(w.entries) <= Len(s)
  /\ Ink(Joined(w.entries) \o w.buffer) = Ink(s)
  /\ empty /\ ~ trim => Joined(w.entries) \o w.buffer = s

\* Of an array with the last part in it.
KeepsAll(kept, s, trim, empty) ==
  /\ kept \in Seq(Seq(Byte)) /\ Len(kept) <= Len(s) + 1
  /\ Ink(Joined(kept)) = Ink(s)
  /\ empty /\ ~ trim => Joined(kept) = s \o <<32>>

LEMMA PushedKeepsAll ==
  ASSUME NEW s \in Seq(Byte), NEW w \in Walk, NEW trim \in BOOLEAN, NEW empty \in BOOLEAN,
         Keeps(w, s, trim, empty)
  PROVE  KeepsAll(Pushed(w.entries, w.buffer, trim, empty), s, trim, empty)
<1> DEFINE V == Seq(Byte)
           J == Joined(w.entries)
           e == Entry(w.buffer, trim)
           kept == Pushed(w.entries, w.buffer, trim, empty)
           blank == <<32>>
<1>1. w.entries \in Seq(V) /\ w.buffer \in V
  BY DEF Walk
<1>2. /\ kept \in Seq(V) /\ Len(kept) \in {Len(w.entries), Len(w.entries) + 1}
      /\ e \in V /\ Ink(e) = Ink(w.buffer)
  BY <1>1, PushedIsArray, EntryIsText
<1>3. blank \in V /\ Ink(blank) = <<>>
  <2>1. blank \in V /\ Len(blank) = 1 /\ \A k \in 1 .. 1 : blank[k] = 32
    BY DEF Byte
  <2>2. codepoint_is_space(32)
    BY DEF codepoint_is_space
  <2> HIDE DEF blank
  <2> QED BY <2>1, <2>2, InkOfBlank
<1>4. J \in V /\ (kept = Append(w.entries, e) => Joined(kept) = J \o e \o blank)
  BY <1>1, <1>2, JoinedLaws
<1>5. /\ Len(w.entries) <= Len(s)
      /\ Ink(J \o w.buffer) = Ink(s)
      /\ empty /\ ~ trim => J \o w.buffer = s
  BY DEF Keeps
<1>6. kept = IF e # <<>> \/ empty THEN Append(w.entries, e) ELSE w.entries
  BY Zenon DEF Pushed
<1>7. Len(kept) <= Len(s) + 1
  <2> HIDE DEF kept
  <2>1. Len(w.entries) \in Nat /\ Len(s) \in Nat
    BY <1>1
  <2> QED BY <1>2, <1>5, <2>1
<1>8. Ink(J) \in V /\ Ink(e) \in V /\ Ink(J \o w.buffer) = Ink(J) \o Ink(w.buffer)
  BY <1>1, <1>2, <1>4, InkLaws, InkOfBoth
<1>9. e = w.buffer \/ trim
  BY DEF Entry
<1> HIDE DEF J, e, kept, blank, V
<1>10. CASE e # <<>> \/ empty
  <2>1. kept = Append(w.entries, e) /\ Joined(kept) = J \o e \o blank
    BY <1>4, <1>6, <1>10
  <2>2. J \o e \in V
    BY <1>2, <1>4 DEF V
  <2>3. Ink(J \o e \o blank) = Ink(J \o e) \o Ink(blank)
    BY <1>3, <2>2, InkOfBoth DEF V
  <2>4. Ink(J \o e) = Ink(J) \o Ink(e) /\ Ink(J \o e) \in V
    BY <1>2, <1>4, <2>2, InkOfBoth, InkLaws DEF V
  <2>5. Ink(J \o e) \o Ink(blank) = Ink(J \o e)
    BY <1>3, <2>4, ConcatEmpty DEF V
  <2>6. Ink(Joined(kept)) = Ink(s)
    BY <1>2, <1>5, <1>8, <2>1, <2>3, <2>4, <2>5, Zenon
  <2>7. empty /\ ~ trim => Joined(kept) = s \o <<32>>
    BY <1>5, <1>9, <2>1, Zenon DEF blank
  <2> QED BY <1>2, <1>7, <2>6, <2>7, Zenon DEF KeepsAll, V, kept
<1>11. CASE ~ (e # <<>> \/ empty)
  <2>1. kept = w.entries /\ e = <<>> /\ ~ empty
    BY <1>6, <1>11
  <2>2. Ink(w.buffer) = <<>>
    BY <1>2, <2>1, InkLaws
  <2>3. Ink(J) \o Ink(w.buffer) = Ink(J)
    BY <1>8, <2>2, ConcatEmpty DEF V
  <2>4. Ink(Joined(kept)) = Ink(s)
    BY <1>5, <1>8, <2>1, <2>3, Zenon DEF J
  <2> QED BY <1>2, <1>7, <2>1, <2>4, Zenon DEF KeepsAll, V, kept
<1> QED BY <1>10, <1>11, Zenon

LEMMA WalkKeeps ==
  ASSUME NEW trim \in BOOLEAN, NEW empty \in BOOLEAN, NEW s \in Seq(Byte)
  PROVE  Keeps(WalkedOver(s, 32, trim, empty), s, trim, empty)
<1> DEFINE Over(p) == WalkedOver(p, 32, trim, empty)
           P == {p \in Seq(Byte) : Keeps(Over(p), p, trim, empty)}
<1>0. /\ Over(<<>>) = start
      /\ \A p \in Seq(Byte) : Over(p) \in Walk
      /\ \A p \in Seq(Byte), c \in Byte :
           Over(Append(p, c)) = Walked(Over(p), c, 32, trim, empty)
  <2>1. WalksOn(32, trim, empty)
    BY WalkLaws, Zenon
  <2> QED BY <2>1, Zenon DEF WalksOn
<1>1. <<>> \in P
  <2>1. Over(<<>>) = start /\ start.entries = <<>> /\ start.buffer = <<>>
    BY <1>0 DEF start
  <2>2. Joined(<<>>) \o <<>> = <<>>
    BY JoinedLaws
  <2>3. Len(<<>>) <= Len(<<>>) /\ <<>> \in Seq(Byte)
    OBVIOUS
  <2>4. Keeps(Over(<<>>), <<>>, trim, empty)
    <3> HIDE DEF Over
    <3> QED BY <2>1, <2>2, <2>3 DEF Keeps
  <2> QED BY <2>3, <2>4
<1>2. ASSUME NEW p \in Seq(Byte), NEW c \in Byte, p \in P PROVE Append(p, c) \in P
  <2> DEFINE w == Over(p)
             u == Append(p, c)
             x == Over(u)
             J == Joined(w.entries)
  <2>1. w \in Walk /\ x = Walked(w, c, 32, trim, empty) /\ Keeps(w, p, trim, empty)
    <3>1. w \in Walk /\ x = Walked(w, c, 32, trim, empty)
      <4> HIDE DEF Over
      <4> QED BY <1>0, Zenon
    <3>2. Keeps(w, p, trim, empty)
      BY <1>2, Zenon
    <3> QED BY <3>1, <3>2, Zenon
  <2>2. w.entries \in Seq(Seq(Byte)) /\ w.buffer \in Seq(Byte)
    BY <2>1 DEF Walk
  <2>3. u \in Seq(Byte) /\ Len(u) = Len(p) + 1 /\ Len(p) \in Nat
    BY AppendFacts
  <2>4. J \in Seq(Byte)
    BY <2>2, JoinedLaws
  <2>5. Ink(u) = InkStep(Ink(p), c)
    BY InkLaws
  <2> HIDE DEF w, x
  <2>6. CASE c = 32
    <3> DEFINE kept == Pushed(w.entries, w.buffer, trim, empty)
    <3>1. KeepsAll(kept, p, trim, empty)
      BY <2>1, PushedKeepsAll
    <3>2. x.entries = kept /\ x.buffer = <<>>
      BY <2>1, <2>6 DEF Walked
    <3> HIDE DEF kept
    <3>3. /\ kept \in Seq(Seq(Byte)) /\ Len(kept) <= Len(p) + 1
          /\ Ink(Joined(kept)) = Ink(p)
          /\ empty /\ ~ trim => Joined(kept) = p \o <<32>>
      BY <3>1 DEF KeepsAll
    <3>4. Joined(kept) \o <<>> = Joined(kept)
      BY <3>3, JoinedLaws, ConcatEmpty
    <3>5. Ink(u) = Ink(p)
      BY <2>5, <2>6 DEF InkStep, codepoint_is_space
    <3>6. u = p \o <<32>>
      <4> HIDE DEF Over
      <4> QED BY <2>6
    <3>7. Len(x.entries) <= Len(u)
      BY <2>3, <3>2, <3>3
    <3>8. Keeps(x, u, trim, empty)
      <4> HIDE DEF u
      <4> QED BY <3>2, <3>3, <3>4, <3>5, <3>6, <3>7, Zenon DEF Keeps
    <3> QED BY <2>3, <3>8 DEF x
  <2>7. CASE c # 32
    <3>1. x = [w EXCEPT !.buffer = Append(@, c)]
      BY <2>1, <2>7 DEF Walked
    <3>2. x.entries = w.entries /\ x.buffer = Append(w.buffer, c)
      BY <2>1, <3>1 DEF Walk
    <3>3. J \o Append(w.buffer, c) = Append(J \o w.buffer, c)
      <4>1. J \in Seq(Byte) /\ w.buffer \in Seq(Byte) /\ c \in Byte
        BY <2>2, <2>4
      <4> DEFINE b == w.buffer
      <4> HIDE DEF J, b
      <4>2. J \o Append(b, c) = Append(J \o b, c)
        BY <4>1, ConcatAppend DEF b
      <4> QED BY <4>2 DEF b
    <3>4. J \o w.buffer \in Seq(Byte)
      BY <2>2, <2>4
    <3>5. Ink(Append(J \o w.buffer, c)) = InkStep(Ink(J \o w.buffer), c)
      BY <3>4, InkLaws
    <3>6. /\ Len(w.entries) <= Len(p)
          /\ Ink(J \o w.buffer) = Ink(p)
          /\ empty /\ ~ trim => J \o w.buffer = p
      BY <2>1 DEF Keeps
    <3>7. Len(x.entries) <= Len(u)
      <4>1. Len(w.entries) \in Nat
        BY <2>2
      <4> QED BY <2>3, <3>2, <3>6, <4>1
    <3>8. Ink(Joined(x.entries) \o x.buffer) = Ink(u)
      BY <2>5, <3>2, <3>3, <3>5, <3>6, Zenon
    <3>9. empty /\ ~ trim => Joined(x.entries) \o x.buffer = u
      BY <3>2, <3>3, <3>6, Zenon
    <3>10. Keeps(x, u, trim, empty)
      BY <3>7, <3>8, <3>9, Zenon DEF Keeps
    <3> QED BY <2>3, <3>10 DEF x
  <2> QED BY <2>6, <2>7
<1>3. Seq(Byte) \subseteq P
  <2> HIDE DEF P
  <2> QED BY <1>1, <1>2, EachSequence
<1> QED BY <1>3

LEMMA SplitArgument ==
  ASSUME call \in Calls, call.f = "cstr_split"
  PROVE  /\ IsText(call.s) /\ call.n \in {1, 2, U64_MAX}
         /\ call.trim \in BOOLEAN /\ call.empty \in BOOLEAN
<1>1. call.n \in {1, 2, U64_MAX} /\ call.trim \in BOOLEAN /\ call.empty \in BOOLEAN
  BY DEF Calls
<1> QED BY <1>1, TextArgument

LEMMA TextSplit ==
  ASSUME NEW s, IsText(s), NEW n \in {1, 2, U64_MAX}, NEW trim \in BOOLEAN, NEW empty \in BOOLEAN
  PROVE  LET parts == cstr_nsplit(s, 32, n, trim, empty) IN
           /\ Len(parts) <= n
           /\ n = U64_MAX =>
                /\ Ink(Joined(parts)) = Ink(s)
                /\ empty /\ ~ trim => Front(Joined(parts)) = s
<1> DEFINE w == WalkedOver(s, 32, trim, empty)
           kept == Pushed(w.entries, w.buffer, trim, empty)
           m == Min({Len(kept), n})
           parts == cstr_nsplit(s, 32, n, trim, empty)
<1>1. s \in Seq(Byte) /\ Len(s) \in Nat /\ Len(s) < U64_MAX
  BY TextFacts
<1>2. w \in Walk /\ Keeps(w, s, trim, empty)
  <2>1. WalksOn(32, trim, empty)
    BY WalkLaws, Zenon
  <2> QED BY <1>1, <2>1, WalkKeeps, Zenon DEF WalksOn
<1>3. KeepsAll(kept, s, trim, empty)
  <2> HIDE DEF w
  <2> QED BY <1>1, <1>2, PushedKeepsAll
<1>4. parts = SubSeq(kept, 1, m)
  BY DEF cstr_nsplit
<1> HIDE DEF w, kept
<1>5. /\ kept \in Seq(Seq(Byte)) /\ Len(kept) <= Len(s) + 1 /\ Len(kept) \in Nat
      /\ Ink(Joined(kept)) = Ink(s)
      /\ empty /\ ~ trim => Joined(kept) = s \o <<32>>
  BY <1>3 DEF KeepsAll
<1>6. n \in Nat /\ U64_MAX \in Nat
  BY Widest
<1>7. m = IF Len(kept) <= n THEN Len(kept) ELSE n
  BY <1>5, <1>6, LesserOf
<1>8. Len(parts) = m /\ m <= n
  <2>1. m \in Nat /\ m <= Len(kept) /\ m <= n
    <3> HIDE DEF m
    <3> QED BY <1>5, <1>6, <1>7
  <2>2. Len(SubSeq(kept, 1, m)) = m
    <3> HIDE DEF m
    <3> QED BY <1>5, <2>1
  <2> QED BY <1>4, <2>1, <2>2, Zenon
<1>9. ASSUME n = U64_MAX PROVE parts = kept
  <2>1. m = Len(kept)
    <3>1. Len(kept) <= n
      BY <1>1, <1>5, <1>6, <1>9
    <3> HIDE DEF m
    <3> QED BY <1>7, <3>1
  <2>2. SubSeq(kept, 1, Len(kept)) = kept
    BY <1>5
  <2> QED BY <1>4, <2>1, <2>2, Zenon
<1>10. Front(s \o <<32>>) = s
  <2> DEFINE t == s \o <<32>>
  <2>1. /\ t \in Seq(Byte) /\ Len(t) = Len(s) + 1
        /\ \A i \in 1 .. Len(s) : t[i] = s[i]
    <3>1. <<32>> \in Seq(Byte) /\ Len(<<32>>) = 1
      BY DEF Byte
    <3> QED BY <1>1, <3>1, ConcatFacts
  <2>2. Front(t) = SubSeq(t, 1, Len(t) - 1)
    BY DEF Front
  <2> HIDE DEF t
  <2>3. Front(t) \in Seq(Byte) /\ Len(Front(t)) = Len(s) /\ \A i \in 1 .. Len(s) : Front(t)[i] = s[i]
    BY <1>1, <2>1, <2>2
  <2>4. Front(t) = s
    BY <1>1, <2>3, SameSequence
  <2> QED BY <2>4 DEF t
<1> HIDE DEF parts, m
<1> QED BY <1>5, <1>8, <1>9, <1>10, Zenon DEF parts

LEMMA TextsCut == TextAnswered => Cuts
<1> SUFFICES ASSUME TextAnswered PROVE Cuts
  OBVIOUS
<1>1. ASSUME Returned("cstr_trim")
      PROVE  \E i, j \in 0 .. Len(call.s) :
               /\ call.s = Begin(call.s, i) \o result \o SubSeq(call.s, j + 1, Len(call.s))
               /\ Blank(Begin(call.s, i)) /\ Blank(SubSeq(call.s, j + 1, Len(call.s)))
               /\ result # <<>> => ~ Blank(Begin(result, 1)) /\ ~ Blank(<<Last(result)>>)
  <2>1. call.s \in Seq(Byte)
    BY <1>1, TextArgument DEF TextAnswered, Returned, IsText
  <2>2. result = cstr_trim(call.s)
    BY <1>1 DEF TextAnswered
  <2> QED BY <2>1, <2>2, TextTrimmed
<1>2. ASSUME Returned("cstr_split")
      PROVE  /\ Len(result) <= call.n
             /\ call.n = U64_MAX =>
                  /\ Ink(Joined(result)) = Ink(call.s)
                  /\ call.empty /\ ~ call.trim => Front(Joined(result)) = call.s
  <2>1. /\ IsText(call.s) /\ call.n \in {1, 2, U64_MAX}
        /\ call.trim \in BOOLEAN /\ call.empty \in BOOLEAN
    BY <1>2, SplitArgument DEF TextAnswered, Returned
  <2>2. result = cstr_nsplit(call.s, 32, call.n, call.trim, call.empty)
    BY <1>2 DEF TextAnswered
  <2> QED BY <2>1, <2>2, TextSplit
<1> QED BY <1>1, <1>2, Zenon DEF Cuts

(***************************************************************************)
(* For all texts, what the functions of strings/string.c answer is what    *)
(* string.h says of them, but for the differences that TextsMeetHeader and *)
(* its parts name: among them the slash that a directory keeps and the     *)
(* zeros that a copy does not get.                                         *)
(***************************************************************************)
THEOREM TextsAreAsTheHeaderSays == Spec => []TextsMeetHeader
<1>1. TextAnswered => TextsMeetHeader
  BY TextsCompared, TextsFound, TextsCut, TextsEdited, PathsTakenApart, CharactersKept,
     NumbersParsed DEF TextsMeetHeader
<1> QED BY <1>1, InitTextAnswered, NextTextAnswered, PTL DEF Spec
=============================================================================
