----------------------------- MODULE PureFunctions -----------------------------
(***************************************************************************)
(* The engine's functions without a state of their own, each called with   *)
(* the arguments that the constants give it.  The properties compare a     *)
(* result with what the function is for, or with other functions' results, *)
(* and say where it is something else.                                     *)
(***************************************************************************)
EXTENDS CString, VulkanDevice, VulkanImage, SwapchainRequest, PureCall

CONSTANTS
  Texts,      \* strings
  ShortTexts, \* those that functions of two strings are given
  Codepoints,
  Numbers,    \* sequences of numbers and junk
  Devices, Surfaces, Flags,
  Sides, MipLevels \* of an image

(***************************************************************************)
(* What a driver promises of its reports.  A queue family has queues; a    *)
(* device lists the extensions that its features come with; a surface has  *)
(* a format, the mode fifo, and minima that are not above their maxima.    *)
(***************************************************************************)
ASSUME DevicesAssumption ==
  \A d \in Devices :
    /\ d.families \in Seq([can : SUBSET STRING, count : Nat \ {0}])
    /\ "smooth_lines" \in d.features => "line_rasterization" \in d.extensions
    /\ d.api_minor <= 2 /\ "dynamic_state" \in d.features
         => "extended_dynamic_state" \in d.extensions

ASSUME SurfacesAssumption ==
  \A s \in Surfaces :
    /\ Len(s.formats) \in Nat \ {0} /\ DOMAIN s.formats = 1 .. Len(s.formats)
    /\ "fifo" \in s.present_modes
    /\ s.capabilities \in [minImageCount : Nat, maxImageCount : Nat, minImageExtent : Nat,
                           maxImageExtent : Nat, currentExtent : Nat]
    /\ s.capabilities.minImageExtent <= s.capabilities.maxImageExtent
    /\ s.capabilities.maxImageCount > 0
         => s.capabilities.minImageCount <= s.capabilities.maxImageCount

\* An image has pixels and a level.
ASSUME SidesAssumption == Sides \subseteq Nat \ {0} /\ MipLevels \subseteq Nat \ {0}

\* A buffer that holds whatever the functions write into it.
Room == 12
Buffer == [i \in 1 .. Room |-> junk]

(***************************************************************************)
(* A text has no NUL in it and fits into the buffer of cstr_nsplit         *)
(* (string.c:455); what is made of two short ones fits into Buffer.  What  *)
(* scanf sees is numbers and junk.  A codepoint is one of Unicode's, but   *)
(* not 0, which ends a text.                                               *)
(***************************************************************************)
Byte == 1 .. 255

ASSUME TextsAssumption ==
  /\ \A s \in Texts \cup ShortTexts : s \in Seq(Byte) /\ Len(s) < 2^14
  /\ \A s, t \in ShortTexts : Len(s) + Len(t) < Room

ASSUME NumbersAssumption == Numbers \subseteq Seq(Int \cup {junk})

ASSUME CodepointsAssumption ==
  \A c \in Codepoints : c \in Nat \ {0} /\ c < 17 * 2^16

Text(dst) == SubSeq(dst, 1, Min({i \in DOMAIN dst : dst[i] = nul}) - 1)

\* UTF-8 as it is defined.
Utf8(c) ==
  LET Tail6(k) == 128 + ((c \div 64^k) % 64) IN
    CASE c < 2^7                -> <<c>>
      [] 2^7 <= c /\ c < 2^11   -> <<192 + (c \div 64), Tail6(0)>>
      [] 2^11 <= c /\ c < 2^16  -> <<224 + (c \div 64^2), Tail6(1), Tail6(0)>>
      [] OTHER                  -> <<240 + (c \div 64^3), Tail6(2), Tail6(1), Tail6(0)>>

Encoded(cs) == FlattenSeq([i \in DOMAIN cs |-> Utf8(cs[i])])

Calls ==
  [f : {"cstr_trim", "cstr_index_of", "path"}, s : Texts]
    \cup [f : {"cstr_split"}, s : Texts, trim : BOOLEAN, empty : BOOLEAN, n : {1, 2, U64_MAX}]
    \cup [f : {"cstr_ncmp"}, s : ShortTexts, t : ShortTexts, n : {0, 1, 2, U64_MAX}]
    \cup [f : {"cstr_starts_with", "cstr_index_of_str", "cstr_insert_str_at"},
          s : ShortTexts, t : ShortTexts, n : 0 .. 2]
    \cup [f : {"cstr_ncopy"}, s : ShortTexts, n : 0 .. 5]
    \cup [f : {"cstr_case"}, c : 0 .. 255]
    \cup [f : {"cstr_to"}, s : Numbers, n : 1 .. 2, bits : {8, 16}, signed : BOOLEAN]
    \cup [f : {"cstr_utf8"}, s : UNION {[1 .. k -> Codepoints] : k \in 0 .. 2}]
    \cup [f : {"vulkan_device_create"}, d : {d \in Devices : physical_device_meets_requirements(d)}]
    \cup [f : {"vulkan_swapchain_create"}, surface : Surfaces, flags : Flags, size : {0, 3, 9}]
    \cup [f : {"mipmaps", "read_back"}, w : Sides, h : Sides, n : MipLevels]

Init == call \in Calls /\ result = pending

-----------------------------------------------------------------------------
TrimText == Called("cstr_trim") /\ Gives(cstr_trim(call.s))

FindByte ==
  /\ Called("cstr_index_of")
  /\ Gives([first |-> cstr_index_of(call.s, 46), last |-> cstr_last_index_of(call.s, 46)])

SplitPath ==
  /\ Called("path")
  /\ Gives([directory |-> cstr_directory_from_path(call.s),
            dirname   |-> cstr_dirname_from_path(call.s),
            filename  |-> cstr_filename_from_path(call.s),
            no_ext    |-> cstr_filename_no_ext_from_path(call.s),
            ext       |-> cstr_ext_from_path(call.s, TRUE)])

SplitText ==
  Called("cstr_split") /\ Gives(cstr_nsplit(call.s, 32, call.n, call.trim, call.empty))

Compare ==
  /\ Called("cstr_ncmp")
  /\ Gives([diff |-> cstr_ncmp(call.s, call.t, call.n), same |-> cstr_equal(call.s, call.t)])

Starts ==
  /\ Called("cstr_starts_with")
  /\ Gives([exact |-> cstr_starts_with(call.s, call.t), caseless |-> cstr_starts_withi(call.s, call.t)])

FindText == Called("cstr_index_of_str") /\ Gives(cstr_index_of_str(call.s, call.t))

InsertText ==
  /\ Called("cstr_insert_str_at")
  /\ call.n <= Len(call.s)
  /\ Gives(IF Len(call.t) = 1 THEN cstr_insert_char_at(Buffer, call.s, call.n, call.t[1])
                              ELSE cstr_insert_str_at(Buffer, call.s, call.n, call.t))

CopyText == Called("cstr_ncopy") /\ Gives(cstr_ncopy(Buffer, call.s, call.n))

ChangeCase ==
  /\ Called("cstr_case")
  /\ Gives([lower |-> cstr_to_lower(<<call.c>>)[1], upper |-> cstr_to_upper(<<call.c>>)[1],
            blank |-> <<codepoint_is_space(char(call.c)), char_is_whitespace(char(call.c)),
                        codepoint_is_whitespace(char(call.c))>>])

ParseText == Called("cstr_to") /\ Gives(cstr_to(call.s, call.n, call.bits, call.signed))

DecodeText ==
  LET s == Encoded(call.s) IN
    /\ Called("cstr_utf8")
    /\ Gives([len   |-> cstr_utf8_nlen(s, U64_MAX),
              first |-> IF s = <<>> THEN pending ELSE bytes_to_codepoint(s, 0)])

CreateDevice == Called("vulkan_device_create") /\ Gives(vulkan_device_create(call.d))

CreateSwapchain ==
  LET c == call.surface.capabilities IN
    /\ Called("vulkan_swapchain_create")
    /\ Gives([images |-> image_count(c), extent |-> swapchain_extent(call.size, c),
              format |-> image_format(call.surface.formats),
              mode   |-> present_mode(call.flags, call.surface.present_modes)])

GenerateMipmaps == Called("mipmaps") /\ Gives(Upload(call.w, call.h, call.n))

ReadBack == Called("read_back") /\ Gives(Download(call.w, call.h, call.n))

Next ==
  \/ TrimText \/ FindByte \/ SplitPath \/ SplitText \/ Compare \/ Starts \/ FindText
  \/ InsertText \/ CopyText \/ ChangeCase \/ ParseText \/ DecodeText
  \/ CreateDevice \/ CreateSwapchain \/ GenerateMipmaps \/ ReadBack

Spec == Init /\ [][Next]_vars

-----------------------------------------------------------------------------
Begin(s, n) == SubSeq(s, 1, Min({Len(s), n}))

Blank(s) == \A i \in DOMAIN s : codepoint_is_space(s[i])

\* What of a text is not blank, and texts behind one another, each with a blank.
Ink(s) == FoldLeft(LAMBDA a, c : IF codepoint_is_space(c) THEN a ELSE Append(a, c), <<>>, s)

Joined(parts) == FoldLeft(LAMBDA a, e : a \o e \o <<32>>, <<>>, parts)

Occurs(t, s, i) == IsPrefix(t, SubSeq(s, i + 1, Len(s)))

\* Comparisons and prefix tests.  Not as string.h:32 says, cstr_ncmp looks at
\* one byte more than max_len (string.c:70-87).
Compares ==
  /\ Returned("cstr_ncmp") =>
       /\ result.same = (call.s = call.t)
       /\ \/ (result.diff = 0) = (Begin(call.s, call.n) = Begin(call.t, call.n))
          \/ Len(call.s) > call.n /\ Len(call.t) > call.n /\ result.diff # 0
  /\ Returned("cstr_starts_with") =>
       /\ result.exact = IsPrefix(call.t, call.s)
       /\ result.exact => result.caseless

\* Searches.  Not as string.h:66-69 says, a last index of 0 is missed, that of
\* an empty string is read outside of it (string.c:291), a search for a longer
\* text finds the text in it, or nothing, and an empty text is nowhere.
Finds ==
  /\ Returned("cstr_index_of") =>
       LET dots == Indices(call.s, {46}) IN
         /\ IF dots = {} THEN result.first = U64_MAX
                         ELSE result.first \in dots /\ \A i \in dots : result.first <= i
         /\ \/ call.s = <<>>
            \/ dots \subseteq {0} /\ result.last = U64_MAX
            \/ result.last \in dots /\ \A i \in dots : i <= result.last
  /\ Returned("cstr_index_of_str") =>
       LET found == {i \in 0 .. Len(call.s) : Occurs(call.t, call.s, i)} IN
         CASE call.t = <<>> -> result = U64_MAX
           [] call.t # <<>> /\ Len(call.t) <= Len(call.s) ->
                result = IF found = {} THEN U64_MAX ELSE Min(found)
           [] OTHER -> TRUE

\* What is taken from a text is whole, and what is cut off is blank.
Cuts ==
  /\ Returned("cstr_trim") =>
       \E i, j \in 0 .. Len(call.s) :
         /\ call.s = Begin(call.s, i) \o result \o SubSeq(call.s, j + 1, Len(call.s))
         /\ Blank(Begin(call.s, i)) /\ Blank(SubSeq(call.s, j + 1, Len(call.s)))
         /\ result # <<>> => ~ Blank(Begin(result, 1)) /\ ~ Blank(<<Last(result)>>)
  /\ Returned("cstr_split") =>
       /\ Len(result) <= call.n
       /\ call.n = U64_MAX =>
            /\ Ink(Joined(result)) = Ink(call.s)
            /\ call.empty /\ ~ call.trim => Front(Joined(result)) = call.s

\* Removing what was inserted restores the text, though an insertion puts no
\* NUL behind its result (string.c:381-404); a copy is the text, or the part of
\* it that fits.  The zeros that string.h:53 promises behind the copy's NUL are
\* not there: they are written behind all max_len bytes (string.c:214).
Edits ==
  /\ Returned("cstr_insert_str_at") =>
       LET inserted == SubSeq(result, 1, Len(call.s) + Len(call.t)) IN
         Text(cstr_remove_at(Buffer, inserted, call.n, Len(call.t))) = call.s
  /\ Returned("cstr_ncopy") =>
       LET copy == SubSeq(result, 1, call.n) IN
         /\ Begin(copy, Len(call.s)) = Begin(call.s, call.n)
         /\ Len(call.s) < call.n => copy[Len(call.s) + 1] = nul

\* A path is cut behind its last slash, and a file's name before its last dot.
\* Not as string.h:278 shows ("assets/textures"), the directory keeps the slash.
\* Of a path without a slash neither part is written, and a file's name that
\* has no dot takes its extension from the directories.  The directory's own
\* name is DirnameIsDirectory's.
Paths ==
  Returned("path") /\ Slashes(call.s) # {} =>
    /\ result.directory \o result.filename = call.s
    /\ Last(result.directory) \in {47, 92} /\ Slashes(result.filename) = {}
    /\ \/ Indices(result.filename, {46}) = {}
       \/ result.filename = result.no_ext \o result.ext

\* Case goes one way and back, but not for bytes above 127, which string.h:113
\* promises too; the three tests for blanks agree on bytes; decoding finds what
\* was encoded, but the character 127, valid as it is, is refused
\* (string.c:815, 838).  The lengths are compared where nothing limits them.
Characters ==
  /\ Returned("cstr_case") =>
       /\ result.blank[1] = result.blank[2] /\ result.blank[2] = result.blank[3]
       /\ IF call.c >= 128 THEN result.lower = call.c /\ result.upper = call.c
          ELSE codepoint_is_alpha(call.c) =>
                 /\ codepoint_is_lower(result.lower) /\ codepoint_is_upper(result.upper)
                 /\ call.c \in {result.lower, result.upper}
  /\ Returned("cstr_utf8") =>
       \/ \E i \in DOMAIN call.s : call.s[i] = 127
       \/ /\ result.len = Len(call.s)
          /\ call.s # <<>> => /\ result.first.codepoint = call.s[1]
                              /\ result.first.advance = Len(Utf8(call.s[1]))

\* A number is stored if its type can hold it.  The attempt that string.h:124-172
\* speaks of fails only for no text at all: junk leaves a 0 and succeeds.
Parses ==
  Returned("cstr_to") =>
    LET Fits(n) == IF call.signed THEN n \in -(2^(call.bits - 1)) .. 2^(call.bits - 1) - 1
                                  ELSE n \in 0 .. 2^call.bits - 1
    IN /\ ~ result.ok => call.s = <<>>
       /\ \A i \in 1 .. call.n :
            \/ \E j \in 1 .. i : j > Len(call.s) \/ call.s[j] = junk
            \/ ~ Fits(call.s[i])
            \/ result.out[i] = call.s[i]

(***************************************************************************)
(* The functions of string.c do what string.h says of them, but for these, *)
(* which the parts above say more of: a byte too many is compared; a last  *)
(* index 0 is missed, and that of an empty string read outside it; a       *)
(* search for a longer text is turned around; an insertion writes no NUL,  *)
(* and a copy's zeros lie behind its length; a directory keeps its last    *)
(* slash, nothing is written for a path without one, and a file's name     *)
(* without a dot has another's extension; bytes above 127 have no case and *)
(* the character 127 is none; junk is a 0.  Not compared are the name of a *)
(* directory (DirnameIsDirectory), codepoint_is_alpha, which tests letters *)
(* only where string.h:266 says alpha-numeric, and formatting.             *)
(***************************************************************************)
TextsMeetHeader ==
  Compares /\ Finds /\ Cuts /\ Edits /\ Paths /\ Characters /\ Parses

(***************************************************************************)
(* What is asked of the driver is what the device and the surface report   *)
(* (vulkan_device.c:75-201, vulkan_swapchain.c:71-143): no queue too many, *)
(* each queue fetched was asked for, no family named twice unless queues   *)
(* for presenting and for transfer share one (NamedTwice), no extension    *)
(* that is not there unless the code did not look for it (Unlisted), and   *)
(* no mode of presenting that is not there but IMMEDIATE, for which the    *)
(* code does not look either (Unchecked): the mode that its only caller,   *)
(* which passes no flags, always gets.                                     *)
(***************************************************************************)
RequestsFit ==
  /\ Returned("vulkan_device_create") =>
       /\ QueuesFit(call.d, result.queues)
       /\ Distinct(result.queues) \/ NamedTwice(call.d)
       /\ result.extensions \subseteq call.d.extensions \/ Unlisted(call.d)
  /\ Returned("vulkan_swapchain_create") => SwapchainFits(call.size, call.flags, call.surface)

(***************************************************************************)
(* The levels of a texture are made from one another in layouts and sizes  *)
(* that fit, whatever its sides (vulkan_image.c:198-274), and all can be   *)
(* sampled at the end, if there are several: a single one is left as it    *)
(* was filled.  Nobody in the repository calls these functions yet: the    *)
(* order of the calls, up and back, is the one that Upload and Download    *)
(* assume.                                                                 *)
(***************************************************************************)
MipChainReadable ==
  /\ Returned("mipmaps") => ChainIsReadable(call.w, call.h, call.n, result)
  /\ Returned("read_back") =>
       Executed(Uniform("undefined", call.n), result) = Uniform("shader_read", call.n)

(***************************************************************************)
(* string.h:281-282: the name of the directory that a file is in.          *)
(***************************************************************************)
DirnameIsDirectory ==
  Returned("path") =>
    \A i \in Slashes(call.s), j \in Slashes(call.s) :
      i < j /\ j = Max(Slashes(call.s)) /\ i = Max(Slashes(call.s) \ {j}) =>
        result.dirname = SubSeq(call.s, i + 2, j)
=============================================================================
