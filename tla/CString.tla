-------------------------------- MODULE CString --------------------------------
(***************************************************************************)
(* strings/string.c, of which a string is the sequence of its bytes before *)
(* the NUL; MemorySystem has what a log line uses of it.  Indices are the  *)
(* code's, from 0.  A destination is a buffer of bytes, NULs and cells     *)
(* never written (junk).  Missing strings are refused by every function    *)
(* and left out.                                                           *)
(***************************************************************************)
EXTENDS Integers, Sequences, SequencesExt, FiniteSetsExt

CONSTANTS
  junk,         \* the content of a cell never written
  out_of_bounds \* of a read outside the string

nul == 0

\* u64, for strings much shorter than it can count.
U64_MAX == 2^16 - 1
u64(n) == n % 2^16

\* char is signed.
char(byte) == IF byte >= 128 THEN byte - 256 ELSE byte

At(s, i) == IF i < Len(s) THEN s[i + 1] ELSE nul

Indices(s, C) == {i \in 0 .. Len(s) - 1 : At(s, i) \in C}

-----------------------------------------------------------------------------
(***************************************************************************)
(* Characters.                                                             *)
(***************************************************************************)
codepoint_is_lower(c) == c \in 97 .. 122 \/ c \in 224 .. 255

codepoint_is_upper(c) == c \in 65 .. 90 \/ c \in 192 .. 223

codepoint_is_alpha(c) == c \in 97 .. 122 \/ c \in 65 .. 90 \/ c \in 192 .. 255

codepoint_is_space(c) == c \in {32, 10, 13, 12, 9, 11}

char_is_whitespace(c) == c \in {32, 13, 9, 10, 11, 12}

codepoint_is_whitespace(c) ==
  c \in 9 .. 13 \cup {32, 133, 160, 5760, 6158} \cup 8192 .. 8205
          \cup {8232, 8233, 8239, 8287, 8288, 12288, 65279}

\* Both take a char, which for a byte above 127 is no codepoint.
cstr_to_lower(s) ==
  [i \in DOMAIN s |-> IF codepoint_is_upper(char(s[i])) THEN s[i] + 32 ELSE s[i]]

cstr_to_upper(s) ==
  [i \in DOMAIN s |-> IF codepoint_is_lower(char(s[i])) THEN s[i] - 32 ELSE s[i]]

-----------------------------------------------------------------------------
(***************************************************************************)
(* Comparison.  The walk goes on to the NUL of the shorter string, or to   *)
(* one byte past max_len.                                                  *)
(***************************************************************************)
cstr_ncmp(a, b, max_len) ==
  LET min_len == Min({Len(a), Len(b), max_len})
      last == IF min_len < U64_MAX THEN min_len ELSE min_len - 1
      differ == {i \in 0 .. last : At(a, i) # At(b, i)}
      i == Min(differ)
  IN IF differ = {} \/ (i = max_len /\ nul \in {At(a, i), At(b, i)}) THEN 0
     ELSE char(At(a, i)) - char(At(b, i))

cstr_equal(a, b) == cstr_ncmp(a, b, U64_MAX) = 0

cstr_nequal(a, b, max_len) == cstr_ncmp(a, b, max_len) = 0

cstr_starts_with(s, sub) == Len(s) >= Len(sub) /\ cstr_nequal(s, sub, Len(sub))

\* strncasecmp is the C library's.
cstr_nequali(a, b, max_len) ==
  LET Begin(s) == SubSeq(s, 1, Min({Len(s), max_len}))
  IN cstr_to_lower(Begin(a)) = cstr_to_lower(Begin(b))

cstr_starts_withi(s, sub) == Len(s) >= Len(sub) /\ cstr_nequali(s, sub, Len(sub))

-----------------------------------------------------------------------------
(***************************************************************************)
(* Search.                                                                 *)
(***************************************************************************)
cstr_index_of(s, c) ==
  IF Indices(s, {c}) = {} THEN U64_MAX ELSE Min(Indices(s, {c}))

\* The walk stops before index 0, and starts at U64_MAX in an empty string.
cstr_last_index_of(s, c) ==
  LET found == Indices(s, {c}) \ {0} IN
    CASE s = <<>> -> out_of_bounds
      [] s # <<>> /\ found = {} -> U64_MAX
      [] OTHER -> Max(found)

\* Whichever is longer is searched for the other.
cstr_index_of_str(s, sub) ==
  LET a == IF Len(sub) > Len(s) THEN sub ELSE s
      b == IF Len(sub) > Len(s) THEN s ELSE sub
      found == {i \in 0 .. Len(a) - 1 : \A j \in 0 .. Len(b) - 1 : At(a, i + j) = At(b, j)}
  IN IF b = <<>> \/ found = {} THEN U64_MAX ELSE Min(found)

-----------------------------------------------------------------------------
(***************************************************************************)
(* Copies and edits.                                                       *)
(***************************************************************************)
Written(dst, at, s) ==
  [i \in DOMAIN dst |-> IF i \in at + 1 .. at + Len(s) THEN s[i - at] ELSE dst[i]]

\* The padding goes behind the part of dst that is to be padded.
cstr_ncopy(dst, src, max_len) ==
  LET src_len == Min({Len(src) + 1, max_len})
      copied == Written(dst, 0, SubSeq(Append(src, nul), 1, src_len))
      padding == [i \in 1 .. max_len - src_len |-> nul]
  IN CASE max_len = 0       -> dst
       [] max_len = U64_MAX -> copied
       [] OTHER             -> Written(copied, max_len, padding)

cstr_trim(s) ==
  LET ink == {i \in DOMAIN s : ~ codepoint_is_space(char(s[i]))}
  IN IF ink = {} THEN <<>> ELSE SubSeq(s, Min(ink), Max(ink))

\* What dst holds afterwards.
cstr_sub(src, start, len) ==
  IF len = 0 \/ start >= Len(src) THEN <<>>
  ELSE SubSeq(src, start + 1, Min({Len(src), start + len}))

\* No NUL is written behind the result.  The position is one of src.
cstr_insert_str_at(dst, src, pos, str) ==
  LET front == Written(dst, 0, SubSeq(src, 1, pos))
      back == Written(front, pos + Len(str), SubSeq(src, pos + 1, Len(src)))
  IN Written(back, pos, str)

cstr_insert_char_at(dst, src, pos, c) == cstr_insert_str_at(dst, src, pos, <<c>>)

\* The range lies in src.
cstr_remove_at(dst, src, start, len) ==
  Written(Written(dst, 0, SubSeq(src, 1, start)),
          start, SubSeq(src, start + len + 1, Len(src)) \o <<nul>>)

-----------------------------------------------------------------------------
(***************************************************************************)
(* cstr_nsplit.  It stops after max_count entries, whatever follows.       *)
(***************************************************************************)
Entry(part, trim_entries) == IF trim_entries THEN cstr_trim(part) ELSE part

\* The array behind a part that has ended.
Pushed(entries, part, trim_entries, include_empty) ==
  IF Entry(part, trim_entries) # <<>> \/ include_empty
  THEN Append(entries, Entry(part, trim_entries)) ELSE entries

\* The array, and the part in the buffer, after one more byte.
Walked(walk, c, delimiter, trim_entries, include_empty) ==
  IF c = delimiter
  THEN [entries |-> Pushed(walk.entries, walk.buffer, trim_entries, include_empty),
        buffer  |-> <<>>]
  ELSE [walk EXCEPT !.buffer = Append(@, c)]

WalkedOver(s, delimiter, trim_entries, include_empty) ==
  FoldLeft(LAMBDA walk, c : Walked(walk, c, delimiter, trim_entries, include_empty),
           [entries |-> <<>>, buffer |-> <<>>], s)

\* Mutant: the last part is forgotten.
cstr_nsplit_forgets_last(s, delimiter, max_count, trim_entries, include_empty) ==
  LET kept == WalkedOver(s, delimiter, trim_entries, include_empty).entries
  IN SubSeq(kept, 1, Min({Len(kept), max_count}))

cstr_nsplit(s, delimiter, max_count, trim_entries, include_empty) ==
  LET walk == WalkedOver(s, delimiter, trim_entries, include_empty)
      kept == Pushed(walk.entries, walk.buffer, trim_entries, include_empty)
  IN SubSeq(kept, 1, Min({Len(kept), max_count}))

-----------------------------------------------------------------------------
(***************************************************************************)
(* Numbers.  A text is what scanf sees of it: numbers and `junk' between   *)
(* blanks.  It converts numbers until it meets something else, and fails   *)
(* only if nothing at all is there; each keeps the bits its type has.      *)
(***************************************************************************)
Narrow(n, bits, signed) ==
  LET r == n % 2^bits
  IN IF signed /\ r >= 2^(bits - 1) THEN r - 2^bits ELSE r

\* Parsing n numbers, as vectors and matrices (n > 1) and single ones do.
cstr_to(text, n, bits, signed) ==
  LET stops == {i \in 1 .. n : i > Len(text) \/ text[i] = junk}
      converted == IF stops = {} THEN n ELSE Min(stops) - 1
  IN [ok  |-> text # <<>>,
      out |-> [i \in 1 .. n |-> IF i <= converted THEN Narrow(text[i], bits, signed) ELSE 0]]

-----------------------------------------------------------------------------
(***************************************************************************)
(* UTF-8.  The bytes of a character by its first; 127 is taken for none.   *)
(***************************************************************************)
Advance(byte) ==
  CASE byte < 127           -> 1
    [] byte \in 192 .. 223  -> 2
    [] byte \in 224 .. 239  -> 3
    [] byte \in 240 .. 247  -> 4
    [] OTHER                -> 0

\* Place[k] is the index behind k characters.  The walk ends at the NUL, if it
\* does not step over it.
cstr_utf8_nlen(s, max_len) ==
  LET Place[k \in 0 .. Len(s) + 1] ==
        IF k = 0 THEN 0 ELSE Place[k - 1] + Advance(At(s, Place[k - 1]))
      stops == {k \in 0 .. Len(s) + 1 :
                  k = max_len \/ Place[k] >= Len(s) \/ Advance(At(s, Place[k])) = 0}
      len == Min(stops)
  IN CASE len = max_len \/ Place[len] = Len(s)      -> len
       [] len # max_len /\ Place[len] > Len(s)      -> out_of_bounds
       [] OTHER                                     -> 0

bytes_to_codepoint(s, offset) ==
  LET Low(k) == At(s, offset + k) % 64
      first == At(s, offset)
      n == Advance(first)
  IN [advance |-> n, codepoint |->
        CASE n = 1 -> first
          [] n = 2 -> (first % 32) * 64 + Low(1)
          [] n = 3 -> (first % 16) * 64^2 + Low(1) * 64 + Low(2)
          [] n = 4 -> (first % 8) * 64^3 + Low(1) * 64^2 + Low(2) * 64 + Low(3)
          [] OTHER -> 0]

-----------------------------------------------------------------------------
(***************************************************************************)
(* Paths.  `unchanged' is a dst that was not written.                      *)
(***************************************************************************)
unchanged == <<junk>>

Slashes(path) == Indices(path, {47, 92})

cstr_directory_from_path(path) ==
  IF Slashes(path) = {} THEN unchanged ELSE SubSeq(path, 1, Max(Slashes(path)) + 1)

\* The walk from the end stops at the first slash it meets: left lies behind
\* right, and the length between them wraps.
cstr_dirname_from_path(path) ==
  LET right == IF Slashes(path) = {} THEN 0 ELSE Max(Slashes(path))
      left == IF Slashes(path) = {} THEN 0 ELSE right + 1
  IN cstr_sub(path, left, u64(right - left))

cstr_filename_from_path(path) ==
  IF Slashes(path) = {} THEN unchanged
  ELSE SubSeq(path, Max(Slashes(path)) + 2, Len(path))

\* Without a dot the length wraps, and is 0 where the name starts the path.
cstr_filename_no_ext_from_path(path) ==
  LET start == IF Slashes(path) = {} THEN 0 ELSE Max(Slashes(path)) + 1
      dots == {i \in Indices(path, {46}) : i >= start}
      end == IF dots = {} THEN 0 ELSE Max(dots)
  IN cstr_sub(path, start, u64(end - start))

\* nullptr, as `unchanged', if there is no dot.
cstr_ext_from_path(path, include_dot) ==
  LET dot == cstr_last_index_of(path, 46)
      start == IF include_dot THEN dot ELSE dot + 1
  IN CASE path = <<>> -> out_of_bounds
       [] path # <<>> /\ dot = U64_MAX -> unchanged
       [] OTHER -> cstr_sub(path, start, Len(path) - start)
=============================================================================
