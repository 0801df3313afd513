----------------------- MODULE DynamicAllocatorTheorems -----------------------
(***************************************************************************)
(* What the allocator wrote around a block is there when it frees it, what *)
(* it gives back is what it took, and blocks are aligned and apart, for    *)
(* every memory, size and alignment.                                       *)
(***************************************************************************)
EXTENDS DynamicAllocator, TLAPS

Word == [at : Int, size : Int, start : Int, alignment : Int]

SizeWord(b) == [zero EXCEPT !.at = b.ptr - StorageSize, !.size = b.size]

HeaderWord(b, start) ==
  [zero EXCEPT !.at = b.ptr + b.size, !.start = start, !.alignment = b.alignment]

\* What the header of b says of the range that b lies in.
First(b) == memory[b.ptr + b.size].start

Taken(b) == [at |-> First(b) - MemoryBlock, size |-> required_size(b.size, b.alignment)]

\* The size and the header of b are whole.
WordsOK(b) ==
  /\ \A x \in b.ptr - StorageSize .. b.ptr - 1 : memory[x] = SizeWord(b)
  /\ \A x \in b.ptr + b.size .. b.ptr + b.size + HeaderSize - 1 :
       memory[x] = HeaderWord(b, First(b))

Block == [ptr : Memory, size : Sizes, alignment : Alignments]

Types ==
  /\ status \in {"created", "destroyed", "trapped"}
  /\ blocks \subseteq Block
  /\ memory \in [Memory -> Word]
  /\ free \subseteq 0 .. TotalSize - 1
  /\ live \subseteq [at : Nat, size : Nat \ {0}]

\* The ranges that the list handed out are apart, and what is left is free.
RangesOK ==
  /\ \A r \in live : r.at + r.size <= TotalSize
  /\ \A r \in live, x \in free : x < r.at \/ r.at + r.size <= x
  /\ \A r, s \in live : r = s \/ r.at + r.size <= s.at \/ s.at + s.size <= r.at
  /\ status # "destroyed" =>
       \A x \in 0 .. TotalSize - 1 : x \in free \/ \E r \in live : r.at <= x /\ x < r.at + r.size

\* Each block lies in a range of its own.
BlocksOK ==
  /\ \A b \in blocks : /\ WordsOK(b)
                       /\ b.ptr % b.alignment = 0
                       /\ Taken(b) \in live
                       /\ HoldsWithin(Taken(b), b)
  /\ \A b, c \in blocks : Taken(b) = Taken(c) => b = c
  /\ \A r \in live : \E b \in blocks : Taken(b) = r
  /\ status = "destroyed" => blocks = {}

AllocatorInv == Types /\ RangesOK /\ BlocksOK

\* As long as no sum has wrapped.
AllocatorSound == status # "overrun" => AllocatorInv

-----------------------------------------------------------------------------
LEMMA Constants ==
  /\ TotalSize \in Nat \ {0} /\ MemoryBlock \in Nat \ {0} /\ HeaderSize \in Nat \ {0}
  /\ StorageSize \in Nat \ {0} /\ MaxRequired \in Nat \ {0}
  /\ U64Range \in Nat \ {0}
  /\ Sizes \subseteq Nat \ {0} /\ Alignments \subseteq Nat \ {0}
<1>1. 1 .. U64Range - 1 \subseteq Nat \ {0}
  BY MemoryAssumption
<1>2. QED BY <1>1, MemoryAssumption, RequestAssumption

LEMMA NotCut ==
  ASSUME NEW n \in Nat, NEW m \in Nat, n < m
  PROVE  n % m = n
OBVIOUS

LEMMA CutFacts ==
  ASSUME NEW n \in Nat, NEW m \in Nat \ {0}
  PROVE  n % m \in Nat
OBVIOUS

\* The sum that does not wrap is a sum.
LEMMA RequiredFacts ==
  ASSUME NEW n \in Nat, NEW a \in Nat
  PROVE  /\ required_size(n, a) \in Nat
         /\ ~ Wraps(n, a) => required_size(n, a) = a + HeaderSize + StorageSize + n
<1> DEFINE sum == a + HeaderSize + StorageSize + n
<1>1. sum \in Nat /\ required_size(n, a) = sum % U64Range
  BY Constants DEF required_size
<1>2. Wraps(n, a) <=> sum >= U64Range
  BY DEF Wraps
<1> HIDE DEF sum
<1>3. sum % U64Range \in Nat
  BY <1>1, Constants, CutFacts
<1>4. sum < U64Range => sum % U64Range = sum
  BY <1>1, Constants, NotCut
<1>5. QED BY <1>1, <1>2, <1>3, <1>4, Constants DEF sum

\* get_aligned finds the next multiple.
LEMMA Aligned ==
  ASSUME NEW o \in Nat, NEW g \in Alignments
  PROVE  /\ get_aligned(o, g) \in Nat
         /\ get_aligned(o, g) % g = 0
         /\ o <= get_aligned(o, g)
         /\ get_aligned(o, g) < o + g
<1>1. g \in {1, 2, 4, 8, 16, 32, 64, 128, 256, 512, 1024, 2048, 4096, 8192, 16384, 32768}
  BY RequestAssumption
<1>2. QED BY <1>1, SMTT(60) DEF get_aligned

LEMMA LoadFacts ==
  ASSUME NEW a \in Int, NEW n \in Nat \ {0}, NEW w, w.at = a,
         a .. a + n - 1 \subseteq Memory,
         \A x \in a .. a + n - 1 : memory[x] = w
  PROVE  Load(a, n) = w
<1>1. a \in a .. a + n - 1
  OBVIOUS
<1>2. QED BY <1>1 DEF Load

LEMMA StoreFacts ==
  ASSUME NEW m \in [Memory -> Word], NEW a \in Int, NEW n \in Int, NEW w \in Word
  PROVE  /\ Store(m, a, n, w) \in [Memory -> Word]
         /\ \A x \in Memory : Store(m, a, n, w)[x] = IF x \in a .. a + n - 1 THEN w ELSE m[x]
BY DEF Store

-----------------------------------------------------------------------------
\* A block with its size and its header lies in its range and in the memory.
LEMMA BlockFacts ==
  ASSUME AllocatorInv, NEW b \in blocks
  PROVE  /\ b.ptr \in Int /\ b.size \in Nat \ {0} /\ b.alignment \in Nat \ {0}
         /\ First(b) \in Int /\ Taken(b) \in live
         /\ MemoryBlock <= First(b)
         /\ First(b) <= b.ptr - StorageSize
         /\ b.ptr + b.size + HeaderSize <= First(b) + required_size(b.size, b.alignment)
         /\ First(b) + required_size(b.size, b.alignment) <= MemoryBlock + TotalSize
<1>1. /\ b.ptr \in Int /\ b.size \in Nat \ {0} /\ b.alignment \in Nat \ {0}
  <2>1. b \in Block
    BY DEF AllocatorInv, Types
  <2>2. b.ptr \in Memory /\ b.size \in Sizes /\ b.alignment \in Alignments
    BY <2>1 DEF Block
  <2>3. \A x \in Memory : x \in Int
    BY Constants DEF Memory
  <2>4. QED BY <2>2, <2>3, Constants
<1>2. Taken(b) \in live /\ HoldsWithin(Taken(b), b)
  BY DEF AllocatorInv, BlocksOK
<1>3. /\ Taken(b).at \in Nat /\ Taken(b).size \in Nat
      /\ Taken(b).at + Taken(b).size <= TotalSize
  BY <1>2 DEF AllocatorInv, Types, RangesOK
<1>4. /\ Taken(b).at = First(b) - MemoryBlock
      /\ Taken(b).size = required_size(b.size, b.alignment)
  BY DEF Taken
<1>5. /\ MemoryBlock + Taken(b).at <= b.ptr - StorageSize
      /\ b.ptr + b.size + HeaderSize <= MemoryBlock + Taken(b).at + Taken(b).size
  BY <1>2 DEF HoldsWithin
<1>6. First(b) \in Int
  <2>1. b.ptr + b.size \in Memory
    BY <1>1, <1>3, <1>5, Constants DEF Memory
  <2>2. QED BY <2>1 DEF First, AllocatorInv, Types, Word
<1>7. QED BY <1>1, <1>2, <1>3, <1>4, <1>5, <1>6, Constants

\* Two blocks, with their sizes and headers, do not overlap.
LEMMA BlocksApart ==
  ASSUME AllocatorInv, NEW b \in blocks, NEW c \in blocks, b # c
  PROVE  \/ b.ptr + b.size + HeaderSize <= c.ptr - StorageSize
         \/ c.ptr + c.size + HeaderSize <= b.ptr - StorageSize
<1>1. Taken(b) # Taken(c)
  BY DEF AllocatorInv, BlocksOK
<1>2. \/ Taken(b).at + Taken(b).size <= Taken(c).at
      \/ Taken(c).at + Taken(c).size <= Taken(b).at
  BY <1>1, BlockFacts DEF AllocatorInv, RangesOK
<1>3. /\ Taken(b).at = First(b) - MemoryBlock /\ Taken(b).size = required_size(b.size, b.alignment)
      /\ Taken(c).at = First(c) - MemoryBlock /\ Taken(c).size = required_size(c.size, c.alignment)
  BY DEF Taken
<1> HIDE DEF Taken
<1>4. /\ required_size(b.size, b.alignment) \in Nat /\ required_size(c.size, c.alignment) \in Nat
  BY BlockFacts, RequiredFacts
<1>5. \/ First(b) + required_size(b.size, b.alignment) <= First(c)
      \/ First(c) + required_size(c.size, c.alignment) <= First(b)
  BY <1>2, <1>3, <1>4, BlockFacts, Constants
<1>6. QED BY <1>4, <1>5, BlockFacts, Constants

\* What a free reads is what the allocation wrote.
LEMMA ReadFacts ==
  ASSUME AllocatorInv, NEW b \in blocks
  PROVE  block_size(b.ptr) = b.size /\ header(b.ptr) = HeaderWord(b, First(b))
<1>1. /\ \A x \in b.ptr - StorageSize .. b.ptr - 1 : memory[x] = SizeWord(b)
      /\ \A x \in b.ptr + b.size .. b.ptr + b.size + HeaderSize - 1 :
           memory[x] = HeaderWord(b, First(b))
  BY DEF AllocatorInv, BlocksOK, WordsOK
<1>2. /\ b.ptr \in Int /\ b.size \in Nat \ {0}
      /\ MemoryBlock <= b.ptr - StorageSize
      /\ b.ptr + b.size + HeaderSize <= MemoryBlock + TotalSize
  <2>1. required_size(b.size, b.alignment) \in Nat
    BY BlockFacts, RequiredFacts
  <2>2. QED BY <2>1, BlockFacts, Constants
<1>3. Load(b.ptr - StorageSize, StorageSize) = SizeWord(b)
  <2>1. SizeWord(b).at = b.ptr - StorageSize
    BY DEF SizeWord, zero
  <2> DEFINE a == b.ptr - StorageSize
             w == SizeWord(b)
  <2>2. a \in Int /\ w.at = a
    BY <1>2, <2>1, Constants
  <2>3. a .. a + StorageSize - 1 \subseteq Memory
    BY <1>2, Constants DEF Memory
  <2>4. \A x \in a .. a + StorageSize - 1 : memory[x] = w
    BY <1>1, <1>2, Constants
  <2> HIDE DEF a, w
  <2>5. Load(a, StorageSize) = w
    BY <2>2, <2>3, <2>4, Constants, LoadFacts
  <2>6. QED BY <2>5 DEF a, w
<1>4. block_size(b.ptr) = b.size
  BY <1>3 DEF block_size, SizeWord, zero
<1>5. Load(b.ptr + b.size, HeaderSize) = HeaderWord(b, First(b))
  <2>1. HeaderWord(b, First(b)).at = b.ptr + b.size
    BY DEF HeaderWord, zero
  <2> DEFINE a == b.ptr + b.size
             w == HeaderWord(b, First(b))
  <2>2. a \in Int /\ w.at = a
    BY <1>2, <2>1
  <2>3. a .. a + HeaderSize - 1 \subseteq Memory
    BY <1>2, Constants DEF Memory
  <2>4. \A x \in a .. a + HeaderSize - 1 : memory[x] = w
    BY <1>1
  <2> HIDE DEF a, w
  <2>5. Load(a, HeaderSize) = w
    BY <2>2, <2>3, <2>4, Constants, LoadFacts
  <2>6. QED BY <2>5 DEF a, w
<1>6. QED BY <1>4, <1>5 DEF header

\* A block whose size and header nobody wrote to is as it was.
LEMMA Kept ==
  ASSUME AllocatorInv, NEW b \in blocks,
         \A x \in b.ptr - StorageSize .. b.ptr - 1 : memory'[x] = memory[x],
         \A x \in b.ptr + b.size .. b.ptr + b.size + HeaderSize - 1 : memory'[x] = memory[x]
  PROVE  First(b)' = First(b) /\ Taken(b)' = Taken(b) /\ WordsOK(b)'
<1>1. b.ptr + b.size \in b.ptr + b.size .. b.ptr + b.size + HeaderSize - 1
  BY BlockFacts, Constants
<1>2. First(b)' = First(b)
  BY <1>1 DEF First
<1>3. WordsOK(b)
  BY DEF AllocatorInv, BlocksOK
<1>4. WordsOK(b)'
  BY <1>2, <1>3 DEF WordsOK, HeaderWord, SizeWord, zero
<1>5. QED BY <1>2, <1>4 DEF Taken, required_size

-----------------------------------------------------------------------------
LEMMA InitInv == Init => AllocatorInv
<1> SUFFICES ASSUME Init PROVE AllocatorInv
  OBVIOUS
<1>1. Types
  <2>1. zero \in Word
    BY DEF zero, Word
  <2>2. QED BY <2>1 DEF Init, List!Init, Types
<1>2. RangesOK
  BY DEF Init, List!Init, RangesOK
<1>3. BlocksOK
  BY DEF Init, List!Init, BlocksOK
<1>4. QED BY <1>1, <1>2, <1>3 DEF AllocatorInv

LEMMA CreateInv ==
  ASSUME AllocatorInv, dynamic_allocator_create
  PROVE  AllocatorInv'
<1>1. /\ status' = "created" /\ free' = 0 .. TotalSize - 1 /\ live' = {}
      /\ memory' = [x \in Memory |-> zero] /\ blocks' = {}
  BY DEF dynamic_allocator_create, List!Fresh, AllocatorInv, BlocksOK
<1>2. Types'
  <2>1. zero \in Word
    BY DEF zero, Word
  <2>2. QED BY <1>1, <2>1 DEF Types, Memory
<1>3. RangesOK'
  BY <1>1 DEF RangesOK
<1>4. BlocksOK'
  BY <1>1 DEF BlocksOK
<1>5. QED BY <1>2, <1>3, <1>4 DEF AllocatorInv

LEMMA DestroyInv ==
  ASSUME AllocatorInv, dynamic_allocator_destroy
  PROVE  AllocatorInv'
<1>1. /\ status' = "destroyed" /\ free' = {} /\ live' = {}
      /\ memory' = [x \in Memory |-> zero] /\ blocks' = {}
  BY DEF dynamic_allocator_destroy, List!Destroy
<1>2. Types'
  <2>1. zero \in Word
    BY DEF zero, Word
  <2>2. QED BY <1>1, <2>1 DEF Types, Memory
<1>3. RangesOK'
  BY <1>1 DEF RangesOK
<1>4. BlocksOK'
  BY <1>1 DEF BlocksOK
<1>5. QED BY <1>2, <1>3, <1>4 DEF AllocatorInv

-----------------------------------------------------------------------------
\* What an allocation does: n bytes at p, in the free bytes from o on.
NewBlock(n, a, p) == [ptr |-> p, size |-> n, alignment |-> a]

NewRange(n, a, o) == [at |-> o, size |-> required_size(n, a)]

NewHeader(n, a, o, p) == [zero EXCEPT !.at = p + n, !.start = MemoryBlock + o, !.alignment = a]

Place(n, a, o, p) ==
  /\ ~ Wraps(n, a)
  /\ o + required_size(n, a) <= TotalSize
  /\ o .. o + required_size(n, a) - 1 \subseteq free
  /\ p % a = 0
  /\ MemoryBlock + o <= p - StorageSize
  /\ p + n + HeaderSize <= MemoryBlock + o + required_size(n, a)

Placed(n, a, o, p) ==
  /\ Place(n, a, o, p)
  /\ status' = status /\ status = "created"
  /\ free' = free \ (o .. o + required_size(n, a) - 1)
  /\ live' = live \cup {NewRange(n, a, o)}
  /\ memory' = Store(Store(memory, p - StorageSize, StorageSize, SizeWord(NewBlock(n, a, p))),
                     p + n, HeaderSize, NewHeader(n, a, o, p))
  /\ blocks' = blocks \cup {NewBlock(n, a, p)}
  /\ result' = p

LEMMA AllocateFacts ==
  ASSUME AllocatorInv, NEW n \in Sizes, NEW a \in Alignments, Allocate(n, a), ~ Wraps(n, a)
  PROVE  \E o \in Nat, p \in Nat : Placed(n, a, o, p)
<1> DEFINE r == required_size(n, a)
<1>1. /\ n \in Nat \ {0} /\ a \in Nat \ {0}
      /\ r = a + HeaderSize + StorageSize + n /\ r \in Nat \ {0}
  BY Constants, RequiredFacts
<1>2. status = "created" /\ r < MaxRequired
  BY DEF Allocate
<1>3. PICK o \in List!Fits(r) :
        /\ free' = free \ List!Span(o, r)
        /\ live' = live \cup {[at |-> o, size |-> r]}
        /\ answer' = List!Answer("allocate", TRUE, r, o)
  BY DEF Allocate, List!Allocate
<1> DEFINE start   == MemoryBlock + answer'.at
           aligned == get_aligned(start + StorageSize, a)
           sized   == [zero EXCEPT !.at = aligned - StorageSize, !.size = n % (MaxRequired + 1)]
           behind  == (aligned + n) % U64Range
           h       == [zero EXCEPT !.at = behind, !.start = start, !.alignment = a]
<1>4. /\ memory' = Store(Store(memory, aligned - StorageSize, StorageSize, sized),
                         behind, HeaderSize, h)
      /\ blocks' = blocks \cup {[ptr |-> aligned, size |-> n, alignment |-> a]}
      /\ result' = aligned
      /\ status' = status
  BY DEF Allocate
<1>5. answer'.at = o
  BY <1>3 DEF List!Answer
<1>6. /\ o \in Nat /\ o + r <= TotalSize /\ o .. o + r - 1 \subseteq free
  <2>1. o \in free /\ o .. o + r - 1 \subseteq free
    BY DEF List!Fits, List!Span
  <2>2. \A x \in free : x \in Nat /\ x < TotalSize
    BY Constants DEF AllocatorInv, Types
  <2> HIDE DEF r
  <2>3. o \in Nat /\ o + r - 1 \in o .. o + r - 1
    BY <1>1, <2>1, <2>2
  <2>4. QED BY <1>1, <2>1, <2>2, <2>3, Constants
<1>7. start + StorageSize \in Nat
  BY <1>5, <1>6, Constants
<1>8. /\ aligned \in Nat /\ aligned % a = 0
      /\ start + StorageSize <= aligned /\ aligned < start + StorageSize + a
  BY <1>7, Aligned
<1>9. n % (MaxRequired + 1) = n
  <2>1. n < MaxRequired + 1
    BY <1>1, <1>2, Constants
  <2>2. n \in Nat /\ MaxRequired + 1 \in Nat
    BY <1>1, Constants
  <2>3. QED BY <2>1, <2>2, NotCut
<1>10. behind = aligned + n
  <2>1. aligned + n \in Nat /\ aligned + n < U64Range
    <3>1. MemoryBlock + TotalSize + a <= U64Range
      BY AddressAssumption
    <3>2. start = MemoryBlock + o
      BY <1>5
    <3> HIDE DEF r, aligned, start
    <3>3. QED BY <1>1, <1>6, <1>8, <3>1, <3>2, Constants
  <2> HIDE DEF aligned
  <2>2. QED BY <2>1, Constants, NotCut
<1>11. start = MemoryBlock + o
  BY <1>5
<1> HIDE DEF behind
<1>14. sized = SizeWord(NewBlock(n, a, aligned)) /\ h = NewHeader(n, a, o, aligned)
  BY <1>5, <1>9, <1>10 DEF SizeWord, NewBlock, NewHeader
<1> HIDE DEF r, aligned, start, sized, h
<1>12. Place(n, a, o, aligned)
  <2>1. r = required_size(n, a)
    BY DEF r
  <2>2. /\ MemoryBlock + o <= aligned - StorageSize
        /\ aligned + n + HeaderSize <= MemoryBlock + o + r
    BY <1>1, <1>6, <1>8, <1>11, Constants
  <2>3. QED BY <1>6, <1>8, <2>1, <2>2 DEF Place
<1>13. Placed(n, a, o, aligned)
  <2>1. r = required_size(n, a)
    BY DEF r
  <2>2. free' = free \ (o .. o + required_size(n, a) - 1)
    BY <1>3, <2>1 DEF List!Span
  <2>3. live' = live \cup {NewRange(n, a, o)}
    BY <1>3, <2>1 DEF NewRange
  <2>4. blocks' = blocks \cup {NewBlock(n, a, aligned)}
    BY <1>4 DEF NewBlock
  <2>5. QED BY <1>2, <1>4, <1>10, <1>12, <1>14, <2>2, <2>3, <2>4 DEF Placed
<1>15. QED BY <1>6, <1>8, <1>13

\* A range that the list handed out and one that is free are apart.
LEMMA FreeApart ==
  ASSUME AllocatorInv, NEW t \in live, NEW o \in Nat, NEW r \in Nat \ {0},
         o .. o + r - 1 \subseteq free
  PROVE  t.at + t.size <= o \/ o + r <= t.at
<1>1. t.at \in Nat /\ t.size \in Nat \ {0}
  BY DEF AllocatorInv, Types
<1>2. \A x \in o .. o + r - 1 : x < t.at \/ t.at + t.size <= x
  BY DEF AllocatorInv, RangesOK
<1>3. CASE t.at < o
  <2>1. o \in o .. o + r - 1
    OBVIOUS
  <2>2. QED BY <1>1, <1>2, <1>3, <2>1
<1>4. CASE t.at >= o + r
  BY <1>1, <1>4
<1>5. CASE o <= t.at /\ t.at < o + r
  <2>1. t.at \in o .. o + r - 1
    BY <1>1, <1>5
  <2>2. QED BY <1>1, <1>2, <2>1
<1>6. QED BY <1>1, <1>3, <1>4, <1>5

\* A new block, with its size and header, is apart from the others.
LEMMA NewApart ==
  ASSUME AllocatorInv, NEW n \in Sizes, NEW a \in Alignments, NEW o \in Nat, NEW p \in Nat,
         Place(n, a, o, p), NEW c \in blocks
  PROVE  \/ c.ptr + c.size + HeaderSize <= p - StorageSize
         \/ p + n + HeaderSize <= c.ptr - StorageSize
<1> DEFINE r == required_size(n, a)
           t == Taken(c)
<1>1. /\ n \in Nat \ {0} /\ a \in Nat \ {0} /\ r \in Nat \ {0}
  BY Constants, RequiredFacts DEF Place
<1>2. /\ o .. o + r - 1 \subseteq free
      /\ MemoryBlock + o <= p - StorageSize /\ p + n + HeaderSize <= MemoryBlock + o + r
  BY DEF Place
<1>3. t \in live
  BY BlockFacts
<1>4. t.at + t.size <= o \/ o + r <= t.at
  <2> HIDE DEF r, t
  <2>1. QED BY <1>1, <1>2, <1>3, FreeApart
<1>5. t.at = First(c) - MemoryBlock /\ t.size = required_size(c.size, c.alignment)
  BY DEF Taken
<1>6. required_size(c.size, c.alignment) \in Nat
  BY BlockFacts, RequiredFacts
<1> HIDE DEF r, t
<1>7. QED BY <1>1, <1>2, <1>4, <1>5, <1>6, BlockFacts, Constants

\* What the memory holds after an allocation.
LEMMA PlacedWords ==
  ASSUME AllocatorInv, NEW n \in Sizes, NEW a \in Alignments, NEW o \in Nat, NEW p \in Nat,
         Placed(n, a, o, p)
  PROVE  /\ memory' \in [Memory -> Word]
         /\ \A x \in Memory :
              memory'[x] = IF x \in p + n .. p + n + HeaderSize - 1 THEN NewHeader(n, a, o, p)
                           ELSE IF x \in p - StorageSize .. p - 1
                           THEN SizeWord(NewBlock(n, a, p)) ELSE memory[x]
<1> DEFINE s == SizeWord(NewBlock(n, a, p))
           h == NewHeader(n, a, o, p)
           m == Store(memory, p - StorageSize, StorageSize, s)
<1>1. s \in Word /\ h \in Word
  <2>1. n \in Int /\ a \in Int /\ p - StorageSize \in Int /\ p + n \in Int
        /\ MemoryBlock + o \in Int
    BY Constants
  <2>2. zero \in Word
    BY DEF zero, Word
  <2>3. s = [zero EXCEPT !.at = p - StorageSize, !.size = n]
    BY DEF SizeWord, NewBlock
  <2>4. h = [zero EXCEPT !.at = p + n, !.start = MemoryBlock + o, !.alignment = a]
    BY DEF NewHeader
  <2> HIDE DEF s, h
  <2>5. QED BY <2>1, <2>2, <2>3, <2>4 DEF Word
<1>2. memory \in [Memory -> Word]
  BY DEF AllocatorInv, Types
<1>3. memory' = Store(m, p + n, HeaderSize, h)
  BY DEF Placed
<1>4. p - StorageSize \in Int /\ p + n \in Int /\ StorageSize \in Int /\ HeaderSize \in Int
      /\ (p - StorageSize) + StorageSize - 1 = p - 1
  BY Constants
<1> HIDE DEF s, h
<1>5. /\ m \in [Memory -> Word]
      /\ \A x \in Memory : m[x] = IF x \in p - StorageSize .. p - 1 THEN s ELSE memory[x]
  <2>1. /\ m \in [Memory -> Word]
        /\ \A x \in Memory : m[x] = IF x \in p - StorageSize .. (p - StorageSize) + StorageSize - 1
                                    THEN s ELSE memory[x]
    BY <1>1, <1>2, <1>4, StoreFacts
  <2>2. QED BY <2>1, <1>4
<1> HIDE DEF m
<1>6. /\ memory' \in [Memory -> Word]
      /\ \A x \in Memory : memory'[x] = IF x \in p + n .. p + n + HeaderSize - 1 THEN h ELSE m[x]
  BY <1>1, <1>3, <1>4, <1>5, StoreFacts
<1>7. QED BY <1>5, <1>6 DEF s, h

LEMMA AllocateInv ==
  ASSUME AllocatorInv, NEW n \in Sizes, NEW a \in Alignments, Allocate(n, a), ~ Wraps(n, a)
  PROVE  AllocatorInv'
<1>1. PICK o \in Nat, p \in Nat : Placed(n, a, o, p)
  BY AllocateFacts
<1> DEFINE r == required_size(n, a)
           b == NewBlock(n, a, p)
           t == NewRange(n, a, o)
<1>2. /\ n \in Nat \ {0} /\ a \in Nat \ {0} /\ r \in Nat \ {0}
      /\ r = a + HeaderSize + StorageSize + n
  BY Constants, RequiredFacts
<1>3. Place(n, a, o, p)
  BY <1>1 DEF Placed
<1>4. /\ o + r <= TotalSize /\ o .. o + r - 1 \subseteq free /\ p % a = 0
      /\ MemoryBlock + o <= p - StorageSize /\ p + n + HeaderSize <= MemoryBlock + o + r
  BY <1>3 DEF Place
<1>5. /\ status' = status /\ status = "created"
      /\ free' = free \ (o .. o + r - 1) /\ live' = live \cup {t} /\ blocks' = blocks \cup {b}
  BY <1>1 DEF Placed
<1>6. /\ memory' \in [Memory -> Word]
      /\ \A x \in Memory :
           memory'[x] = IF x \in p + n .. p + n + HeaderSize - 1 THEN NewHeader(n, a, o, p)
                        ELSE IF x \in p - StorageSize .. p - 1
                        THEN SizeWord(b) ELSE memory[x]
  BY <1>1, PlacedWords
<1>7. t.at = o /\ t.size = r /\ t \in [at : Nat, size : Nat \ {0}]
  BY <1>2 DEF NewRange
<1>8. b.ptr = p /\ b.size = n /\ b.alignment = a /\ b \in Block
  <2>1. p \in Memory
    BY <1>2, <1>4, Constants DEF Memory
  <2>2. QED BY <2>1 DEF NewBlock, Block
<1> HIDE DEF r, b, t
<1>9. Types'
  <2>1. status' \in {"created", "destroyed", "trapped"}
    BY <1>5
  <2>2. blocks' \subseteq [ptr : Memory', size : Sizes, alignment : Alignments]
    BY <1>5, <1>8 DEF AllocatorInv, Types, Block, Memory
  <2>3. free' \subseteq 0 .. TotalSize - 1 /\ live' \subseteq [at : Nat, size : Nat \ {0}]
    BY <1>5, <1>7 DEF AllocatorInv, Types
  <2>4. memory' \in [Memory -> Word]
    BY <1>6
  <2>5. QED BY <2>1, <2>2, <2>3, <2>4 DEF Types, Block, Memory, Word
<1>10. \A s \in live : s.at + s.size <= o \/ o + r <= s.at
  BY <1>2, <1>4, FreeApart
<1>11. t \notin live
  BY <1>2, <1>7, <1>10
<1>12. RangesOK'
  <2>1. RangesOK /\ \A s \in live : s.at \in Nat /\ s.size \in Nat \ {0}
    BY DEF AllocatorInv, Types
  <2>2. \A s \in live' : s.at + s.size <= TotalSize
    BY <1>4, <1>5, <1>7, <2>1 DEF RangesOK
  <2>3. \A s \in live', x \in free' : x < s.at \/ s.at + s.size <= x
    <3>1. \A x \in free' : x \in free /\ x \in Int /\ (x < o \/ o + r <= x)
      BY <1>2, <1>5, <1>9 DEF Types
    <3>2. QED BY <1>5, <1>7, <2>1, <3>1 DEF RangesOK
  <2>4. \A u, s \in live' : u = s \/ u.at + u.size <= s.at \/ s.at + s.size <= u.at
    BY <1>5, <1>7, <1>10, <2>1 DEF RangesOK
  <2>5. \A x \in 0 .. TotalSize - 1 :
          x \in free' \/ \E s \in live' : s.at <= x /\ x < s.at + s.size
    <3> SUFFICES ASSUME NEW x \in 0 .. TotalSize - 1, x \notin free'
                 PROVE  \E s \in live' : s.at <= x /\ x < s.at + s.size
      OBVIOUS
    <3>1. CASE x \in free
      <4>1. x \in o .. o + r - 1
        BY <1>5, <3>1
      <4>2. t \in live' /\ t.at <= x /\ x < t.at + t.size
        BY <1>2, <1>5, <1>7, <4>1, Constants
      <4>3. QED BY <4>2
    <3>2. CASE x \notin free
      <4>1. \E s \in live : s.at <= x /\ x < s.at + s.size
        BY <1>5, <2>1, <3>2 DEF RangesOK
      <4>2. QED BY <1>5, <4>1
    <3>3. QED BY <3>1, <3>2
  <2>6. QED BY <2>2, <2>3, <2>4, <2>5 DEF RangesOK
<1>13. \A c \in blocks : First(c)' = First(c) /\ Taken(c)' = Taken(c) /\ WordsOK(c)'
  <2> SUFFICES ASSUME NEW c \in blocks
               PROVE  First(c)' = First(c) /\ Taken(c)' = Taken(c) /\ WordsOK(c)'
    OBVIOUS
  <2>1. \/ c.ptr + c.size + HeaderSize <= p - StorageSize
        \/ p + n + HeaderSize <= c.ptr - StorageSize
    BY <1>3, NewApart
  <2>2. /\ c.ptr \in Int /\ c.size \in Nat \ {0}
        /\ MemoryBlock <= c.ptr - StorageSize
        /\ c.ptr + c.size + HeaderSize <= MemoryBlock + TotalSize
    <3>1. required_size(c.size, c.alignment) \in Nat
      BY BlockFacts, RequiredFacts
    <3>2. QED BY <3>1, BlockFacts, Constants
  <2>3. \A x \in c.ptr - StorageSize .. c.ptr + c.size + HeaderSize - 1 : memory'[x] = memory[x]
    <3> SUFFICES ASSUME NEW x \in c.ptr - StorageSize .. c.ptr + c.size + HeaderSize - 1
                 PROVE  memory'[x] = memory[x]
      OBVIOUS
    <3>1. x \in Memory
      BY <2>2, Constants DEF Memory
    <3>2. x \notin p + n .. p + n + HeaderSize - 1 /\ x \notin p - StorageSize .. p - 1
      BY <1>2, <2>1, <2>2, Constants
    <3>3. QED BY <1>6, <3>1, <3>2
  <2>4. /\ \A x \in c.ptr - StorageSize .. c.ptr - 1 : memory'[x] = memory[x]
        /\ \A x \in c.ptr + c.size .. c.ptr + c.size + HeaderSize - 1 : memory'[x] = memory[x]
    BY <2>2, <2>3, Constants
  <2>5. QED BY <2>4, Kept
<1>14. First(b)' = MemoryBlock + o /\ Taken(b)' = t /\ WordsOK(b)'
  <2>1. \A x \in p + n .. p + n + HeaderSize - 1 : memory'[x] = NewHeader(n, a, o, p)
    <3>1. \A x \in p + n .. p + n + HeaderSize - 1 : x \in Memory
      BY <1>2, <1>4, Constants DEF Memory
    <3>2. QED BY <1>6, <3>1
  <2>2. \A x \in p - StorageSize .. p - 1 : memory'[x] = SizeWord(b)
    <3>1. \A x \in p - StorageSize .. p - 1 :
            x \in Memory /\ x \notin p + n .. p + n + HeaderSize - 1
      BY <1>2, <1>4, Constants DEF Memory
    <3>2. QED BY <1>6, <3>1
  <2>3. p + n \in p + n .. p + n + HeaderSize - 1
    BY <1>2, Constants
  <2>4. First(b)' = MemoryBlock + o
    <3>1. First(b)' = memory'[p + n].start
      BY <1>8 DEF First
    <3>2. memory'[p + n] = NewHeader(n, a, o, p)
      BY <2>1, <2>3
    <3>3. QED BY <3>1, <3>2 DEF NewHeader, zero
  <2>5. Taken(b)' = t
    <3>1. Taken(b)' = [at |-> First(b)' - MemoryBlock, size |-> required_size(n, a)]
      BY <1>8 DEF Taken, required_size
    <3>2. First(b)' - MemoryBlock = o
      BY <2>4, Constants
    <3>3. QED BY <3>1, <3>2 DEF t, NewRange
  <2>6. NewHeader(n, a, o, p) = HeaderWord(b, MemoryBlock + o)
    BY <1>8 DEF NewHeader, HeaderWord
  <2>7. WordsOK(b)'
    <3>1. \A x \in b.ptr - StorageSize .. b.ptr - 1 : memory'[x] = SizeWord(b)
      BY <1>8, <2>2
    <3>2. \A x \in b.ptr + b.size .. b.ptr + b.size + HeaderSize - 1 :
            memory'[x] = HeaderWord(b, First(b)')
      BY <1>8, <2>1, <2>4, <2>6
    <3>3. QED BY <3>1, <3>2 DEF WordsOK, SizeWord, HeaderWord, zero
  <2>8. QED BY <2>4, <2>5, <2>7
<1>15. BlocksOK'
  <2>1. /\ \A c \in blocks : /\ c.ptr % c.alignment = 0
                             /\ Taken(c) \in live
                             /\ HoldsWithin(Taken(c), c)
        /\ \A c, d \in blocks : Taken(c) = Taken(d) => c = d
        /\ \A s \in live : \E c \in blocks : Taken(c) = s
    BY DEF AllocatorInv, BlocksOK
  <2>2. HoldsWithin(t, b)
    BY <1>4, <1>7, <1>8 DEF HoldsWithin, r
  <2>3. \A c \in blocks : HoldsWithin(Taken(c), c)'
    BY <1>13, <2>1 DEF HoldsWithin, required_size
  <2>4. HoldsWithin(Taken(b), b)'
    BY <1>14, <2>2 DEF HoldsWithin, required_size
  <2>5. \A c \in blocks' : /\ WordsOK(c)'
                           /\ c.ptr % c.alignment = 0
                           /\ Taken(c)' \in live'
                           /\ HoldsWithin(Taken(c), c)'
    BY <1>4, <1>5, <1>8, <1>13, <1>14, <2>1, <2>3, <2>4
  <2>6. \A c, d \in blocks' : Taken(c)' = Taken(d)' => c = d
    BY <1>5, <1>11, <1>13, <1>14, <2>1
  <2>7. \A s \in live' : \E c \in blocks' : Taken(c)' = s
    BY <1>5, <1>13, <1>14, <2>1
  <2>8. status' # "destroyed"
    BY <1>5
  <2>9. QED BY <2>5, <2>6, <2>7, <2>8 DEF BlocksOK
<1>16. QED BY <1>9, <1>12, <1>15 DEF AllocatorInv

LEMMA FreeInv ==
  ASSUME AllocatorInv, NEW b \in blocks, Free(b)
  PROVE  /\ AllocatorInv'
         /\ blocks' = blocks \ {b}
         /\ live' = live \ {Taken(b)}
<1> DEFINE t == Taken(b)
<1>1. block_size(b.ptr) = b.size /\ header(b.ptr) = HeaderWord(b, First(b))
  BY ReadFacts
<1>2. header(b.ptr).start = First(b) /\ header(b.ptr).alignment = b.alignment
  BY <1>1 DEF HeaderWord, zero
<1>3. t = [at   |-> header(b.ptr).start - MemoryBlock,
           size |-> required_size(block_size(b.ptr), header(b.ptr).alignment)]
  BY <1>1, <1>2 DEF Taken
<1>4. List!Free(t) /\ status = "created" /\ status' = status
      /\ blocks' = blocks \ {b} /\ memory' = memory
  BY <1>3 DEF Free
<1>5. t \in live
  BY BlockFacts
<1> HIDE DEF t
<1>6. free' = free \cup (t.at .. t.at + t.size - 1) /\ live' = live \ {t}
  BY <1>4 DEF List!Free, List!Span
<1>7. t.at \in Nat /\ t.size \in Nat \ {0} /\ t.at + t.size <= TotalSize
  BY <1>5 DEF AllocatorInv, Types, RangesOK
<1>8. Types'
  <2>1. free' \subseteq 0 .. TotalSize - 1
    <3>1. t.at .. t.at + t.size - 1 \subseteq 0 .. TotalSize - 1
      BY <1>7, Constants
    <3>2. QED BY <1>6, <3>1 DEF AllocatorInv, Types
  <2>2. live' \subseteq [at : Nat, size : Nat \ {0}]
    BY <1>6 DEF AllocatorInv, Types
  <2>3. blocks' \subseteq Block /\ memory' \in [Memory -> Word] /\ status' = "created"
    BY <1>4 DEF AllocatorInv, Types
  <2>4. QED BY <2>1, <2>2, <2>3 DEF Types, Block, Memory, Word
<1>9. RangesOK'
  <2>1. RangesOK /\ \A s \in live : s.at \in Nat /\ s.size \in Nat \ {0}
    BY DEF AllocatorInv, Types
  <2>2. \A s \in live' : s.at + s.size <= TotalSize
    BY <1>6, <2>1 DEF RangesOK
  <2>3. \A s \in live', x \in free' : x < s.at \/ s.at + s.size <= x
    <3> SUFFICES ASSUME NEW s \in live', NEW x \in free'
                 PROVE  x < s.at \/ s.at + s.size <= x
      OBVIOUS
    <3>1. s \in live /\ s # t
      BY <1>6
    <3>2. CASE x \in free
      BY <2>1, <3>1, <3>2 DEF RangesOK
    <3>3. CASE x \in t.at .. t.at + t.size - 1
      <4>1. t.at + t.size <= s.at \/ s.at + s.size <= t.at
        BY <1>5, <2>1, <3>1 DEF RangesOK
      <4>2. QED BY <1>7, <2>1, <3>1, <3>3, <4>1
    <3>4. QED BY <1>6, <3>2, <3>3
  <2>4. \A u, s \in live' : u = s \/ u.at + u.size <= s.at \/ s.at + s.size <= u.at
    BY <1>6, <2>1 DEF RangesOK
  <2>5. \A x \in 0 .. TotalSize - 1 :
          x \in free' \/ \E s \in live' : s.at <= x /\ x < s.at + s.size
    <3> SUFFICES ASSUME NEW x \in 0 .. TotalSize - 1, x \notin free'
                 PROVE  \E s \in live' : s.at <= x /\ x < s.at + s.size
      OBVIOUS
    <3>1. x \notin free /\ ~(t.at <= x /\ x < t.at + t.size)
      BY <1>6, <1>7
    <3>2. PICK s \in live : s.at <= x /\ x < s.at + s.size
      BY <1>4, <2>1, <3>1 DEF RangesOK
    <3>3. s # t
      BY <3>1, <3>2
    <3>4. QED BY <1>6, <3>2, <3>3
  <2>6. QED BY <2>2, <2>3, <2>4, <2>5 DEF RangesOK
<1>10. \A c \in blocks : First(c)' = First(c) /\ Taken(c)' = Taken(c) /\ WordsOK(c)'
  BY <1>4, Kept
<1>11. BlocksOK'
  <2>1. /\ \A c \in blocks : /\ c.ptr % c.alignment = 0
                             /\ Taken(c) \in live
                             /\ HoldsWithin(Taken(c), c)
        /\ \A c, d \in blocks : Taken(c) = Taken(d) => c = d
        /\ \A s \in live : \E c \in blocks : Taken(c) = s
    BY DEF AllocatorInv, BlocksOK
  <2>2. \A c \in blocks' : c \in blocks /\ Taken(c) # t
    BY <1>4, <2>1 DEF t
  <2>3. \A c \in blocks : HoldsWithin(Taken(c), c)'
    BY <1>10, <2>1 DEF HoldsWithin, required_size
  <2>4. \A c \in blocks' : /\ WordsOK(c)'
                           /\ c.ptr % c.alignment = 0
                           /\ Taken(c)' \in live'
                           /\ HoldsWithin(Taken(c), c)'
    BY <1>6, <1>10, <2>1, <2>2, <2>3
  <2>5. \A c, d \in blocks' : Taken(c)' = Taken(d)' => c = d
    BY <1>10, <2>1, <2>2
  <2>6. \A s \in live' : \E c \in blocks' : Taken(c)' = s
    <3> SUFFICES ASSUME NEW s \in live' PROVE \E c \in blocks' : Taken(c)' = s
      OBVIOUS
    <3>1. PICK c \in blocks : Taken(c) = s
      BY <1>6, <2>1
    <3>2. c # b
      BY <1>6, <3>1 DEF t
    <3>3. QED BY <1>4, <1>10, <3>1, <3>2
  <2>7. status' # "destroyed"
    BY <1>4
  <2>8. QED BY <2>4, <2>5, <2>6, <2>7 DEF BlocksOK
<1>12. QED BY <1>4, <1>6, <1>8, <1>9, <1>11 DEF AllocatorInv, t

LEMMA WriteInv ==
  ASSUME AllocatorInv, NEW b \in blocks, Write(b)
  PROVE  AllocatorInv'
<1>1. /\ memory' = Store(memory, b.ptr, b.size, zero)
      /\ status' = status /\ free' = free /\ live' = live /\ blocks' = blocks
  BY DEF Write
<1>2. b.ptr \in Int /\ b.size \in Nat \ {0}
  BY BlockFacts
<1>3. /\ memory' \in [Memory -> Word]
      /\ \A x \in Memory : memory'[x] = IF x \in b.ptr .. b.ptr + b.size - 1 THEN zero ELSE memory[x]
  <2>1. zero \in Word /\ memory \in [Memory -> Word]
    BY DEF zero, Word, AllocatorInv, Types
  <2>2. QED BY <1>1, <1>2, <2>1, StoreFacts
<1>4. Types'
  BY <1>1, <1>3 DEF AllocatorInv, Types, Block, Memory, Word
<1>5. RangesOK'
  BY <1>1 DEF AllocatorInv, RangesOK
<1>6. \A c \in blocks : First(c)' = First(c) /\ Taken(c)' = Taken(c) /\ WordsOK(c)'
  <2> SUFFICES ASSUME NEW c \in blocks
               PROVE  First(c)' = First(c) /\ Taken(c)' = Taken(c) /\ WordsOK(c)'
    OBVIOUS
  <2>1. /\ c.ptr \in Int /\ c.size \in Nat \ {0}
        /\ MemoryBlock <= c.ptr - StorageSize
        /\ c.ptr + c.size + HeaderSize <= MemoryBlock + TotalSize
    <3>1. required_size(c.size, c.alignment) \in Nat
      BY BlockFacts, RequiredFacts
    <3>2. QED BY <3>1, BlockFacts, Constants
  <2>2. \/ b = c
        \/ b.ptr + b.size + HeaderSize <= c.ptr - StorageSize
        \/ c.ptr + c.size + HeaderSize <= b.ptr - StorageSize
    BY BlocksApart
  <2>3. ASSUME NEW x \in Int, c.ptr - StorageSize <= x, x < c.ptr + c.size + HeaderSize,
               ~(c.ptr <= x /\ x < c.ptr + c.size)
        PROVE  memory'[x] = memory[x]
    <3>1. x \in Memory
      BY <2>1, <2>3, Constants DEF Memory
    <3>2. x \notin b.ptr .. b.ptr + b.size - 1
      <4>1. CASE b = c
        BY <1>2, <2>3, <4>1
      <4>2. CASE b.ptr + b.size + HeaderSize <= c.ptr - StorageSize
        BY <1>2, <2>1, <2>3, <4>2, Constants
      <4>3. CASE c.ptr + c.size + HeaderSize <= b.ptr - StorageSize
        BY <1>2, <2>1, <2>3, <4>3, Constants
      <4>4. QED BY <2>2, <4>1, <4>2, <4>3
    <3>3. QED BY <1>3, <3>1, <3>2
  <2>4. \A x \in c.ptr - StorageSize .. c.ptr - 1 : memory'[x] = memory[x]
    BY <2>1, <2>3, Constants
  <2>5. \A x \in c.ptr + c.size .. c.ptr + c.size + HeaderSize - 1 : memory'[x] = memory[x]
    BY <2>1, <2>3, Constants
  <2>6. QED BY <2>4, <2>5, Kept
<1>7. BlocksOK'
  <2>1. BlocksOK
    BY DEF AllocatorInv
  <2>2. \A c \in blocks : HoldsWithin(Taken(c), c)'
    BY <1>6, <2>1 DEF BlocksOK, HoldsWithin, required_size
  <2>3. QED BY <1>1, <1>6, <2>1, <2>2 DEF BlocksOK
<1>8. QED BY <1>4, <1>5, <1>7 DEF AllocatorInv

-----------------------------------------------------------------------------
LEMMA StutterInv ==
  ASSUME AllocatorInv, status' = status \/ (status' = "trapped" /\ status = "created"),
         free' = free, live' = live, memory' = memory, blocks' = blocks
  PROVE  AllocatorInv'
<1>1. Types'
  BY DEF AllocatorInv, Types, Block, Memory, Word
<1>2. RangesOK'
  BY DEF AllocatorInv, RangesOK
<1>3. \A c \in blocks : First(c)' = First(c) /\ Taken(c)' = Taken(c) /\ WordsOK(c)'
  BY Kept
<1>4. BlocksOK'
  <2>1. BlocksOK
    BY DEF AllocatorInv
  <2>2. \A c \in blocks : HoldsWithin(Taken(c), c)'
    BY <1>3, <2>1 DEF BlocksOK, HoldsWithin, required_size
  <2>3. status' = "destroyed" => status = "destroyed"
    OBVIOUS
  <2>4. QED BY <1>3, <2>1, <2>2, <2>3 DEF BlocksOK
<1>5. QED BY <1>1, <1>2, <1>4 DEF AllocatorInv

LEMMA NextInv ==
  ASSUME AllocatorInv, [Next]_vars, status' # "overrun"
  PROVE  AllocatorInv'
<1>1. CASE \E n \in Sizes, a \in Alignments : Allocate(n, a)
  <2>1. PICK n \in Sizes, a \in Alignments : Allocate(n, a)
    BY <1>1
  <2>2. ~ Wraps(n, a)
    BY <2>1 DEF Allocate
  <2>3. QED BY <2>1, <2>2, AllocateInv
<1>2. CASE \E n \in Sizes, a \in Alignments : AllocateRefused(n, a)
  BY <1>2, StutterInv DEF AllocateRefused, List!AllocateRefused
<1>3. CASE \E n \in Sizes, a \in Alignments : AllocateTrapped(n, a)
  BY <1>3, StutterInv DEF AllocateTrapped
<1>4. CASE \E n \in Sizes \cup {0}, a \in Alignments \cup {0} : AllocateInvalid(n, a)
  BY <1>4, StutterInv DEF AllocateInvalid
<1>5. CASE \E b \in blocks : Free(b)
  BY <1>5, FreeInv
<1>6. CASE \E b \in blocks : Write(b)
  BY <1>6, WriteInv
<1>7. CASE \E p \in {0, MemoryBlock - 1, MemoryBlock + TotalSize + 1} : FreeOutside(p)
  BY <1>7, StutterInv DEF FreeOutside
<1>8. CASE dynamic_allocator_create
  BY <1>8, CreateInv
<1>9. CASE dynamic_allocator_destroy
  BY <1>9, DestroyInv
<1>10. CASE UNCHANGED vars
  <2>1. /\ status' = status /\ free' = free /\ live' = live
        /\ memory' = memory /\ blocks' = blocks
    BY <1>10 DEF vars
  <2>2. QED BY <2>1, StutterInv
<1>11. QED
  BY <1>1, <1>2, <1>3, <1>4, <1>5, <1>6, <1>7, <1>8, <1>9, <1>10 DEF Next

\* No call is modelled after a sum has wrapped.
LEMMA OverrunStays ==
  ASSUME status = "overrun", [Next]_vars
  PROVE  status' = "overrun" /\ UNCHANGED vars
BY DEF Next, vars, Allocate, AllocateRefused, AllocateTrapped, AllocateInvalid, Free, Write,
       FreeOutside, dynamic_allocator_create, dynamic_allocator_destroy

(***************************************************************************)
(* The memory around every block says what was written there, the ranges   *)
(* of the free list are apart, and each holds one block, until a sum of    *)
(* line 76 wraps.                                                          *)
(***************************************************************************)
THEOREM AllocatorConsistent == Spec => []AllocatorSound
<1>1. Init => AllocatorSound
  BY InitInv DEF AllocatorSound
<1>2. AllocatorSound /\ [Next]_vars => AllocatorSound'
  BY NextInv, OverrunStays DEF AllocatorSound
<1>3. QED BY <1>1, <1>2, PTL DEF Spec

(***************************************************************************)
(* A free finds the size and the alignment that the allocation was asked   *)
(* for, unless a sum of line 76 has wrapped: nothing the allocator or the  *)
(* callers wrote ran over them, and no size was cut to its u32.            *)
(***************************************************************************)
THEOREM MetadataStays == Spec => []MetadataIntact
<1>1. AllocatorInv => MetadataIntact
  BY ReadFacts DEF MetadataIntact, dynamic_allocator_get_size_alignment, HeaderWord, zero
<1>2. AllocatorSound => MetadataIntact
  BY <1>1 DEF AllocatorSound, MetadataIntact
<1>3. QED BY AllocatorConsistent, <1>2, PTL

(***************************************************************************)
(* The list has one range out for each block, no more and no less, unless  *)
(* a sum of line 76 has wrapped.                                           *)
(***************************************************************************)
THEOREM NothingLeaks == Spec => []TakenIsHeld
<1>1. AllocatorInv => TakenIsHeld
  BY DEF AllocatorInv, BlocksOK, TakenIsHeld
<1>2. AllocatorSound => TakenIsHeld
  BY <1>1 DEF AllocatorSound, TakenIsHeld
<1>3. QED BY AllocatorConsistent, <1>2, PTL

-----------------------------------------------------------------------------
\* The allocator takes the steps of Heap.
LEMMA AllocateStep ==
  ASSUME AllocatorInv, NEW n \in Sizes, NEW a \in Alignments, Allocate(n, a), ~ Wraps(n, a)
  PROVE  HP!Allocate(n, a)
<1>1. PICK o \in Nat, p \in Nat : Placed(n, a, o, p)
  BY AllocateFacts
<1> DEFINE r == required_size(n, a)
           b == [ptr |-> p, size |-> n, alignment |-> a]
<1>2. n \in Nat \ {0} /\ a \in Nat \ {0} /\ r \in Nat \ {0}
  BY Constants, RequiredFacts
<1>3. Place(n, a, o, p) /\ blocks' = blocks \cup {b} /\ result' = p
  BY <1>1 DEF Placed, NewBlock
<1>4. /\ o + r <= TotalSize /\ p % a = 0
      /\ MemoryBlock + o <= p - StorageSize /\ p + n + HeaderSize <= MemoryBlock + o + r
  BY <1>3 DEF Place
<1>5. HP!Region(b) = p .. p + n - 1
  BY DEF HP!Region
<1> HIDE DEF r, b
<1>6. p \in Memory /\ HP!Region(b) \subseteq Memory
  <2>1. MemoryBlock <= p /\ p + n <= MemoryBlock + TotalSize
    BY <1>2, <1>4, Constants
  <2>2. QED BY <1>2, <1>5, <2>1, Constants DEF Memory
<1>7. \A c \in blocks : HP!Region(b) \cap HP!Region(c) = {}
  <2> SUFFICES ASSUME NEW c \in blocks, NEW x \in HP!Region(b), x \in HP!Region(c)
               PROVE  FALSE
    OBVIOUS
  <2>1. x \in p .. p + n - 1 /\ x \in c.ptr .. c.ptr + c.size - 1
    BY <1>5 DEF HP!Region
  <2>2. \/ c.ptr + c.size + HeaderSize <= p - StorageSize
        \/ p + n + HeaderSize <= c.ptr - StorageSize
    BY <1>3, NewApart
  <2>3. c.ptr \in Int /\ c.size \in Nat
    BY BlockFacts
  <2>4. QED BY <1>2, <2>1, <2>2, <2>3, Constants
<1>8. QED BY <1>3, <1>4, <1>6, <1>7 DEF HP!Allocate, b

\* Without blocks, all of the memory is free, and serves what it can hold.
LEMMA RefusedStep ==
  ASSUME AllocatorInv, NEW n \in Sizes, NEW a \in Alignments, AllocateRefused(n, a)
  PROVE  HP!AllocateFails(n, a)
<1> DEFINE r == required_size(n, a)
           sum == a + (HeaderSize + StorageSize) + n
<1>1. /\ n \in Nat \ {0} /\ a \in Nat \ {0} /\ r \in Nat /\ sum \in Nat
      /\ ~ Wraps(n, a) => r = sum
  BY Constants, RequiredFacts
<1>2. status = "created" /\ List!Fits(r) = {} /\ result' = 0 /\ blocks' = blocks
  BY DEF AllocateRefused, List!AllocateRefused
<1>3. CASE Wraps(n, a)
  <2>1. sum >= U64Range
    BY <1>1, <1>3, Constants DEF Wraps
  <2>2. MemoryBlock + TotalSize + a <= U64Range
    BY AddressAssumption
  <2> HIDE DEF r, sum
  <2>3. sum > TotalSize
    BY <1>1, <2>1, <2>2, Constants
  <2>4. QED BY <1>2, <2>3 DEF HP!AllocateFails, sum
<1>4. CASE ~ Wraps(n, a)
  <2> HIDE DEF r, sum
  <2>1. ASSUME blocks = {}, ~(sum > TotalSize)
        PROVE  FALSE
    <3>1. live = {}
      BY <2>1 DEF AllocatorInv, BlocksOK
    <3>2. \A x \in 0 .. TotalSize - 1 : x \in free
      BY <1>2, <3>1 DEF AllocatorInv, RangesOK
    <3>3. 0 \in free /\ 0 .. 0 + r - 1 \subseteq free
      BY <1>1, <1>4, <2>1, <3>2, Constants
    <3>4. 0 \in List!Fits(r)
      BY <3>3 DEF List!Fits, List!Span
    <3>5. QED BY <1>2, <3>4
  <2>2. QED BY <1>2, <2>1 DEF HP!AllocateFails, sum
<1>5. QED BY <1>3, <1>4

(***************************************************************************)
(* The allocator implements Heap: blocks are aligned, inside the memory    *)
(* and apart, and an empty allocator has all of its memory again, however  *)
(* it came to be empty (dynamic_allocator_tests.c:120-137).  Only an       *)
(* allocation whose sum on line 76 wraps is no step of Heap.               *)
(***************************************************************************)
THEOREM AllocatorIsHeap == Spec => ImplementsHeap
<1>1. Init => HP!Init
  BY DEF Init, HP!Init
<1>2. ASSUME AllocatorInv, [Next]_vars, status' # "overrun"
      PROVE  HP!Next \/ (blocks' = blocks /\ result' = result)
  <2> USE <1>2
  <2>1. CASE \E n \in Sizes, a \in Alignments : Allocate(n, a)
    <3>1. PICK n \in Sizes, a \in Alignments : Allocate(n, a)
      BY <2>1
    <3>2. ~ Wraps(n, a)
      BY <3>1 DEF Allocate
    <3>3. HP!Allocate(n, a)
      BY <3>1, <3>2, AllocateStep
    <3>4. QED BY <3>3 DEF HP!Next
  <2>2. CASE \E n \in Sizes, a \in Alignments : AllocateRefused(n, a)
    BY <2>2, RefusedStep DEF HP!Next
  <2>3. CASE \E n \in Sizes, a \in Alignments : AllocateTrapped(n, a)
    BY <2>3 DEF AllocateTrapped
  <2>4. CASE \E n \in Sizes \cup {0}, a \in Alignments \cup {0} : AllocateInvalid(n, a)
    <3>1. PICK n \in Sizes \cup {0}, a \in Alignments \cup {0} : AllocateInvalid(n, a)
      BY <2>4
    <3>2. (n = 0 \/ a = 0) /\ result' = 0 /\ blocks' = blocks
      BY <3>1 DEF AllocateInvalid
    <3>3. HP!AllocateFails(n, a)
      BY <3>2 DEF HP!AllocateFails
    <3>4. QED BY <3>3 DEF HP!Next
  <2>5. CASE \E b \in blocks : Free(b)
    <3>1. PICK b \in blocks : Free(b)
      BY <2>5
    <3>2. HP!Free(b)
      BY <3>1 DEF Free, HP!Free
    <3>3. QED BY <3>2 DEF HP!Next
  <2>6. CASE \E b \in blocks : Write(b)
    BY <2>6 DEF Write
  <2>7. CASE \E p \in {0, MemoryBlock - 1, MemoryBlock + TotalSize + 1} : FreeOutside(p)
    BY <2>7 DEF FreeOutside, HP!FreeFails, HP!Next
  <2>8. CASE dynamic_allocator_create
    BY <2>8 DEF dynamic_allocator_create, AllocatorInv, BlocksOK, HP!Reset, HP!Next
  <2>9. CASE dynamic_allocator_destroy
    BY <2>9 DEF dynamic_allocator_destroy, HP!Reset, HP!Next
  <2>10. CASE UNCHANGED vars
    BY <2>10 DEF vars
  <2>11. QED
    BY <2>1, <2>2, <2>3, <2>4, <2>5, <2>6, <2>7, <2>8, <2>9, <2>10 DEF Next
<1>3. AllocatorSound /\ [Next]_vars => [status' # "overrun" => HP!Next]_(HP!vars)
  BY <1>2, OverrunStays DEF AllocatorSound, HP!vars
<1>4. QED BY AllocatorConsistent, <1>1, <1>3, PTL DEF Spec, ImplementsHeap
===============================================================================
